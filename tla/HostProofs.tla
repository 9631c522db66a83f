------------------------------ MODULE HostProofs ------------------------------
(* Proofs about the store and the names, for all that writes there, and about   *)
(* the system HostSystem makes of them and of the parts of the host, which       *)
(* HostPartsProofs proves about.                                                 *)
EXTENDS HostSystem, HostPartsProofs

-------------------------------------------------------------------------------
(* The store and the names: what is written of devices and incidents by all    *)
(* that writes there.                                                          *)

\* The tables of the database and the columns of a device.
Tables == {"writes", "devices", "links", "packets", "ed", "incidents", "rfTotal",
           "rfReason", "rfLog", "haLog", "pans", "minutes", "probes", "schedules"}
DeviceColumns == {"first", "last", "count", "rssi", "lqi", "ch", "pan", "ext", "name", "coord"}

\* The database is a record of its tables, a device's row one of its columns.
IsDatabase(d) == d = [t \in Tables |-> d[t]]
IsRow(r) == r = [c \in DeviceColumns |-> r[c]] /\ r.last \in Nat \ {0} /\ r.count \in Nat
\* The table of devices: a function with finitely many rows.
AreDevices(t) ==
  /\ t = [a \in DOMAIN t |-> t[a]] /\ DOMAIN t \subseteq Int /\ IsFiniteSet(DOMAIN t)
  /\ \A a \in DOMAIN t : IsRow(t[a])
\* What is kept of the store whatever is written: of an address that is alone in its
\* low 16 bits, silence and recovery take turns among the incidents.
StoreInv(d) == IsDatabase(d) /\ AreDevices(d.devices) /\ IsList(d.incidents) /\ InTurn(d)

-------------------------------------------------------------------------------
\* r is s followed by f.
IsJoin(r, s, f) ==
  /\ IsList(r) /\ Len(r) = Len(s) + Len(f)
  /\ \A i \in 1..Len(s) : r[i] = s[i]
  /\ \A i \in 1..Len(f) : r[Len(s) + i] = f[i]

\* Two sequences, one after the other.
LEMMA Joined == \A s, f : IsList(s) /\ IsList(f) => IsJoin(s \o f, s, f)
<1> TAKE s, f
<1> HAVE IsList(s) /\ IsList(f)
<1> DEFINE S == Range(s) \cup Range(f)
<1>1. s \in Seq(S) /\ f \in Seq(S)
  BY DEF IsList
<1> HIDE DEF S
<1>2. /\ s \o f \in Seq(S) /\ Len(s \o f) = Len(s) + Len(f)
      /\ \A i \in 1..Len(s) : (s \o f)[i] = s[i]
      /\ \A i \in 1..Len(f) : (s \o f)[Len(s) + i] = f[i]
  BY <1>1
<1>3. IsList(s \o f)
  BY <1>2, Lists, Zenon
<1> QED
  BY <1>2, <1>3 DEF IsJoin

\* The newest n of a sequence is the sequence without its first ones.
LEMMA Newer ==
  ASSUME NEW s, IsList(s), NEW n \in Nat
  PROVE  \E k \in Nat : /\ k <= Len(s) /\ IsList(Newest(s, n)) /\ Len(Newest(s, n)) = Len(s) - k
                        /\ \A i \in 1..(Len(s) - k) : Newest(s, n)[i] = s[i + k]
<1>1. CASE Len(s) > n
  <2> DEFINE k == Len(s) - n
  <2>0. Len(s) \in Nat /\ k \in Nat /\ k <= Len(s) /\ Len(s) - k = n
    BY <1>1, Lists
  <2>1. \A i \in (k + 1)..Len(s) : s[i] \in Range(s)
    BY <2>0, Lists DEF IsList
  <2>2. /\ SubSeq(s, k + 1, Len(s)) \in Seq(Range(s))
        /\ Len(SubSeq(s, k + 1, Len(s))) = n
        /\ \A i \in 1..n : SubSeq(s, k + 1, Len(s))[i] = s[i + k]
    BY <2>0, <2>1, SubSeqProperties
  <2>3. Newest(s, n) = SubSeq(s, k + 1, Len(s))
    BY <1>1 DEF Newest
  <2> QED
    BY <2>0, <2>2, <2>3, Lists
<1>2. CASE ~(Len(s) > n)
  <2>1. Newest(s, n) = s
    BY <1>2 DEF Newest
  <2> QED
    BY <2>1, Lists
<1> QED
  BY <1>1, <1>2

-------------------------------------------------------------------------------
\* The incident says that a device fell silent or came back.
IsWord(s, i) == i \in DOMAIN s /\ s[i].reason \in {"silence", "recovered"}

\* InTurn, said of the incidents alone.
LEMMA TurnsAre ==
  ASSUME NEW d
  PROVE  InTurn(d) <=>
           \A i, j \in DOMAIN d.incidents :
             /\ i < j /\ IsWord(d.incidents, i) /\ IsWord(d.incidents, j)
             /\ d.incidents[i].addr = d.incidents[j].addr /\ Alone(d, d.incidents[i].addr)
             /\ d.incidents[i].reason = d.incidents[j].reason
             => \E k \in DOMAIN d.incidents : /\ i < k /\ k < j /\ IsWord(d.incidents, k)
                                              /\ d.incidents[k].addr = d.incidents[i].addr
BY DEF InTurn, Words, RowsOf, IsWord

\* More devices make fewer addresses stand alone.
LEMMA GrownKeeps ==
  ASSUME NEW d, NEW e, StoreInv(d), IsDatabase(e), AreDevices(e.devices),
         DOMAIN d.devices \subseteq DOMAIN e.devices, e.incidents = d.incidents
  PROVE  StoreInv(e)
<1>1. \A a : Alone(e, a) => Alone(d, a)
  BY DEF Alone
<1>2. InTurn(e)
  BY <1>1, TurnsAre DEF StoreInv
<1> QED
  BY <1>2 DEF StoreInv

\* Without incidents nothing is out of turn.
LEMMA EmptyKeeps ==
  ASSUME NEW e, IsDatabase(e), AreDevices(e.devices), e.incidents = <<>>
  PROVE  StoreInv(e)
<1>1. InTurn(e)
  BY TurnsAre
<1> QED
  BY <1>1, Lists DEF StoreInv

\* Dropping the oldest incidents leaves the others in turn.
LEMMA CutKeeps ==
  ASSUME NEW d, NEW e, StoreInv(d), IsDatabase(e), e.devices = d.devices,
         NEW n \in Nat, e.incidents = Newest(d.incidents, n)
  PROVE  StoreInv(e)
<1> DEFINE s == d.incidents
           t == e.incidents
<1>1. IsList(s)
  BY DEF StoreInv
<1>0. t = Newest(s, n)
  OBVIOUS
<1> HIDE DEF s, t
<1>2. PICK k \in Nat : /\ k <= Len(s) /\ IsList(t) /\ Len(t) = Len(s) - k
                       /\ \A i \in 1..(Len(s) - k) : t[i] = s[i + k]
  BY <1>0, <1>1, Newer
<1>3. /\ Len(s) \in Nat /\ DOMAIN s = 1..Len(s) /\ DOMAIN t = 1..(Len(s) - k)
  BY <1>1, <1>2, Lists
<1>9. \A i \in DOMAIN t : i \in Nat /\ i + k \in DOMAIN s /\ t[i] = s[i + k]
  BY <1>2, <1>3
<1>10. \A m \in DOMAIN s : m \in Nat /\ (m > k => m - k \in DOMAIN t /\ t[m - k] = s[m])
  BY <1>2, <1>3
<1>4. \A a : Alone(e, a) <=> Alone(d, a)
  BY DEF Alone
<1>5. ASSUME NEW i \in DOMAIN t, NEW j \in DOMAIN t, i < j, IsWord(t, i), IsWord(t, j),
             t[i].addr = t[j].addr, Alone(e, t[i].addr), t[i].reason = t[j].reason
      PROVE  \E m \in DOMAIN t : i < m /\ m < j /\ IsWord(t, m) /\ t[m].addr = t[i].addr
  <2>1. /\ i + k \in DOMAIN s /\ j + k \in DOMAIN s /\ i + k < j + k
        /\ t[i] = s[i + k] /\ t[j] = s[j + k]
    BY <1>5, <1>9
  <2>2. IsWord(s, i + k) /\ IsWord(s, j + k)
    BY <1>5, <2>1 DEF IsWord
  <2>3. PICK m \in DOMAIN s : /\ i + k < m /\ m < j + k /\ IsWord(s, m)
                              /\ s[m].addr = s[i + k].addr
    BY <1>4, <1>5, <2>1, <2>2, TurnsAre DEF StoreInv, s
  <2>4. m - k \in DOMAIN t /\ i < m - k /\ m - k < j /\ t[m - k] = s[m]
    BY <1>9, <1>10, <2>3, <1>5
  <2> QED
    BY <2>1, <2>3, <2>4 DEF IsWord
<1>6. InTurn(e)
  BY <1>5, TurnsAre DEF t
<1> QED
  BY <1>2, <1>6 DEF StoreInv, t

\* An incident that is neither silence nor recovery leaves the others in turn.
LEMMA NoteKeeps ==
  ASSUME NEW d, NEW e, StoreInv(d), IsDatabase(e), e.devices = d.devices,
         NEW row, row.reason \notin {"silence", "recovered"}, e.incidents = Append(d.incidents, row)
  PROVE  StoreInv(e)
<1> DEFINE s == d.incidents
           t == e.incidents
<1>1. IsList(s)
  BY DEF StoreInv
<1>2. /\ IsList(t) /\ Len(t) = Len(s) + 1 /\ \A i \in 1..Len(s) : t[i] = s[i]
      /\ t[Len(s) + 1] = row
  BY <1>1, Appended
<1>3. Len(s) \in Nat /\ DOMAIN s = 1..Len(s) /\ DOMAIN t = 1..(Len(s) + 1)
  BY <1>1, <1>2, Lists
<1>4. \A a : Alone(e, a) <=> Alone(d, a)
  BY DEF Alone
<1>5. \A i : IsWord(t, i) <=> IsWord(s, i)
  BY <1>2, <1>3 DEF IsWord
<1>6. \A i \in DOMAIN s : t[i] = s[i] /\ i \in DOMAIN t
  BY <1>2, <1>3
<1>7. \A i : IsWord(s, i) => i \in DOMAIN s
  BY DEF IsWord
<1>8. InTurn(e)
  <2> SUFFICES ASSUME NEW i \in DOMAIN t, NEW j \in DOMAIN t, i < j, IsWord(t, i), IsWord(t, j),
                      t[i].addr = t[j].addr, Alone(e, t[i].addr), t[i].reason = t[j].reason
               PROVE  \E m \in DOMAIN t : i < m /\ m < j /\ IsWord(t, m) /\ t[m].addr = t[i].addr
    BY TurnsAre
  <2>1. i \in DOMAIN s /\ j \in DOMAIN s /\ IsWord(s, i) /\ IsWord(s, j) /\ t[i] = s[i] /\ t[j] = s[j]
    BY <1>5, <1>6, <1>7
  <2>2. PICK m \in DOMAIN s : i < m /\ m < j /\ IsWord(s, m) /\ s[m].addr = s[i].addr
    BY <1>4, <2>1, TurnsAre DEF StoreInv
  <2> QED
    BY <1>5, <1>6, <2>1, <2>2
<1> QED
  BY <1>2, <1>8 DEF StoreInv

-------------------------------------------------------------------------------
\* A finite set in some order: every member once.
LEMMA InSomeOrder ==
  ASSUME NEW S, IsFiniteSet(S), NEW f, f = SetToSeq(S)
  PROVE  /\ Cardinality(S) \in Nat /\ f = [i \in 1..Cardinality(S) |-> f[i]]
         /\ \A i \in 1..Cardinality(S) : f[i] \in S
         /\ \A i, j \in 1..Cardinality(S) : f[i] = f[j] => i = j
         /\ \A x \in S : \E i \in 1..Cardinality(S) : f[i] = x
<1> DEFINE n == Cardinality(S)
<1>1. n \in Nat /\ ExistsBijection(1..n, S)
  BY FS_CardinalityType
<1>2. \E g \in [1..n -> S] : IsInjective(g)
  BY <1>1 DEF ExistsBijection, Bijection, Injection
<1>3. f \in [1..n -> S] /\ IsInjective(f)
  BY <1>2 DEF SetToSeq
<1>4. f \in Injection(1..n, S)
  BY <1>3 DEF Injection
<1>5. Cardinality(1..n) = n
  BY <1>1, FS_Interval
<1>6. f \in Surjection(1..n, S)
  BY <1>4, <1>5, FS_Injection
<1>7. \A x \in S : \E i \in 1..n : f[i] = x
  BY <1>6 DEF Surjection
<1> QED
  BY <1>1, <1>3, <1>7 DEF IsInjective

\* The last word on an address is the highest of its words.
LEMMA LastIs ==
  ASSUME NEW d, IsList(d.incidents), NEW a, NEW i \in Words(d, a)
  PROVE  /\ Max(Words(d, a)) \in Words(d, a) /\ Max(Words(d, a)) >= i
         /\ LastWord(d, a) = d.incidents[Max(Words(d, a))].reason
<1>1. Words(d, a) \subseteq 1..Len(d.incidents) /\ Len(d.incidents) \in Nat
  BY Lists DEF Words, RowsOf
<1>2. IsFiniteSet(1..Len(d.incidents))
  BY <1>1, FS_Interval
<1>3. IsFiniteSet(Words(d, a)) /\ Words(d, a) \in SUBSET Int /\ Words(d, a) # {}
  BY <1>1, <1>2, FS_Subset
<1> QED
  BY <1>3, HighestOf DEF LastWord

\* A device is down if the last word on it is "silence".
LEMMA DownIs ==
  ASSUME NEW d, IsList(d.incidents), NEW a
  PROVE  a \in Down(d) <=> LastWord(d, a) = "silence"
<1>1. CASE Words(d, a) = {}
  BY <1>1 DEF Down, LastWord
<1>2. CASE Words(d, a) # {}
  <2>1. PICK i \in Words(d, a) : TRUE
    BY <1>2
  <2>2. a \in {r.addr : r \in Range(d.incidents)}
    BY <2>1 DEF Words, RowsOf, Range
  <2>3. LastWord(d, a) = d.incidents[Max(Words(d, a))].reason
    BY <2>1, LastIs
  <2> QED
    BY <1>2, <2>2, <2>3 DEF Down
<1> QED
  BY <1>1, <1>2

\* The words on an address, where they stand.
LEMMA WordsAre ==
  ASSUME NEW d, NEW a
  PROVE  \A i : i \in Words(d, a) <=> IsWord(d.incidents, i) /\ d.incidents[i].addr = a
BY DEF Words, RowsOf, IsWord

\* The devices that changed, in the order their rows are written.
Candidates(d, s, now) == {a \in DOMAIN d.devices : d.devices[a].count >= MinFrames
                                                   /\ d.devices[a].last > 0}
\* Those whose silence has begun or ended since the last word on them.
Changed(d, s, now) == {a \in Candidates(d, s, now) : Overdue(d, s, now, a) # (Hex(a) \in Down(d))}

\* What a round of the detector leaves behind.
Noted(d, e, s, now, ch, n) ==
  /\ n \in Nat /\ IsList(e.incidents) /\ Len(e.incidents) = Len(d.incidents) + n
  /\ \A i \in 1..Len(d.incidents) : e.incidents[i] = d.incidents[i]
  /\ \A i \in 1..n : /\ ch[i] \in Changed(d, s, now)
                     /\ e.incidents[Len(d.incidents) + i] = Verdict(d, s, now, ch[i])
  /\ \A i, j \in 1..n : ch[i] = ch[j] => i = j
  /\ \A a \in Changed(d, s, now) : \E i \in 1..n : ch[i] = a

\* A round of the detector adds one row for each device that changed, none twice.
LEMMA DetectNotes ==
  ASSUME NEW d, StoreInv(d), NEW s, NEW now, ~Deaf(d, s, now),
         NEW e, e = DetectIncidents(d, s, now)
  PROVE  /\ IsDatabase(e) /\ e.devices = d.devices
         /\ \E ch, n : Noted(d, e, s, now, ch, n)
<1> DEFINE C == Changed(d, s, now)
           ch == SetToSeq(C)
           n == Cardinality(C)
           rows == [i \in DOMAIN ch |-> Verdict(d, s, now, ch[i])]
<1>1. IsFiniteSet(C)
  <2>1. C \subseteq DOMAIN d.devices
    BY DEF Changed, Candidates
  <2> QED
    BY <2>1, FS_Subset DEF StoreInv, AreDevices
<1>2. /\ n \in Nat /\ ch = [i \in 1..n |-> ch[i]]
      /\ \A i \in 1..n : ch[i] \in C
      /\ \A i, j \in 1..n : ch[i] = ch[j] => i = j
      /\ \A x \in C : \E i \in 1..n : ch[i] = x
  <2> HIDE DEF C
  <2> QED
    BY <1>1, InSomeOrder
<1>3. e = [d EXCEPT !.incidents = @ \o rows]
  BY Zenon DEF DetectIncidents, Changed, Candidates
<1> HIDE DEF C, ch, n
<1>4. DOMAIN ch = 1..n
  BY <1>2
<1>5. rows = [i \in 1..n |-> rows[i]] /\ \A i \in 1..n : rows[i] = Verdict(d, s, now, ch[i])
  BY <1>4
<1> HIDE DEF rows
<1>6. d = [t \in Tables |-> d[t]] /\ IsList(d.incidents)
  BY DEF StoreInv, IsDatabase
<1>7. /\ e = [t \in Tables |-> e[t]] /\ e.devices = d.devices
      /\ e.incidents = d.incidents \o rows
  BY <1>3, <1>6 DEF Tables
<1>8. /\ IsList(e.incidents) /\ Len(e.incidents) = Len(d.incidents) + n
      /\ \A i \in 1..Len(d.incidents) : e.incidents[i] = d.incidents[i]
      /\ \A i \in 1..n : e.incidents[Len(d.incidents) + i] = rows[i]
  <2>1. IsList(rows) /\ Len(rows) = n
    <3>1. rows \in Seq({rows[i] : i \in 1..n}) /\ Len(rows) = n
      BY <1>2, <1>5
    <3> QED
      BY <3>1, Lists, Zenon
  <2>2. IsJoin(e.incidents, d.incidents, rows)
    BY <1>6, <1>7, <2>1, Joined
  <2> QED
    BY <2>1, <2>2 DEF IsJoin
<1>9. Noted(d, e, s, now, ch, n)
  BY <1>2, <1>5, <1>8 DEF Noted, C
<1> QED
  BY <1>7, <1>9 DEF IsDatabase

\* After a round silence and recovery still alternate, and the last word on every
\* device that is judged is what it should be.
LEMMA DetectKeeps ==
  ASSUME NEW d, StoreInv(d), NEW s, NEW now, NEW e, IsDatabase(e), e.devices = d.devices,
         NEW ch, NEW n, Noted(d, e, s, now, ch, n)
  PROVE  /\ StoreInv(e)
         /\ \A a \in DOMAIN d.devices :
              Alone(d, Hex(a)) /\ d.devices[a].count >= MinFrames =>
                ((LastWord(e, Hex(a)) = "silence") <=> Overdue(d, s, now, a))
<1> DEFINE p == d.incidents
           q == e.incidents
           L == Len(p)
<1>1. IsList(p) /\ IsList(q) /\ L \in Nat /\ n \in Nat /\ DOMAIN p = 1..L /\ DOMAIN q = 1..(L + n)
  <2>1. IsList(p) /\ IsList(q) /\ n \in Nat /\ Len(q) = L + n
    BY DEF StoreInv, Noted
  <2> QED
    BY <2>1, Lists
<1>2. \A a : Alone(e, a) <=> Alone(d, a)
  BY DEF Alone
<1>3. \A i \in 1..L : i \in DOMAIN q /\ q[i] = p[i] /\ (IsWord(q, i) <=> IsWord(p, i))
  <2>1. \A i \in 1..L : i \in DOMAIN q /\ q[i] = p[i]
    BY <1>1 DEF Noted
  <2> QED
    BY <1>1, <2>1 DEF IsWord
<1>4. \A i \in 1..n : /\ L + i \in DOMAIN q /\ IsWord(q, L + i) /\ q[L + i].addr = Hex(ch[i])
                      /\ q[L + i].reason = IF Overdue(d, s, now, ch[i]) THEN "silence" ELSE "recovered"
                      /\ ch[i] \in Changed(d, s, now)
  <2> SUFFICES ASSUME NEW i \in 1..n
               PROVE  /\ L + i \in DOMAIN q /\ IsWord(q, L + i) /\ q[L + i].addr = Hex(ch[i])
                      /\ q[L + i].reason = IF Overdue(d, s, now, ch[i]) THEN "silence" ELSE "recovered"
                      /\ ch[i] \in Changed(d, s, now)
    OBVIOUS
  <2>1. L + i \in DOMAIN q
    BY <1>1
  <2>2. q[L + i] = Verdict(d, s, now, ch[i]) /\ ch[i] \in Changed(d, s, now)
    BY DEF Noted
  <2>3. /\ Verdict(d, s, now, ch[i]).addr = Hex(ch[i])
        /\ Verdict(d, s, now, ch[i]).reason = IF Overdue(d, s, now, ch[i]) THEN "silence" ELSE "recovered"
    BY DEF Verdict
  <2> QED
    BY <2>1, <2>2, <2>3 DEF IsWord
<1>5. \A i \in DOMAIN q : i \in 1..L \/ \E k \in 1..n : i = L + k
  <2>1. \A i \in DOMAIN q : i \in 1..L \/ (i - L \in 1..n /\ i = L + (i - L))
    BY <1>1
  <2> QED
    BY <2>1
<1>6. \A a \in Changed(d, s, now) : /\ a \in DOMAIN d.devices
                                    /\ Overdue(d, s, now, a) # (LastWord(d, Hex(a)) = "silence")
  BY <1>1, DownIs DEF Changed, Candidates
<1>7. \A a : \A i \in Words(d, a) : /\ Max(Words(d, a)) \in Words(d, a) /\ Max(Words(d, a)) >= i
                                    /\ LastWord(d, a) = p[Max(Words(d, a))].reason
  BY <1>1, LastIs
<1>8. \A a : \A i \in Words(e, a) : /\ Max(Words(e, a)) \in Words(e, a) /\ Max(Words(e, a)) >= i
                                    /\ LastWord(e, a) = q[Max(Words(e, a))].reason
  BY <1>1, LastIs
<1>9. \A i, k \in 1..n : Alone(d, Hex(ch[i])) /\ Hex(ch[k]) = Hex(ch[i]) => k = i
  BY <1>4, <1>6 DEF Alone, Noted
<1>10. \A a : \A i \in 1..L : i \in Words(e, a) <=> i \in Words(d, a)
  BY <1>3, WordsAre
<1>11. \A a : Words(d, a) \subseteq 1..L
  BY <1>1, WordsAre DEF IsWord
<1>12. ASSUME NEW i \in DOMAIN q, NEW j \in DOMAIN q, i < j, IsWord(q, i), IsWord(q, j),
              q[i].addr = q[j].addr, Alone(e, q[i].addr), q[i].reason = q[j].reason
       PROVE  \E m \in DOMAIN q : i < m /\ m < j /\ IsWord(q, m) /\ q[m].addr = q[i].addr
  <2> DEFINE a == q[i].addr
  <2>0. Alone(d, a)
    BY <1>2, <1>12
  <2>1. CASE j \in 1..L
    <3>1. i \in 1..L
      BY <1>1, <1>12, <2>1
    <3>2. IsWord(p, i) /\ IsWord(p, j) /\ q[i] = p[i] /\ q[j] = p[j]
      BY <1>3, <1>12, <2>1, <3>1
    <3>3. PICK m \in DOMAIN p : i < m /\ m < j /\ IsWord(p, m) /\ p[m].addr = p[i].addr
      BY <1>1, <1>12, <2>0, <2>1, <3>1, <3>2, TurnsAre DEF StoreInv
    <3> QED
      BY <1>1, <1>3, <3>2, <3>3
  <2>2. CASE i \in 1..L /\ ~(j \in 1..L)
    <3>1. PICK k \in 1..n : j = L + k
      BY <1>5, <2>2
    <3>2. i \in Words(e, a) /\ i \in Words(d, a)
      BY <1>10, <1>12, <2>2, WordsAre
    <3>3. /\ Max(Words(d, a)) \in Words(d, a) /\ Max(Words(d, a)) >= i
          /\ LastWord(d, a) = p[Max(Words(d, a))].reason
      BY <1>7, <3>2
    <3> DEFINE m == Max(Words(d, a))
    <3>4. m \in 1..L /\ IsWord(q, m) /\ q[m].addr = a /\ q[m] = p[m]
      BY <1>3, <1>10, <1>11, <3>3, WordsAre
    <3>5. /\ q[j].addr = Hex(ch[k]) /\ ch[k] \in Changed(d, s, now)
          /\ q[j].reason = IF Overdue(d, s, now, ch[k]) THEN "silence" ELSE "recovered"
      BY <1>4, <3>1
    <3>6. (q[j].reason = "silence") # (LastWord(d, a) = "silence")
      <4>1. a = Hex(ch[k])
        BY <1>12, <3>5
      <4>2. Overdue(d, s, now, ch[k]) # (LastWord(d, a) = "silence")
        BY <1>6, <3>5, <4>1
      <4> HIDE DEF a
      <4>3. CASE Overdue(d, s, now, ch[k])
        BY <3>5, <4>2, <4>3
      <4>4. CASE ~Overdue(d, s, now, ch[k])
        <5>1. q[j].reason # "silence"
          BY <3>5, <4>4
        <5>2. LastWord(d, a) = "silence"
          <6>1. Overdue(d, s, now, ch[k]) = FALSE
            BY <4>4 DEF Overdue
          <6> QED
            BY <4>2, <6>1
        <5> QED
          BY <5>1, <5>2
      <4> QED
        BY <4>3, <4>4
    <3>7. m # i
      BY <1>12, <3>3, <3>4, <3>6
    <3>8. i < m /\ m < j
      <4>1. m \in 1..L /\ i \in 1..L /\ m >= i /\ m # i /\ k \in 1..n /\ L \in Nat
        BY <1>1, <2>2, <3>3, <3>4, <3>7
      <4> HIDE DEF m, L
      <4> QED
        BY <3>1, <4>1
    <3> QED
      BY <1>3, <3>4, <3>8
  <2>3. CASE ~(i \in 1..L)
    <3>1. PICK k \in 1..n : i = L + k
      BY <1>5, <2>3
    <3>2. ~(j \in 1..L)
      BY <1>1, <1>12, <3>1
    <3>3. PICK k2 \in 1..n : j = L + k2
      BY <1>5, <3>2
    <3>4. q[i].addr = Hex(ch[k]) /\ q[j].addr = Hex(ch[k2])
      BY <1>4, <3>1, <3>3
    <3>5. k2 = k
      BY <1>9, <1>12, <2>0, <3>4
    <3>6. i = j
      BY <3>1, <3>3, <3>5
    <3> QED
      BY <1>1, <1>12, <3>6
  <2> QED
    BY <2>1, <2>2, <2>3
<1>13. StoreInv(e)
  <2>1. InTurn(e)
    BY <1>12, TurnsAre
  <2> QED
    BY <1>1, <2>1 DEF StoreInv
<1>14. ASSUME NEW a \in DOMAIN d.devices, Alone(d, Hex(a)), d.devices[a].count >= MinFrames
       PROVE  (LastWord(e, Hex(a)) = "silence") <=> Overdue(d, s, now, a)
  <2> DEFINE h == Hex(a)
  <2>1. CASE a \in Changed(d, s, now)
    <3>1. PICK k \in 1..n : ch[k] = a
      BY <2>1 DEF Noted
    <3>2. L + k \in Words(e, h)
      BY <1>4, <3>1, WordsAre
    <3>3. /\ Max(Words(e, h)) \in Words(e, h) /\ Max(Words(e, h)) >= L + k
          /\ LastWord(e, h) = q[Max(Words(e, h))].reason
      BY <1>8, <3>2
    <3> DEFINE m == Max(Words(e, h))
    <3>4. m \in DOMAIN q /\ q[m].addr = h
      BY <3>3, WordsAre DEF IsWord
    <3>5. ~(m \in 1..L)
      <4>1. m >= L + k /\ L \in Nat /\ k \in 1..n /\ n \in Nat
        BY <1>1, <3>3
      <4> HIDE DEF m, L
      <4> QED
        BY <4>1
    <3>6. PICK k2 \in 1..n : m = L + k2
      BY <1>5, <3>4, <3>5
    <3>7. Hex(ch[k2]) = Hex(ch[k])
      BY <1>4, <3>1, <3>4, <3>6
    <3>8. k2 = k
      BY <1>9, <1>14, <3>1, <3>7
    <3> QED
      BY <1>4, <3>1, <3>3, <3>6, <3>8
  <2>2. CASE a \notin Changed(d, s, now)
    <3>1. d.devices[a].last > 0
      <4>1. IsRow(d.devices[a])
        BY DEF StoreInv, AreDevices
      <4> QED
        BY <4>1 DEF IsRow
    <3>2. Overdue(d, s, now, a) <=> (LastWord(d, h) = "silence")
      <4>1. Overdue(d, s, now, a) \in BOOLEAN /\ (h \in Down(d)) \in BOOLEAN
        BY DEF Overdue
      <4>2. Overdue(d, s, now, a) = (h \in Down(d))
        BY <1>14, <2>2, <3>1, <4>1 DEF Changed, Candidates
      <4>3. (h \in Down(d)) <=> (LastWord(d, h) = "silence")
        BY <1>1, DownIs
      <4> QED
        BY <4>2, <4>3
    <3>3. \A i : i \in Words(e, h) <=> i \in Words(d, h)
      <4>1. ASSUME NEW i \in Words(e, h), ~(i \in 1..L) PROVE FALSE
        <5>1. i \in DOMAIN q /\ q[i].addr = h
          BY <4>1, WordsAre DEF IsWord
        <5>2. PICK k \in 1..n : i = L + k
          BY <1>5, <4>1, <5>1
        <5>3. Hex(ch[k]) = Hex(a) /\ ch[k] \in Changed(d, s, now)
          BY <1>4, <5>1, <5>2
        <5>4. ch[k] = a
          BY <1>6, <1>14, <5>3 DEF Alone
        <5> QED
          BY <2>2, <5>3, <5>4
      <4> QED
        BY <1>10, <1>11, <4>1
    <3>4. Words(e, h) = Words(d, h)
      BY <3>3
    <3>5. LastWord(e, h) = LastWord(d, h)
      <4>1. CASE Words(d, h) = {}
        BY <3>4, <4>1 DEF LastWord
      <4>2. CASE Words(d, h) # {}
        <5>1. PICK i \in Words(d, h) : TRUE
          BY <4>2
        <5>2. Max(Words(d, h)) \in 1..L
          BY <1>7, <1>11, <5>1
        <5>3. q[Max(Words(d, h))] = p[Max(Words(d, h))]
          BY <1>3, <5>2
        <5> QED
          BY <3>4, <5>3, <4>2 DEF LastWord
      <4> QED
        BY <4>1, <4>2
    <3> QED
      BY <3>2, <3>5
  <2> QED
    BY <2>1, <2>2
<1> QED
  BY <1>13, <1>14

-------------------------------------------------------------------------------
\* Writing any other table.
Beside(d, e) == IsDatabase(e) /\ e.devices = d.devices /\ e.incidents = d.incidents

\* No device is given an address of its own.
ExtsKept(d, e) ==
  \A a \in DOMAIN e.devices : e.devices[a].ext # 0 =>
    a \in DOMAIN d.devices /\ d.devices[a].ext = e.devices[a].ext
\* A step of the store keeps StoreInv and every device's own address.
Kept(d, e) == StoreInv(e) /\ ExtsKept(d, e)

\* Steps of the store follow one another.
LEMMA KeptOn == ASSUME NEW d, NEW e, NEW g, Kept(d, e), Kept(e, g) PROVE Kept(d, g)
BY DEF Kept, ExtsKept

\* What is written beside devices and incidents disturbs neither.
LEMMA BesideKeeps == ASSUME NEW d, NEW e, StoreInv(d), Beside(d, e) PROVE Kept(d, e)
<1>1. AreDevices(e.devices) /\ DOMAIN d.devices \subseteq DOMAIN e.devices
  BY DEF Beside, StoreInv
<1>2. StoreInv(e)
  BY <1>1, GrownKeeps DEF Beside
<1>3. ExtsKept(d, e)
  BY DEF Beside, ExtsKept
<1> QED
  BY <1>2, <1>3 DEF Kept

\* A table with one row put in.
LEMMA PutIs ==
  ASSUME NEW t, NEW a, NEW r
  PROVE  /\ Put(t, a, r) = [x \in DOMAIN Put(t, a, r) |-> Put(t, a, r)[x]]
         /\ DOMAIN Put(t, a, r) = DOMAIN t \cup {a} /\ Put(t, a, r)[a] = r
         /\ \A x \in DOMAIN t : x # a => Put(t, a, r)[x] = t[x]
BY DEF Put, Overlay, Has

\* The table of devices with one row put in.
LEMMA DevicePut ==
  ASSUME NEW t, AreDevices(t), NEW a \in Int, NEW r, IsRow(r)
  PROVE  AreDevices(Put(t, a, r)) /\ DOMAIN Put(t, a, r) = DOMAIN t \cup {a}
<1> DEFINE u == Put(t, a, r)
<1>1. /\ u = [x \in DOMAIN u |-> u[x]]
      /\ DOMAIN u = DOMAIN t \cup {a} /\ u[a] = r
      /\ \A x \in DOMAIN t : x # a => u[x] = t[x]
  BY DEF Put, Overlay, Has
<1>2. IsFiniteSet(DOMAIN t \cup {a})
  BY FS_AddElement DEF AreDevices
<1> HIDE DEF u
<1>4. \A x \in DOMAIN u : IsRow(u[x])
  BY <1>1 DEF AreDevices
<1> QED
  BY <1>1, <1>2, <1>4 DEF AreDevices, u

\* A device is heard again.
IsAgain(q, r, ts, rssi, lqi, ch, pan) ==
  q = [r EXCEPT !.last = ts, !.count = @ + 1, !.rssi = rssi, !.lqi = lqi, !.ch = ch, !.pan = pan]

\* Its row is still one, with the address it had.
LEMMA RowAgain ==
  ASSUME NEW r, IsRow(r), NEW ts \in Nat \ {0}, NEW rssi, NEW lqi, NEW ch, NEW pan,
         NEW q, IsAgain(q, r, ts, rssi, lqi, ch, pan)
  PROVE  IsRow(q) /\ q.ext = r.ext
<1> USE DEF IsAgain
<1>1. r = [c \in DeviceColumns |-> r[c]] /\ r.last \in Nat \ {0} /\ r.count \in Nat
  BY DEF IsRow
<1>2. q = [c \in DeviceColumns |-> q[c]]
  BY <1>1 DEF DeviceColumns
<1>3. q.last = ts
  BY <1>1 DEF DeviceColumns
<1>4. q.count = r.count + 1
  BY <1>1 DEF DeviceColumns
<1>5. q.ext = r.ext
  BY <1>1 DEF DeviceColumns
<1>6. q.last \in Nat \ {0} /\ q.count \in Nat
  BY <1>1, <1>3, <1>4
<1> QED
  BY <1>2, <1>5, <1>6, Zenon DEF IsRow

\* A device is heard, for the first time or again.
LEMMA UpsertKeeps ==
  ASSUME NEW d, StoreInv(d), NEW a \in Int, NEW f, f.ts \in Nat \ {0}, NEW pan
  PROVE  Kept(d, UpsertDevice(d, a, f, pan))
<1> DEFINE e == UpsertDevice(d, a, f, pan)
           new == [first |-> f.ts, last |-> f.ts, count |-> 1, rssi |-> f.rssi, lqi |-> f.lqi,
                   ch |-> f.ch, pan |-> pan, ext |-> 0, name |-> "", coord |-> a = 0]
           old == [d.devices[a] EXCEPT !.last = f.ts, !.count = @ + 1, !.rssi = f.rssi,
                     !.lqi = f.lqi, !.ch = f.ch, !.pan = IF @ = Absent THEN pan ELSE @]
           r == IF Has(d.devices, a) THEN old ELSE new
           t == Put(d.devices, a, r)
<1>1. e = [d EXCEPT !.devices = t]
  BY DEF UpsertDevice, Upsert
<1>2. IsRow(new) /\ new.ext = 0
  BY DEF IsRow, DeviceColumns
<1>3. ASSUME a \in DOMAIN d.devices PROVE IsRow(old) /\ old.ext = d.devices[a].ext
  <2>1. IsRow(d.devices[a])
    BY <1>3 DEF StoreInv, AreDevices
  <2> DEFINE p == IF d.devices[a].pan = Absent THEN pan ELSE d.devices[a].pan
  <2>2. IsAgain(old, d.devices[a], f.ts, f.rssi, f.lqi, f.ch, p)
    BY DEF IsAgain
  <2> HIDE DEF old, p
  <2> QED
    BY <2>1, <2>2, RowAgain
<1> HIDE DEF new, old
<1>4. IsRow(r) /\ (r.ext # 0 => a \in DOMAIN d.devices /\ r.ext = d.devices[a].ext)
  BY <1>2, <1>3 DEF Has
<1> HIDE DEF r, e, t
<1>5. AreDevices(t) /\ DOMAIN t = DOMAIN d.devices \cup {a}
  BY <1>4, DevicePut DEF StoreInv, t
<1>6. t[a] = r /\ \A x \in DOMAIN d.devices : x # a => t[x] = d.devices[x]
  BY DEF t, Put, Overlay, Has
<1>7. IsDatabase(e) /\ e.devices = t /\ e.incidents = d.incidents
  BY <1>1 DEF StoreInv, IsDatabase, Tables
<1>8. StoreInv(e)
  BY <1>5, <1>7, GrownKeeps
<1>9. ExtsKept(d, e)
  BY <1>4, <1>5, <1>6, <1>7 DEF ExtsKept
<1> QED
  BY <1>8, <1>9 DEF e, Kept

\* The caps on the tables.
LEMMA BoundKeeps == ASSUME NEW d, StoreInv(d) PROVE Kept(d, Bound(d))
<1>1. IncidentCap \in Nat
  BY StoreAssumption DEF StoreAssumption
<1>2. /\ IsDatabase(Bound(d)) /\ Bound(d).devices = d.devices
      /\ Bound(d).incidents = Newest(d.incidents, IncidentCap)
  BY DEF Bound, StoreInv, IsDatabase, Tables
<1> QED
  BY <1>1, <1>2, CutKeeps DEF Kept, ExtsKept

\* The pruning that comes with the frames.
LEMMA MaintainKeeps == ASSUME NEW d, StoreInv(d) PROVE Kept(d, Maintain(d))
<1> DEFINE m == [d EXCEPT !.writes.misc = Count(@, MiscEvery)]
<1>1. Beside(d, m)
  BY DEF StoreInv, IsDatabase, Tables, Beside
<1>2. Kept(d, m)
  BY <1>1, BesideKeeps
<1>3. Kept(m, Bound(m))
  BY <1>2, BoundKeeps DEF Kept
<1>4. Kept(d, Bound(m))
  BY <1>2, <1>3, KeptOn
<1>5. Maintain(d) = m \/ Maintain(d) = Bound(m)
  BY DEF Maintain
<1> QED
  BY <1>2, <1>4, <1>5

\* The database opened by a new process.
LEMMA OpenKeeps == ASSUME NEW d, StoreInv(d) PROVE Kept(d, Open(d))
<1>1. Kept(d, Bound(d))
  BY BoundKeeps
<1>2. Beside(Bound(d), Open(d))
  BY <1>1 DEF Open, StoreInv, IsDatabase, Tables, Beside, Kept
<1>3. Kept(Bound(d), Open(d))
  BY <1>1, <1>2, BesideKeeps DEF Kept
<1> QED
  BY <1>1, <1>3, KeptOn

\* A table without rows is one of devices.
LEMMA NoDevices == AreDevices(<<>>)
<1>1. DOMAIN <<>> = {} /\ IsFiniteSet({})
  BY FS_EmptySet
<1> QED
  BY <1>1 DEF AreDevices

\* The database when it is created and when it is reset.
LEMMA ResetKeeps == StoreInv(Empty) /\ \A d : StoreInv(Reset(d))
<1>1. IsDatabase(Empty) /\ Empty.devices = <<>> /\ Empty.incidents = <<>>
  BY DEF Empty, Tables, IsDatabase
<1>2. ASSUME NEW d PROVE StoreInv(Reset(d))
  <2>1. IsDatabase(Reset(d)) /\ Reset(d).devices = <<>> /\ Reset(d).incidents = <<>>
    BY DEF Empty, Tables, IsDatabase, Reset
  <2> QED
    BY <2>1, NoDevices, EmptyKeeps
<1> QED
  BY <1>1, <1>2, NoDevices, EmptyKeeps

-------------------------------------------------------------------------------
(* A frame is recorded.                                                        *)

\* A link is written.
LEMMA LinkKeeps ==
  ASSUME NEW d, StoreInv(d), NEW s, NEW t, NEW f, NEW layer
  PROVE  Kept(d, UpsertLink(d, s, t, f, layer))
<1>1. Beside(d, UpsertLink(d, s, t, f, layer))
  BY DEF UpsertLink, Upsert, StoreInv, IsDatabase, Tables, Beside
<1> QED
  BY <1>1, BesideKeeps

\* A frame is logged.
LEMMA LogKeeps == ASSUME NEW d, StoreInv(d), NEW f PROVE Kept(d, Log(d, f))
<1> DEFINE pan == SeenPan(f.mac)
           row == [ts |-> f.ts, src |-> f.mac.src, dst |-> f.mac.dst, rssi |-> f.rssi,
                   lqi |-> f.lqi, decrypted |-> f.nwk.decrypted]
           key == <<f.ts \div 60, pan, f.ch>>
           one == [frames |-> 1, rssi |-> f.rssi, hist |-> [NoHist EXCEPT ![Bin(f.rssi)] = 1]]
           minutes == Upsert(d.minutes, key, one,
             LAMBDA r : [frames |-> r.frames + 1, rssi |-> r.rssi + f.rssi,
                         hist |-> [r.hist EXCEPT ![Bin(f.rssi)] = @ + 1]])
           packets == Append(d.packets, row)
           newPackets == IF Due(d.writes.pkt, BigEvery) THEN Newest(packets, PacketCap) ELSE packets
           newPans == IF pan = Absent THEN d.pans ELSE
             Upsert(d.pans, pan, [count |-> 1, last |-> f.ts, ch |-> f.ch, label |-> ""],
               LAMBDA r : [r EXCEPT !.count = @ + 1, !.last = f.ts, !.ch = f.ch])
           newMinutes == IF Due(d.writes.pm, BigEvery)
                         THEN Delete(minutes, LAMBDA k : k[1] < key[1] - KeepBuckets) ELSE minutes
<1>1. Log(d, f) = [d EXCEPT !.packets = newPackets, !.pans = newPans, !.minutes = newMinutes,
                            !.writes.pkt = Count(@, BigEvery), !.writes.pm = Count(@, BigEvery)]
  BY Zenon DEF Log
<1> HIDE DEF newPackets, newPans, newMinutes
<1>2. Beside(d, Log(d, f))
  BY <1>1 DEF StoreInv, IsDatabase, Tables, Beside
<1> QED
  BY <1>2, BesideKeeps

\* A frame as the code gets it, stamped with the time.
Stamped(f) ==
  /\ f.ts \in Nat \ {0} /\ {f.mac.src, f.mac.dst, f.nwk.src, f.nwk.dst} \subseteq Int
  /\ {f.nwk.srcExt, f.nwk.dstExt} \subseteq Nat
  /\ f.announce[1] \in Int /\ f.announce[2] \in Nat

\* Its MAC addresses are written.
LEMMA HopKeeps ==
  ASSUME NEW d, StoreInv(d), NEW f, Stamped(f)
  PROVE  Kept(d, Hop(d, f.mac, f))
<1> DEFINE m == f.mac
           d1 == IF m.src \in {Absent, Broadcast} THEN d ELSE UpsertDevice(d, m.src, f, SeenPan(m))
           d2 == UpsertLink(d1, m.src, m.dst, f, "mac")
<1>1. Kept(d, d1)
  BY UpsertKeeps DEF Stamped, Kept, ExtsKept
<1> HIDE DEF d1
<1>2. Kept(d1, d2)
  BY <1>1, LinkKeeps DEF Kept
<1>3. Hop(d, m, f) = d1 \/ Hop(d, m, f) = d2
  BY DEF Hop, d1
<1> QED
  BY <1>1, <1>2, <1>3, KeptOn

\* Its network addresses are written.
LEMMA RouteKeeps ==
  ASSUME NEW d, StoreInv(d), NEW f, Stamped(f)
  PROVE  Kept(d, Route(d, f.nwk, f))
<1> DEFINE n == f.nwk
           d1 == IF IsDevice(n.src) THEN UpsertDevice(d, n.src, f, SeenPan(f.mac)) ELSE d
           d2 == UpsertLink(d1, n.src, n.dst, f, "nwk")
<1>1. Kept(d, d1)
  BY UpsertKeeps DEF Stamped, Kept, ExtsKept
<1> HIDE DEF d1
<1>2. Kept(d1, d2)
  BY <1>1, LinkKeeps DEF Kept
<1>3. Route(d, n, f) = d1 \/ Route(d, n, f) = d2
  BY DEF Route, d1
<1> QED
  BY <1>1, <1>2, <1>3, KeptOn

\* A frame, all of it.
LEMMA FrameKeeps ==
  ASSUME NEW d, StoreInv(d), NEW f, Stamped(f)
  PROVE  Kept(d, IngestFrame(d, f))
<1> DEFINE d1 == Log(d, f)
           d2 == Maintain(d1)
           d3 == Hop(d2, f.mac, f)
<1>1. Kept(d, d1)
  BY LogKeeps
<1>2. Kept(d1, d2)
  BY <1>1, MaintainKeeps DEF Kept
<1>3. Kept(d2, d3)
  BY <1>2, HopKeeps DEF Kept
<1>4. Kept(d3, Route(d3, f.nwk, f))
  BY <1>3, RouteKeeps DEF Kept
<1> QED
  BY <1>1, <1>2, <1>3, <1>4, KeptOn DEF IngestFrame

-------------------------------------------------------------------------------
(* The other writers.                                                          *)

\* A network is given a label.
LEMMA LabelKeeps == ASSUME NEW d, StoreInv(d), NEW pan, NEW label PROVE Kept(d, LabelPan(d, pan, label))
<1>1. Beside(d, LabelPan(d, pan, label))
  BY DEF LabelPan, StoreInv, IsDatabase, Tables, Beside
<1> QED
  BY <1>1, BesideKeeps

\* A reported incident.
LEMMA IncidentKeeps ==
  ASSUME NEW d, StoreInv(d), NEW row, row.reason \notin {"silence", "recovered"}
  PROVE  Kept(d, IngestIncident(d, row))
<1> DEFINE e == InsertIncident(d, row)
<1>1. IsDatabase(e) /\ e.devices = d.devices /\ e.incidents = Append(d.incidents, row)
  BY DEF InsertIncident, StoreInv, IsDatabase, Tables
<1>2. Kept(d, e)
  BY <1>1, NoteKeeps DEF Kept, ExtsKept
<1>3. Kept(e, Maintain(e))
  BY <1>2, MaintainKeeps DEF Kept
<1> QED
  BY <1>2, <1>3, KeptOn DEF IngestIncident

\* A reported route failure.
LEMMA FailureKeeps ==
  ASSUME NEW d, StoreInv(d), NEW target, NEW reporter, NEW reason, NEW ts
  PROVE  Kept(d, IngestRouteFailure(d, target, reporter, reason, ts))
<1>1. Beside(d, IngestRouteFailure(d, target, reporter, reason, ts))
  BY DEF IngestRouteFailure, Upsert, StoreInv, IsDatabase, Tables, Beside
<1> QED
  BY <1>1, BesideKeeps

\* A sample, a probe's answer, a line of a log.
LEMMA ReportsKeep ==
  ASSUME NEW d, StoreInv(d), NEW ts
  PROVE  /\ \A ch, ed : Kept(d, IngestED(d, ts, ch, ed))
         /\ \A target, acked : Kept(d, IngestProbe(d, ts, target, acked))
         /\ \A key, level, about, n : Kept(d, IngestHALog(d, key, ts, level, about, n))
<1>1. ASSUME NEW ch, NEW ed PROVE Kept(d, IngestED(d, ts, ch, ed))
  <2>1. Beside(d, IngestED(d, ts, ch, ed))
    BY DEF IngestED, StoreInv, IsDatabase, Tables, Beside
  <2> QED
    BY <2>1, BesideKeeps
<1>2. ASSUME NEW e, Beside(d, e) PROVE Kept(d, Maintain(e))
  BY <1>2, BesideKeeps, MaintainKeeps, KeptOn DEF Kept
<1>3. ASSUME NEW target, NEW acked PROVE Kept(d, IngestProbe(d, ts, target, acked))
  <2> DEFINE e == [d EXCEPT !.probes = Append(@, [ts |-> ts, target |-> target, acked |-> acked])]
  <2>1. Beside(d, e)
    BY DEF StoreInv, IsDatabase, Tables, Beside
  <2> QED
    BY <1>2, <2>1 DEF IngestProbe
<1>4. ASSUME NEW key, NEW level, NEW about, NEW n
      PROVE  Kept(d, IngestHALog(d, key, ts, level, about, n))
  <2> DEFINE e == [d EXCEPT !.haLog = Upsert(@, key,
                     [ts |-> ts, first |-> ts, level |-> level, about |-> about, count |-> n],
                     LAMBDA r : [r EXCEPT !.ts = ts, !.about = about, !.count = n])]
  <2>1. Beside(d, e)
    BY DEF Upsert, StoreInv, IsDatabase, Tables, Beside
  <2>2. IngestHALog(d, key, ts, level, about, n) = Maintain(e)
    BY Zenon DEF IngestHALog
  <2> HIDE DEF e
  <2> QED
    BY <1>2, <2>1, <2>2
<1> QED
  BY <1>1, <1>3, <1>4

\* The schedules.
LEMMA SchedulesKeep ==
  ASSUME NEW d, StoreInv(d), NEW s
  PROVE  Kept(d, [d EXCEPT !.schedules = s])
<1>1. Beside(d, [d EXCEPT !.schedules = s])
  BY DEF StoreInv, IsDatabase, Tables, Beside
<1> QED
  BY <1>1, BesideKeeps
-------------------------------------------------------------------------------
(* Store and registry together.                                                *)

\* The registry is a record of its tables.
NameTables == {"name", "net", "byExt", "extOf", "info", "nbr", "area"}
IsRegistry(r) == r = [t \in NameTables |-> r[t]]
\* The registry goes by every address that is stored with a device, but for those
\* of t, of which it may know nothing.
Knows(r, d, t) == \A a \in DOMAIN d.devices :
  d.devices[a].ext # 0 =>
    \/ a \in DOMAIN r.extOf /\ r.extOf[a] = d.devices[a].ext
    \/ a \in t /\ a \notin DOMAIN r.extOf
\* Store and registry, together.
Known(r, d, t) == StoreInv(d) /\ IsRegistry(r) /\ Knows(r, d, t)

\* A step of the store alone leaves the registry right.
LEMMA KeptKnown ==
  ASSUME NEW r, NEW d, NEW t, NEW e, Known(r, d, t), Kept(d, e)
  PROVE  Known(r, e, t)
BY DEF Known, Knows, Kept, ExtsKept

\* A device's row with another address or name of its own.
LEMMA RowSet ==
  ASSUME NEW d, StoreInv(d), NEW a \in DOMAIN d.devices, NEW q, IsRow(q),
         NEW e, e = [d EXCEPT !.devices = [@ EXCEPT ![a] = q]]
  PROVE  /\ StoreInv(e) /\ DOMAIN e.devices = DOMAIN d.devices
         /\ e.devices[a] = q /\ \A x \in DOMAIN d.devices : x # a => e.devices[x] = d.devices[x]
<1> DEFINE t == [d.devices EXCEPT ![a] = q]
<1>0. AreDevices(d.devices)
  BY DEF StoreInv
<1>1. /\ t = [x \in DOMAIN d.devices |-> t[x]] /\ DOMAIN t = DOMAIN d.devices
      /\ t[a] = q /\ \A x \in DOMAIN d.devices : x # a => t[x] = d.devices[x]
  BY <1>0 DEF AreDevices
<1> HIDE DEF t
<1>2. AreDevices(t)
  BY <1>0, <1>1 DEF AreDevices
<1>3. IsDatabase(e) /\ e.devices = t /\ e.incidents = d.incidents
  BY DEF StoreInv, IsDatabase, Tables, t
<1>4. StoreInv(e)
  BY <1>1, <1>2, <1>3, GrownKeeps
<1> QED
  BY <1>1, <1>3, <1>4

\* A device is given an address of its own.
LEMMA ExtSet ==
  ASSUME NEW d, StoreInv(d), NEW a, NEW ext, ext # 0
  PROVE  LET e == SetDeviceExt(d, a, ext)
         IN /\ StoreInv(e) /\ DOMAIN e.devices = DOMAIN d.devices
            /\ a \in DOMAIN d.devices => e.devices[a].ext = ext
            /\ \A x \in DOMAIN d.devices : x # a => e.devices[x] = d.devices[x]
<1> DEFINE e == SetDeviceExt(d, a, ext)
<1>1. CASE a \notin DOMAIN d.devices
  <2>1. e = d
    BY <1>1 DEF SetDeviceExt, Has
  <2> QED
    BY <1>1, <2>1
<1>2. CASE a \in DOMAIN d.devices
  <2> DEFINE q == [d.devices[a] EXCEPT !.ext = ext]
  <2>1. e = [d EXCEPT !.devices = [@ EXCEPT ![a] = q]]
    BY <1>2 DEF SetDeviceExt, Has
  <2>2. IsRow(d.devices[a])
    BY <1>2 DEF StoreInv, AreDevices
  <2>3. IsRow(q) /\ q.ext = ext
    <3> DEFINE r == d.devices[a]
    <3>1. r = [c \in DeviceColumns |-> r[c]] /\ r.last \in Nat \ {0} /\ r.count \in Nat
      BY <2>2 DEF IsRow
    <3>2. /\ q = [c \in DeviceColumns |-> q[c]] /\ q.last = r.last /\ q.count = r.count
          /\ q.ext = ext
      <4> HIDE DEF r
      <4>1. q = [r EXCEPT !.ext = ext]
        BY DEF r
      <4> HIDE DEF q
      <4> QED
        BY <3>1, <4>1 DEF DeviceColumns
    <3> HIDE DEF q, r
    <3> QED
      BY <3>1, <3>2 DEF IsRow
  <2> HIDE DEF q, e
  <2>4. /\ StoreInv(e) /\ DOMAIN e.devices = DOMAIN d.devices
        /\ e.devices[a] = q /\ \A x \in DOMAIN d.devices : x # a => e.devices[x] = d.devices[x]
    BY <1>2, <2>1, <2>3, RowSet
  <2> QED
    BY <2>3, <2>4 DEF e
<1> QED
  BY <1>1, <1>2

\* A device is given a name.
LEMMA NameSet ==
  ASSUME NEW d, StoreInv(d), NEW a, NEW name
  PROVE  LET e == SetDeviceName(d, a, name)
         IN /\ StoreInv(e) /\ DOMAIN e.devices = DOMAIN d.devices
            /\ \A x \in DOMAIN d.devices : e.devices[x].ext = d.devices[x].ext
<1> DEFINE e == SetDeviceName(d, a, name)
<1>1. CASE e = d
  BY <1>1
<1>2. CASE e # d
  <2>0. a \in DOMAIN d.devices
    BY <1>2 DEF SetDeviceName, Has
  <2> DEFINE q == [d.devices[a] EXCEPT !.name = name]
  <2>1. e = [d EXCEPT !.devices = [@ EXCEPT ![a] = q]]
    BY <1>2, <2>0 DEF SetDeviceName, Has
  <2>2. IsRow(d.devices[a])
    BY <2>0 DEF StoreInv, AreDevices
  <2>3. IsRow(q) /\ q.ext = d.devices[a].ext
    <3> DEFINE r == d.devices[a]
    <3>1. r = [c \in DeviceColumns |-> r[c]] /\ r.last \in Nat \ {0} /\ r.count \in Nat
      BY <2>2 DEF IsRow
    <3>2. /\ q = [c \in DeviceColumns |-> q[c]] /\ q.last = r.last /\ q.count = r.count
          /\ q.ext = r.ext
      <4> HIDE DEF r
      <4>1. q = [r EXCEPT !.name = name]
        BY DEF r
      <4> HIDE DEF q
      <4> QED
        BY <3>1, <4>1 DEF DeviceColumns
    <3>3. IsRow(q)
      <4> HIDE DEF q, r
      <4> QED
        BY <3>1, <3>2 DEF IsRow
    <3> QED
      BY <3>2, <3>3
  <2> HIDE DEF q, e
  <2>4. /\ StoreInv(e) /\ DOMAIN e.devices = DOMAIN d.devices
        /\ e.devices[a] = q /\ \A x \in DOMAIN d.devices : x # a => e.devices[x] = d.devices[x]
    BY <2>0, <2>1, <2>3, RowSet
  <2> QED
    BY <2>0, <2>3, <2>4 DEF e
<1> QED
  BY <1>1, <1>2

\* What is learned from a frame is stored where the registry has it.
LEMMA LearnKeeps ==
  ASSUME NEW h, NEW t, Known(h.reg, h.db, t), NEW a, NEW ext
  PROVE  Known(Learn(h, a, ext).reg, Learn(h, a, ext).db, t)
<1>1. CASE ~IsNewExt(h.reg, a, ext)
  <2>1. Learn(h, a, ext) = h
    BY <1>1 DEF Learn
  <2> QED
    BY <2>1
<1>2. CASE IsNewExt(h.reg, a, ext)
  <2> DEFINE d == h.db
             r == h.reg
             q == SetShortExt(r, a, ext)
             d1 == SetDeviceExt(d, a, ext)
             e == SetDeviceName(d1, a, NameExt(r, ext))
  <2>0. ext # 0 /\ StoreInv(d) /\ IsRegistry(r) /\ Knows(r, d, t)
    BY <1>2 DEF IsNewExt, Known
  <2>1. Learn(h, a, ext).reg = q /\ Learn(h, a, ext).db = e
    BY <1>2 DEF Learn
  <2>2. q = [r EXCEPT !.extOf = Put(@, a, ext)]
    BY <1>2 DEF SetShortExt
  <2>3. IsRegistry(q) /\ q.extOf = Put(r.extOf, a, ext)
    BY <2>0, <2>2 DEF IsRegistry, NameTables
  <2>4. /\ DOMAIN q.extOf = DOMAIN r.extOf \cup {a} /\ q.extOf[a] = ext
        /\ \A x \in DOMAIN r.extOf : x # a => q.extOf[x] = r.extOf[x]
    BY <2>3 DEF Put, Overlay, Has
  <2>5. /\ StoreInv(d1) /\ DOMAIN d1.devices = DOMAIN d.devices
        /\ a \in DOMAIN d.devices => d1.devices[a].ext = ext
        /\ \A x \in DOMAIN d.devices : x # a => d1.devices[x] = d.devices[x]
    <3> HIDE DEF d
    <3> QED
      BY <2>0, ExtSet
  <2> HIDE DEF d, r, q, d1
  <2>6. /\ StoreInv(e) /\ DOMAIN e.devices = DOMAIN d1.devices
        /\ \A x \in DOMAIN d1.devices : e.devices[x].ext = d1.devices[x].ext
    BY <2>5, NameSet
  <2> HIDE DEF e
  <2>7. Knows(q, e, t)
    <3> SUFFICES ASSUME NEW x \in DOMAIN e.devices, e.devices[x].ext # 0
                 PROVE  \/ x \in DOMAIN q.extOf /\ q.extOf[x] = e.devices[x].ext
                        \/ x \in t /\ x \notin DOMAIN q.extOf
      BY DEF Knows
    <3>1. x \in DOMAIN d.devices /\ e.devices[x].ext = d1.devices[x].ext
      BY <2>5, <2>6
    <3>2. CASE x = a
      BY <2>4, <2>5, <3>1, <3>2
    <3>3. CASE x # a
      BY <2>0, <2>4, <2>5, <3>1, <3>3 DEF Knows
    <3> QED
      BY <3>2, <3>3
  <2> QED
    BY <2>1, <2>3, <2>6, <2>7 DEF Known
<1> QED
  BY <1>1, <1>2

\* A frame, with the addresses it tells the registry.
LEMMA IngestKeeps ==
  ASSUME NEW r, NEW d, NEW t, Known(r, d, t), NEW f, Stamped(f),
         NEW h, h = Ingest([db |-> d, reg |-> r], f)
  PROVE  Known(h.reg, h.db, t)
<1> DEFINE h0 == [db |-> IngestFrame(d, f), reg |-> r]
           h1 == Learn(h0, f.nwk.src, f.nwk.srcExt)
           h2 == Learn(h1, f.nwk.dst, f.nwk.dstExt)
           h3 == Learn(h2, f.announce[1], f.announce[2])
           pan == SeenPan(f.mac)
           d1 == IF pan = Absent THEN h3.db ELSE LabelPan(h3.db, pan, Label(f))
           target == IF f.nwk.dest = Absent THEN f.nwk.dst ELSE f.nwk.dest
           d2 == IF f.nwk.failed = "" THEN d1
                 ELSE IngestRouteFailure(d1, target, f.nwk.src, f.nwk.failed, f.ts)
           rejoin == [ts |-> f.ts, addr |-> Hex(f.mac.src), reason |-> "rejoin",
                      silent |-> 0, ch |-> f.ch, ed |-> 0]
           d3 == IF f.mac.src # Absent /\ JoinRelated(f) THEN IngestIncident(d2, rejoin) ELSE d2
<1>1. Known(h0.reg, h0.db, t)
  <2>1. Kept(d, IngestFrame(d, f))
    BY FrameKeeps DEF Known
  <2> QED
    BY <2>1, KeptKnown
<1>2. h.reg = h3.reg /\ h.db = d3
  <2>1. [[db |-> d, reg |-> r] EXCEPT !.db = IngestFrame(@, f)] = h0
    OBVIOUS
  <2>2. LearnAll([[db |-> d, reg |-> r] EXCEPT !.db = IngestFrame(@, f)], f) = h3
    BY <2>1, Zenon DEF LearnAll
  <2> HIDE DEF h3
  <2>3. h = [reg |-> h3.reg, db |-> d3]
    BY <2>2, Zenon DEF Ingest
  <2> HIDE DEF d3
  <2> QED
    BY <2>3
<1> HIDE DEF h0
<1>3. Known(h1.reg, h1.db, t)
  BY <1>1, LearnKeeps
<1> HIDE DEF h1
<1>4. Known(h2.reg, h2.db, t)
  BY <1>3, LearnKeeps
<1> HIDE DEF h2
<1>5. Known(h3.reg, h3.db, t)
  BY <1>4, LearnKeeps
<1> HIDE DEF h3
<1>6. Known(h3.reg, d1, t)
  BY <1>5, LabelKeeps, KeptKnown DEF Known
<1> HIDE DEF d1
<1>7. Known(h3.reg, d2, t)
  <2>1. Kept(d1, IngestRouteFailure(d1, target, f.nwk.src, f.nwk.failed, f.ts))
    BY <1>6, FailureKeeps DEF Known
  <2>2. Known(h3.reg, IngestRouteFailure(d1, target, f.nwk.src, f.nwk.failed, f.ts), t)
    BY <1>6, <2>1, KeptKnown
  <2> QED
    BY <1>6, <2>2
<1> HIDE DEF d2
<1>8. Known(h3.reg, IngestIncident(d2, rejoin), t)
  BY <1>7, IncidentKeeps, KeptKnown DEF Known
<1>9. Known(h3.reg, d3, t)
  BY <1>7, <1>8
<1> QED
  BY <1>2, <1>9

\* A frame that is stamped with the time it arrives.
LEMMA StampedFrame ==
  ASSUME NEW f \in Frame, NEW t \in Nat \ {0}
  PROVE  Stamped(Put(f, "ts", t))
<1> DEFINE g == Put(f, "ts", t)
<1>1. g.ts = t /\ g.mac = f.mac /\ g.nwk = f.nwk /\ g.announce = f.announce
  BY DEF Put, Overlay, Has, Frame
<1>2. /\ {f.mac.src, f.mac.dst, f.nwk.src, f.nwk.dst} \subseteq Int
      /\ {f.nwk.srcExt, f.nwk.dstExt} \subseteq Nat
      /\ f.announce[1] \in Int /\ f.announce[2] \in Nat
  BY DEF Frame
<1> HIDE DEF g
<1>3. Stamped(g)
  BY <1>1, <1>2 DEF Stamped
<1> QED
  BY <1>3 DEF g

-------------------------------------------------------------------------------
\* The registry of a new process knows what was stored.
LEMMA SeedKnows == ASSUME NEW d, NEW t, StoreInv(d) PROVE Known(Seed(d), d, t)
<1> DEFINE z == LoadZHABackup(NoNames, Backup)
           r == Seed(d)
<1>1. IsRegistry(NoNames)
  BY DEF IsRegistry, NoNames, NameTables
<1>2. \E name, extOf : z = [[NoNames EXCEPT !.name = name] EXCEPT !.extOf = extOf]
  BY Zenon DEF LoadZHABackup, SetName
<1>3. IsRegistry(z)
  BY <1>1, <1>2 DEF IsRegistry, NameTables
<1>4. r = [z EXCEPT !.extOf = Overlay(DeviceExts(d), @)]
  BY DEF Seed
<1> HIDE DEF z, r
<1>5. IsRegistry(r) /\ r.extOf = Overlay(DeviceExts(d), z.extOf)
  BY <1>3, <1>4 DEF IsRegistry, NameTables
<1>6. Knows(r, d, t)
  BY <1>5 DEF Knows, Overlay, Has, DeviceExts
<1> QED
  BY <1>5, <1>6 DEF Known, r

\* What the pollers fetch leaves the short addresses alone.
LEMMA SourcesKeep ==
  ASSUME NEW r, NEW d, NEW t, Known(r, d, t), NEW a
  PROVE  /\ Known(LoadDevices(r, a), d, t) /\ Known(LoadAreas(r, a), d, t)
         /\ Known(LoadBridge(r, a), d, t)
<1>1. ASSUME NEW q, IsRegistry(q), q.extOf = r.extOf PROVE Known(q, d, t)
  BY <1>1 DEF Known, Knows
<1>2. IsRegistry(r)
  BY DEF Known
<1>3. ASSUME NEW q, IsRegistry(q), q.extOf = r.extOf
      PROVE  IsRegistry(SetExt(q, a)) /\ SetExt(q, a).extOf = r.extOf
  BY <1>3 DEF SetExt, IsRegistry, NameTables
<1>4. IsRegistry(SetArea(r, a)) /\ SetArea(r, a).extOf = r.extOf
  BY <1>2 DEF SetArea, IsRegistry, NameTables
<1>5. \E name : SetName(r, a) = [r EXCEPT !.name = name]
  BY Zenon DEF SetName
<1>6. \E net, info, nbr : LoadDevices(r, a) =
        [SetExt(SetName(r, a), a) EXCEPT !.net = net, !.info = info, !.nbr = nbr]
  BY Zenon DEF LoadDevices
<1> DEFINE n == SetName(r, a)
<1>7. IsRegistry(n) /\ n.extOf = r.extOf
  BY <1>2, <1>5 DEF IsRegistry, NameTables
<1> HIDE DEF n
<1>8. IsRegistry(SetExt(n, a)) /\ SetExt(n, a).extOf = r.extOf
  BY <1>3, <1>7
<1>9. IsRegistry(LoadDevices(r, a)) /\ LoadDevices(r, a).extOf = r.extOf
  BY <1>6, <1>8 DEF n, IsRegistry, NameTables
<1> QED
  BY <1>1, <1>2, <1>3, <1>4, <1>9 DEF LoadAreas, LoadBridge

-------------------------------------------------------------------------------
\* What holds whenever a step has ended.
HostInv ==
  /\ Known(reg, db, torn) /\ clock \in Nat \ {0} /\ silence \in Nat
  /\ ops \in (-Len(Past))..MaxOps

\* The host starts with it.
LEMMA HostInvInit == HostInit => HostInv
<1> SUFFICES ASSUME HostInit PROVE HostInv
  OBVIOUS
<1>1. Known(reg, db, torn)
  BY ResetKeeps, SeedKnows DEF HostInit
<1>2. clock \in Nat \ {0} /\ silence \in Nat
  BY HostAssumption DEF HostInit, HostAssumption
<1>3. ops \in (-Len(Past))..MaxOps
  <2>1. Len(Past) \in Nat /\ MaxOps \in Nat /\ ops = -Len(Past)
    BY HostAssumption DEF HostInit, HostAssumption
  <2> QED
    BY <2>1
<1> QED
  BY <1>1, <1>2, <1>3 DEF HostInv

\* Operations are counted up to their bound.
LEMMA OpCounts == ASSUME HostInv, Op PROVE (ops \in (-Len(Past))..MaxOps)'
<1>1. Len(Past) \in Nat /\ MaxOps \in Nat
  BY HostAssumption DEF HostAssumption
<1> QED
  BY <1>1 DEF Op

\* The frames that came before.
LEMMA EarlierKeeps == ASSUME HostInv, Earlier PROVE HostInv'
<1>1. Len(Past) \in Nat /\ MaxOps \in Nat /\ Past \in Seq(Frame)
  BY HostAssumption DEF HostAssumption
<1>2. /\ ops < 0 /\ ops' = ops + 1 /\ clock' = clock + 1 /\ silence' = silence /\ torn' = torn
      /\ Ingested(Put(Past[Len(Past) + ops'], "ts", clock'))
  BY DEF Earlier, settingVars, wipeVars
<1>3. ops \in (-Len(Past))..MaxOps /\ clock \in Nat \ {0} /\ silence \in Nat /\ Known(reg, db, torn)
  BY DEF HostInv
<1>4. Len(Past) + ops' \in 1..Len(Past) /\ ops' \in (-Len(Past))..MaxOps /\ clock' \in Nat \ {0}
  BY <1>1, <1>2, <1>3
<1>5. Stamped(Put(Past[Len(Past) + ops'], "ts", clock'))
  BY <1>1, <1>4, StampedFrame
<1>6. Known(reg', db', torn')
  BY <1>2, <1>3, <1>5, IngestKeeps DEF Ingested
<1> QED
  BY <1>2, <1>3, <1>4, <1>6 DEF HostInv

\* A frame is captured.
LEMMA CaptureKeeps == ASSUME HostInv, NEW f \in Frames, Capture(f) PROVE HostInv'
<1>1. /\ Op /\ clock' = clock /\ silence' = silence /\ torn' = torn
      /\ Ingested(Put(f, "ts", clock))
  BY DEF Capture, settingVars, wipeVars
<1>2. clock \in Nat \ {0} /\ silence \in Nat /\ Known(reg, db, torn)
  BY DEF HostInv
<1>3. Stamped(Put(f, "ts", clock))
  BY <1>2, StampedFrame, HostAssumption DEF HostAssumption
<1>4. Known(reg', db', torn')
  BY <1>1, <1>2, <1>3, IngestKeeps DEF Ingested
<1> QED
  BY <1>1, <1>2, <1>4, OpCounts DEF HostInv

\* A step that only changes the store keeps the invariant if the store's part
\* of it holds.
LEMMA StoreKeeps == ASSUME HostInv, NEW d, Store(d), Kept(db, d) PROVE HostInv'
<1>1. Op /\ UNCHANGED <<clock, silence, reg, torn>> /\ db' = d
  BY DEF Store, settingVars, namesVars, wipeVars
<1>2. clock \in Nat \ {0} /\ silence \in Nat /\ Known(reg, db, torn)
  BY DEF HostInv
<1>3. Known(reg', db', torn')
  BY <1>1, <1>2, KeptKnown
<1> QED
  BY <1>1, <1>2, <1>3, OpCounts DEF HostInv

\* A round of the detector.
LEMMA DetectStep == ASSUME HostInv, Detect PROVE Kept(db, db')
<1> DEFINE e == DetectIncidents(db, silence, clock)
<1>1. db' = e /\ StoreInv(db)
  BY DEF Detect, Store, HostInv, Known
<1>2. CASE Deaf(db, silence, clock)
  <2>1. e = db
    BY <1>2 DEF DetectIncidents
  <2> QED
    BY <1>1, <2>1 DEF Kept, ExtsKept
<1>3. CASE ~Deaf(db, silence, clock)
  <2> HIDE DEF e
  <2>0. e = DetectIncidents(db, silence, clock)
    BY DEF e
  <2>1. /\ IsDatabase(e) /\ e.devices = db.devices
        /\ \E ch, n : Noted(db, e, silence, clock, ch, n)
    BY <1>1, <1>3, <2>0, DetectNotes
  <2>2. StoreInv(e)
    BY <1>1, <2>1, DetectKeeps
  <2> QED
    BY <1>1, <2>1, <2>2 DEF Kept, ExtsKept
<1> QED
  BY <1>2, <1>3

\* What a radio reports beside frames.
LEMMA ReportsKept == ASSUME HostInv, Reports PROVE HostInv'
<1>0. StoreInv(db)
  BY DEF HostInv, Known
<1>1. ASSUME NEW ch, NEW ed, EdSample(ch, ed) PROVE HostInv'
  BY <1>0, <1>1, ReportsKeep, StoreKeeps DEF EdSample
<1>2. ASSUME NEW acked, ProbeAnswer(1, acked) PROVE HostInv'
  BY <1>0, <1>2, ReportsKeep, StoreKeeps DEF ProbeAnswer
<1>3. ASSUME NEW level, HALog("zha", level, 1) PROVE HostInv'
  BY <1>0, <1>3, ReportsKeep, StoreKeeps DEF HALog
<1> QED
  BY <1>1, <1>2, <1>3 DEF Reports

\* The requests of the API.
LEMMA RequestsKept == ASSUME HostInv, Requests PROVE HostInv'
<1>0. StoreInv(db) /\ Known(reg, db, torn) /\ clock \in Nat \ {0} /\ silence \in Nat
  BY DEF HostInv, Known
<1>1. ASSUME NEW n \in Silences, Configure(n) PROVE HostInv'
  <2>1. Op /\ silence' \in Nat /\ UNCHANGED <<db, reg, clock, torn>>
    BY <1>1, HostAssumption DEF Configure, HostAssumption, namesVars, wipeVars
  <2> QED
    BY <1>0, <2>1, OpCounts DEF HostInv
<1>2. ASSUME NEW pan \in Pans, SetHomeNetwork(pan) PROVE HostInv'
  <2>1. Op /\ UNCHANGED <<db, reg, clock, silence, torn>>
    BY <1>2 DEF SetHomeNetwork, namesVars, wipeVars
  <2> QED
    BY <1>0, <2>1, OpCounts DEF HostInv
<1>3. ASSUME NEW on, Watch(1, on) PROVE HostInv'
  <2>1. Op /\ UNCHANGED <<db, reg, clock, silence, torn>>
    BY <1>3 DEF Watch, namesVars, settingVars, wipeVars
  <2> QED
    BY <1>0, <2>1, OpCounts DEF HostInv
<1>4. ASSUME NEW s, Store([db EXCEPT !.schedules = s]) PROVE HostInv'
  BY <1>0, <1>4, SchedulesKeep, StoreKeeps
<1>5. ASSUME NEW n, Schedule(1, n) PROVE HostInv'
  <2>1. \E s : Store([db EXCEPT !.schedules = s])
    BY <1>5, Zenon DEF Schedule, AddSchedule
  <2> QED
    BY <1>4, <2>1
<1>6. ASSUME Unschedule(1) PROVE HostInv'
  <2>1. \E s : Store([db EXCEPT !.schedules = s])
    BY <1>6, Zenon DEF Unschedule, DeleteSchedule
  <2> QED
    BY <1>4, <2>1
<1>7. ASSUME NEW on, Toggle(1, on) PROVE HostInv'
  <2>1. \E s : Store([db EXCEPT !.schedules = s])
    BY <1>7, Zenon DEF Toggle, SetScheduleEnabled, UpdateSchedules
  <2> QED
    BY <1>4, <2>1
<1>8. ASSUME RunSchedules(TRUE) PROVE HostInv'
  <2>1. \E s : Store([db EXCEPT !.schedules = s])
    BY <1>8, Zenon DEF RunSchedules, MarkScheduleRun, UpdateSchedules
  <2> QED
    BY <1>4, <2>1
<1>9. ASSUME RunSchedules(FALSE) PROVE HostInv'
  <2>1. Store(db)
    BY <1>9 DEF RunSchedules
  <2>2. Kept(db, db)
    BY <1>0 DEF Kept, ExtsKept
  <2> QED
    BY <2>1, <2>2, StoreKeeps
<1> QED
  BY <1>1, <1>2, <1>3, <1>5, <1>6, <1>7, <1>8, <1>9 DEF Requests

\* A wipe, step by step, and a restart.
LEMMA UpkeepKept == ASSUME HostInv, Upkeep PROVE HostInv'
<1>0. /\ StoreInv(db) /\ Known(reg, db, torn) /\ clock \in Nat \ {0} /\ silence \in Nat
      /\ ops \in (-Len(Past))..MaxOps
  BY DEF HostInv, Known
<1>1. ASSUME NEW rest, Wipe(rest) PROVE HostInv'
  <2>1. Op /\ db' = Reset(db) /\ UNCHANGED <<clock, silence, reg, torn>>
    BY <1>1 DEF Wipe, namesVars
  <2>2. Known(reg', db', torn')
    <3>1. Reset(db).devices = <<>>
      BY DEF Reset, Empty
    <3> QED
      BY <1>0, <2>1, <3>1, ResetKeeps DEF Known, Knows
  <2> QED
    BY <1>0, <2>1, <2>2, OpCounts DEF HostInv
<1>2. ASSUME WipeNames PROVE HostInv'
  <2>1. /\ UNCHANGED <<db, clock, silence, ops>>
        /\ reg' = NoNames /\ torn' = DOMAIN DeviceExts(db)
    BY <1>2 DEF WipeNames
  <2>2. Known(reg', db', torn')
    <3>1. IsRegistry(NoNames) /\ DOMAIN NoNames.extOf = {}
      BY DEF IsRegistry, NoNames, NameTables
    <3>2. Knows(NoNames, db, DOMAIN DeviceExts(db))
      BY <3>1 DEF Knows, DeviceExts
    <3> QED
      BY <1>0, <2>1, <3>1, <3>2 DEF Known
  <2> QED
    BY <1>0, <2>1, <2>2 DEF HostInv
<1>3. ASSUME WipeSettings PROVE HostInv'
  <2>1. UNCHANGED <<db, reg, clock, torn, ops>> /\ silence' = 0
    BY <1>3 DEF WipeSettings, namesVars
  <2> QED
    BY <1>0, <2>1 DEF HostInv
<1>4. ASSUME Restart PROVE HostInv'
  <2>1. Op /\ clock' = clock /\ silence' = silence /\ db' = Open(db) /\ reg' = Seed(db')
    BY <1>4 DEF Restart
  <2>2. StoreInv(db')
    BY <1>0, <2>1, OpenKeeps DEF Kept
  <2> QED
    BY <1>0, <2>1, <2>2, SeedKnows, OpCounts DEF HostInv
<1> QED
  BY <1>1, <1>2, <1>3, <1>4 DEF Upkeep, Purge, FactoryReset

\* What the sources of names bring.
LEMMA SourcesKept == ASSUME HostInv, NamesNext, UNCHANGED hostVars PROVE HostInv'
<1>0. Known(reg, db, torn)
  BY DEF HostInv
<1>1. ASSUME NEW i, First(i) \/ Second(i) PROVE Known(reg', db, torn)
  BY <1>0, <1>1, SourcesKeep DEF First, Second
<1>2. Known(reg', db, torn)
  <2>1. CASE reg' = reg
    BY <1>0, <2>1
  <2>2. CASE \E i : First(i) \/ Second(i)
    BY <1>1, <2>2
  <2> QED
    BY <2>1, <2>2 DEF NamesNext, Connect, Poll, Without, Fetched, Failed, Again, End, Refresh
<1> QED
  BY <1>2 DEF hostVars, HostInv

\* Every step of the host keeps it.
LEMMA HostInvStep == HostInv /\ [HostStep]_namedVars => HostInv'
<1> SUFFICES ASSUME HostInv, [HostStep]_namedVars PROVE HostInv'
  OBVIOUS
<1>1. ASSUME NEW n \in Pauses, Pass(n) PROVE HostInv'
  <2>1. Op /\ clock' = clock + n /\ n \in Nat /\ UNCHANGED <<db, reg, silence, torn>>
    BY <1>1, HostAssumption DEF Pass, namesVars, settingVars, wipeVars, HostAssumption
  <2> QED
    BY <2>1, OpCounts DEF HostInv
<1>2. ASSUME Detect PROVE HostInv'
  BY <1>2, DetectStep, StoreKeeps DEF Detect, Store
<1>3. ASSUME UNCHANGED namedVars PROVE HostInv'
  BY <1>3 DEF namedVars, hostVars, namesVars, HostInv
<1> QED
  BY <1>1, <1>2, <1>3, EarlierKeeps, CaptureKeeps, ReportsKept, RequestsKept, UpkeepKept, SourcesKept
     DEF HostStep, HostNext

\* The sniffer is deaf when there are devices and none was heard of late.
LEMMA DeafIs ==
  ASSUME NEW d, StoreInv(d), NEW s \in Nat, NEW now \in Nat, DOMAIN d.devices # {}
  PROVE  Deaf(d, s, now) <=>
           ~\E a \in DOMAIN d.devices : now - d.devices[a].last < Threshold(s)
<1> DEFINE heard == {d.devices[a].last : a \in DOMAIN d.devices}
<1>1. IsFiniteSet(heard)
  <2> DEFINE f == [a \in DOMAIN d.devices |-> d.devices[a].last]
  <2>1. IsFiniteSet(DOMAIN d.devices)
    BY DEF StoreInv, AreDevices
  <2>2. f \in Surjection(DOMAIN d.devices, heard)
    BY DEF Surjection
  <2> HIDE DEF heard, f
  <2> QED
    BY <2>1, <2>2, FS_Surjection
<1>2. \A a \in DOMAIN d.devices : d.devices[a].last \in Nat
  BY DEF StoreInv, AreDevices, IsRow
<1>3. heard \in SUBSET Int /\ heard # {}
  <2>1. PICK a \in DOMAIN d.devices : TRUE
    OBVIOUS
  <2>2. d.devices[a].last \in heard
    OBVIOUS
  <2>3. \A t \in heard : t \in Int
    BY <1>2
  <2> QED
    BY <2>2, <2>3
<1> HIDE DEF heard
<1>4. Max(heard) \in heard /\ \A y \in heard : Max(heard) >= y
  BY <1>1, <1>3, HighestOf
<1>5. Threshold(s) \in Nat
  BY DEF Threshold
<1>6. (now - Max(heard) >= Threshold(s)) <=> ~\E t \in heard : now - t < Threshold(s)
  <2> HIDE DEF Threshold
  <2> DEFINE m == Max(heard)
             h == Threshold(s)
  <2>1. m \in heard /\ m \in Int /\ h \in Nat /\ \A y \in heard : y \in Int /\ m >= y
    BY <1>3, <1>4, <1>5
  <2> HIDE DEF m, h
  <2>2. (now - m >= h) <=> ~\E t \in heard : now - t < h
    BY <2>1
  <2> QED
    BY <2>2 DEF m, h
<1>7. Deaf(d, s, now) <=> now - Max(heard) >= Threshold(s)
  BY DEF Deaf, heard
<1> QED
  BY <1>6, <1>7 DEF heard

\* A round of the detector does what it should.
Judged ==
  LET heard == {db.devices[a].last : a \in DOMAIN db.devices}
  IN IF \E t \in heard : clock - t < Threshold(silence)
     THEN /\ InTurn(db')
          /\ \A a \in DOMAIN db.devices :
               Alone(db, Hex(a)) /\ db.devices[a].count >= MinFrames =>
                 ((LastWord(db', Hex(a)) = "silence")
                    <=> (clock - db.devices[a].last >= Threshold(silence)))
     ELSE db'.incidents = db.incidents

\* After a round of the detector the last word on an address says what its age says.
LEMMA DetectJudges == ASSUME HostInv, Detect PROVE Judged
<1> DEFINE e == DetectIncidents(db, silence, clock)
           some == \E a \in DOMAIN db.devices : clock - db.devices[a].last < Threshold(silence)
<1>1. db' = e /\ StoreInv(db) /\ clock \in Nat /\ silence \in Nat
  BY DEF Detect, Store, HostInv, Known
<1>2. some <=> \E t \in {db.devices[a].last : a \in DOMAIN db.devices} :
                  clock - t < Threshold(silence)
  OBVIOUS
<1>3. CASE some
  <2>1. ~Deaf(db, silence, clock)
    BY <1>1, <1>3, DeafIs
  <2> HIDE DEF e
  <2>0. e = DetectIncidents(db, silence, clock)
    BY DEF e
  <2>2. /\ IsDatabase(e) /\ e.devices = db.devices
        /\ \E ch, n : Noted(db, e, silence, clock, ch, n)
    BY <1>1, <2>0, <2>1, DetectNotes
  <2>3. /\ StoreInv(e)
        /\ \A a \in DOMAIN db.devices :
             Alone(db, Hex(a)) /\ db.devices[a].count >= MinFrames =>
               ((LastWord(e, Hex(a)) = "silence") <=> Overdue(db, silence, clock, a))
    BY <1>1, <2>2, DetectKeeps
  <2> HIDE DEF some
  <2> QED
    BY <1>1, <1>2, <1>3, <2>3 DEF Judged, StoreInv, Overdue
<1>4. CASE ~some
  <2>1. db'.incidents = db.incidents
    <3>1. CASE DOMAIN db.devices # {}
      <4>1. Deaf(db, silence, clock)
        BY <1>1, <1>4, <3>1, DeafIs
      <4> QED
        BY <1>1, <4>1 DEF DetectIncidents
    <3>2. CASE DOMAIN db.devices = {}
      <4>1. ~Deaf(db, silence, clock)
        BY <3>2 DEF Deaf
      <4> HIDE DEF e
      <4>0. e = DetectIncidents(db, silence, clock)
        BY DEF e
      <4>2. PICK ch, n : Noted(db, e, silence, clock, ch, n)
        BY <1>1, <4>0, <4>1, DetectNotes
      <4>3. Changed(db, silence, clock) = {}
        BY <3>2 DEF Changed, Candidates
      <4>4. n = 0
        <5>1. n \in Nat /\ \A i \in 1..n : FALSE
          BY <4>2, <4>3 DEF Noted
        <5> QED
          BY <5>1
      <4> DEFINE p == db.incidents
                 q == e.incidents
      <4>5. /\ IsList(p) /\ IsList(q) /\ Len(q) = Len(p) /\ \A i \in 1..Len(p) : q[i] = p[i]
        <5>1. IsList(p)
          BY <1>1 DEF StoreInv
        <5>2. Len(p) \in Nat
          BY <5>1, Lists
        <5> QED
          BY <4>2, <4>4, <5>1, <5>2 DEF Noted
      <4> HIDE DEF p, q
      <4>6. q = p
        <5>1. p \in Seq(Range(p)) /\ q \in Seq(Range(q))
          BY <4>5 DEF IsList
        <5>2. p = [i \in 1..Len(p) |-> p[i]] /\ q = [i \in 1..Len(q) |-> q[i]]
          BY <5>1
        <5> QED
          BY <4>5, <5>2
      <4> QED
        BY <1>1, <4>6 DEF p, q
    <3> QED
      BY <3>1, <3>2
  <2> HIDE DEF some
  <2> QED
    BY <1>2, <1>4, <2>1 DEF Judged
<1> QED
  BY <1>3, <1>4

\* Silence and recovery of a device alternate, and after every round of the
\* detector the last word on a device tells whether it is silent, for any frames,
\* caps, thresholds and devices, through prunes, purges and restarts.
THEOREM SilenceIsTold == HostSpec => DownIsSilent
<1>1. HostInv /\ [HostStep]_namedVars => [Detect => Judged]_hostVars
  BY DetectJudges
<1>2. HostSpec => []HostInv
  BY HostInvInit, HostInvStep, PTL DEF HostSpec
<1>3. HostSpec => [][Detect => Judged]_hostVars
  BY <1>1, <1>2, PTL DEF HostSpec
<1> QED
  BY <1>3, PTL DEF DownIsSilent, Judged

\* An address of its own that is stored with a device is the one the registry
\* goes by, whatever is learned, fetched, pruned, wiped or started anew, and where a
\* frame fell between the two halves of a wipe the registry knows no other.
THEOREM AddressesAgree == HostSpec => []ExtsAgree
<1>1. HostInv => ExtsAgree
  BY DEF HostInv, Known, Knows, ExtsAgree, ExtOf, Get, Has, DeviceExts
<1> QED
  BY <1>1, HostInvInit, HostInvStep, PTL DEF HostSpec

-------------------------------------------------------------------------------
(* The pollers (NamesTypeOK).                                                  *)

\* What the list of pollers holds.
Poller == [of : HATargets \cup Bridges, phase : {"first", "second", "told", "wait", "done"},
           cancelled : BOOLEAN]
\* Two pollers of one kind: Home Assistant's, or the Hue bridge's.
Rivals(ps, i, j) == i # j /\ KindOf(ps[i].of) = KindOf(ps[j].of)
\* One of two rivals has been cancelled.
PollersInv ==
  /\ pollers \in Seq(Poller)
  /\ \A i, j \in DOMAIN pollers :
       Rivals(pollers, i, j) => pollers[i].cancelled \/ pollers[j].cancelled

\* A poller goes on.
LEMMA PhaseKeeps ==
  ASSUME PollersInv, NEW i \in DOMAIN pollers, NEW p \in {"first", "second", "told", "wait", "done"},
         Goto(i, p)
  PROVE  PollersInv'
<1>1. pollers' = [pollers EXCEPT ![i].phase = p]
  BY DEF Goto
<1>2. /\ pollers' \in Seq(Poller) /\ DOMAIN pollers' = DOMAIN pollers
      /\ \A j \in DOMAIN pollers : /\ pollers'[j].of = pollers[j].of
                                   /\ pollers'[j].cancelled = pollers[j].cancelled
  <2>0. pollers \in Seq(Poller) /\ Len(pollers) \in Nat /\ DOMAIN pollers = 1..Len(pollers)
    BY DEF PollersInv
  <2> DEFINE q == [pollers[i] EXCEPT !.phase = p]
  <2>1. q \in Poller /\ q.of = pollers[i].of /\ q.cancelled = pollers[i].cancelled
    <3>1. pollers[i] \in Poller
      BY <2>0
    <3> QED
      BY <3>1 DEF Poller
  <2>2. pollers' = [pollers EXCEPT ![i] = q]
    BY <1>1
  <2> HIDE DEF q
  <2> QED
    BY <2>0, <2>1, <2>2
<1> QED
  BY <1>2 DEF PollersInv, Rivals

\* The operator connects to a source: those of its kind are cancelled.
LEMMA ConnectKeeps ==
  ASSUME PollersInv, NEW t \in HATargets \cup Bridges \cup {Nowhere}, Connect(t)
  PROVE  PollersInv'
<1> DEFINE kind == KindOf(t)
           old == [i \in DOMAIN pollers |->
                     [pollers[i] EXCEPT !.cancelled = @ \/ KindOf(pollers[i].of) = kind]]
           new == [of |-> t, phase |-> "first", cancelled |-> FALSE]
<1>1. pollers' = IF t = Nowhere THEN old ELSE Append(old, new)
  BY DEF Connect
<1>2. \A i \in DOMAIN pollers : /\ old[i] \in Poller /\ old[i].of = pollers[i].of
                                /\ pollers[i].cancelled => old[i].cancelled
                                /\ KindOf(pollers[i].of) = kind => old[i].cancelled
  <2> SUFFICES ASSUME NEW i \in DOMAIN pollers
               PROVE  /\ old[i] \in Poller /\ old[i].of = pollers[i].of
                      /\ pollers[i].cancelled => old[i].cancelled
                      /\ KindOf(pollers[i].of) = kind => old[i].cancelled
    OBVIOUS
  <2>1. pollers[i] \in Poller
    BY DEF PollersInv
  <2> DEFINE c == pollers[i].cancelled \/ KindOf(pollers[i].of) = kind
  <2>2. old[i] = [pollers[i] EXCEPT !.cancelled = c] /\ c \in BOOLEAN
    OBVIOUS
  <2> HIDE DEF c, old
  <2>3. old[i] \in Poller /\ old[i].of = pollers[i].of /\ old[i].cancelled = c
    BY <2>1, <2>2 DEF Poller
  <2> QED
    BY <2>3 DEF c
<1>3. old \in Seq(Poller) /\ DOMAIN old = DOMAIN pollers
  <2>1. DOMAIN pollers = 1..Len(pollers) /\ Len(pollers) \in Nat /\ DOMAIN old = DOMAIN pollers
    BY DEF PollersInv
  <2>2. old \in [1..Len(pollers) -> Poller]
    BY <1>2, <2>1
  <2> HIDE DEF old
  <2> QED
    BY <2>1, <2>2
<1> HIDE DEF old, kind
<1>4. \A i, j \in DOMAIN old : Rivals(old, i, j) => old[i].cancelled \/ old[j].cancelled
  BY <1>2, <1>3 DEF PollersInv, Rivals
<1>5. CASE t = Nowhere
  BY <1>1, <1>3, <1>4, <1>5 DEF PollersInv
<1>6. CASE t # Nowhere
  <2> DEFINE q == Append(old, new)
             n == Len(old)
  <2>1. new \in Poller
    BY <1>6 DEF Poller
  <2>2. n \in Nat /\ DOMAIN old = 1..n
    BY <1>3
  <2>3. /\ q \in Seq(Poller) /\ DOMAIN q = 1..(n + 1)
        /\ q[n + 1] = new /\ \A i \in 1..n : q[i] = old[i]
    <3> HIDE DEF new
    <3> QED
      BY <1>3, <2>1, <2>2
  <2> HIDE DEF q, n
  <2>4. ASSUME NEW i \in 1..(n + 1), NEW j \in 1..(n + 1), Rivals(q, i, j)
        PROVE  q[i].cancelled \/ q[j].cancelled
    <3>1. CASE i \in 1..n /\ j \in 1..n
      <4>1. q[i] = old[i] /\ q[j] = old[j]
        BY <2>3, <3>1
      <4> QED
        BY <1>4, <2>2, <2>4, <3>1, <4>1 DEF Rivals
    <3>2. ASSUME NEW k \in 1..n, KindOf(q[k].of) = KindOf(q[n + 1].of) PROVE q[k].cancelled
      <4>1. q[k] = old[k] /\ q[n + 1].of = t /\ k \in DOMAIN pollers
        BY <1>3, <2>2, <2>3
      <4> QED
        BY <1>2, <3>2, <4>1 DEF kind
    <3>3. CASE i = n + 1 /\ j \in 1..n
      BY <2>4, <3>2, <3>3 DEF Rivals
    <3>4. CASE j = n + 1 /\ i \in 1..n
      BY <2>4, <3>2, <3>4 DEF Rivals
    <3>5. i # j
      BY <2>4 DEF Rivals
    <3> QED
      BY <2>2, <3>1, <3>3, <3>4, <3>5
  <2>5. pollers' = q
    BY <1>1, <1>6 DEF q
  <2> QED
    BY <2>3, <2>4, <2>5 DEF PollersInv
<1> QED
  BY <1>5, <1>6

\* Every step of the host keeps that.
LEMMA PollersStep == PollersInv /\ [HostStep]_namedVars => PollersInv'
<1> SUFFICES ASSUME PollersInv, [HostStep]_namedVars PROVE PollersInv'
  OBVIOUS
<1>1. CASE NamesNext
  <2>1. ASSUME NEW t \in HATargets \cup Bridges \cup {Nowhere}, Connect(t) PROVE PollersInv'
    BY <2>1, ConnectKeeps
  <2>2. ASSUME NEW i \in DOMAIN pollers, Poll(i) \/ End(i) PROVE PollersInv'
    <3>1. \E p \in {"first", "second", "told", "wait", "done"} : Goto(i, p)
      BY <2>2 DEF Poll, End, First, Second, Without, Fetched, Failed, Again
    <3> QED
      BY <3>1, PhaseKeeps
  <2>3. ASSUME Refresh PROVE PollersInv'
    BY <2>3 DEF Refresh, PollersInv
  <2> QED
    BY <1>1, <2>1, <2>2, <2>3 DEF NamesNext
<1>2. CASE pollers' = pollers
  BY <1>2 DEF PollersInv
<1>3. CASE pollers' = <<>>
  BY <1>3 DEF PollersInv
<1>4. HostNext => pollers' = pollers \/ pollers' = <<>>
  <2> USE DEF sourceVars, namesVars
  <2>1. Earlier \/ (\E f \in Frames : Capture(f)) \/ (\E n \in Pauses : Pass(n)) => pollers' = pollers
    BY DEF Earlier, Capture, Pass
  <2>2. \A d : Store(d) => pollers' = pollers
    BY DEF Store
  <2>3. Detect \/ Reports => pollers' = pollers
    BY <2>2 DEF Detect, Reports, EdSample, ProbeAnswer, HALog
  <2>4. Upkeep => pollers' = pollers \/ pollers' = <<>>
    BY DEF Upkeep, Purge, FactoryReset, Wipe, WipeNames, WipeSettings, Restart, SourcesRestart
  <2>5. ASSUME NEW n PROVE Schedule(1, n) \/ Unschedule(1) \/ Toggle(1, n) => pollers' = pollers
    BY <2>2, Zenon DEF Schedule, Unschedule, Toggle
  <2>6. ASSUME NEW n PROVE RunSchedules(n) => pollers' = pollers
    BY <2>2, Zenon DEF RunSchedules
  <2>7. Requests => pollers' = pollers
    BY <2>5, <2>6 DEF Requests, Configure, SetHomeNetwork, Watch
  <2> QED
    BY <2>1, <2>3, <2>4, <2>7 DEF HostNext
<1>5. CASE UNCHANGED namedVars
  BY <1>2, <1>5 DEF namedVars, namesVars, sourceVars
<1> QED
  BY <1>1, <1>2, <1>3, <1>4, <1>5 DEF HostStep

\* However often the operator connects, of each kind of source one poller at most
\* goes on for good: all others are cancelled (Connect in ha.go and hue.go).
THEOREM OnePollerStays == HostSpec => []NamesTypeOK
<1>1. SourcesInit => PollersInv
  BY DEF SourcesInit, PollersInv
<1>2. PollersInv => NamesTypeOK
  <2> SUFFICES ASSUME PollersInv PROVE NamesTypeOK
    OBVIOUS
  <2>1. \A i \in DOMAIN pollers : pollers[i] \in Poller
    BY DEF PollersInv
  <2>2. \A i \in DOMAIN pollers : /\ pollers[i].of \in HATargets \cup Bridges
                                  /\ pollers[i].phase \in {"first", "second", "told", "wait", "done"}
    BY <2>1 DEF Poller
  <2>3. ASSUME NEW k \in Kinds, NEW i \in {x \in DOMAIN pollers : KindOf(pollers[x].of) = k},
               NEW j \in {x \in DOMAIN pollers : KindOf(pollers[x].of) = k}, i # j
        PROVE  pollers[i].cancelled \/ pollers[j].cancelled
    BY <2>3 DEF PollersInv, Rivals
  <2> QED
    BY <2>2, <2>3, Zenon DEF NamesTypeOK
<1> QED
  BY <1>1, <1>2, PollersStep, PTL DEF HostSpec
-------------------------------------------------------------------------------
(* A sum over a finite set counts pairs: each member as often as its number.   *)

\* Each member of S as often as g says.
Tickets(g, S) == UNION {{x} \X (1..g[x]) : x \in S}
Rest(s) == s \ {CHOOSE x \in s : TRUE}
\* The recursion MapThenSumSet is defined by.
IsSum(h, g, S) ==
  h = [s \in SUBSET S |-> IF s = {} THEN 0 ELSE g[CHOOSE x \in s : TRUE] + h[Rest(s)]]

\* Pairs add up.
LEMMA TicketsAre ==
  ASSUME NEW S, IsFiniteSet(S), NEW g, \A x \in S : g[x] \in Nat
  PROVE  /\ IsFiniteSet(Tickets(g, S)) /\ Cardinality(Tickets(g, S)) \in Nat
         /\ S = {} => Cardinality(Tickets(g, S)) = 0
         /\ \A x \in S : Cardinality(Tickets(g, S)) = g[x] + Cardinality(Tickets(g, S \ {x}))
<1> DEFINE col(x) == {x} \X (1..g[x])
<1>1. \A x \in S : IsFiniteSet(col(x)) /\ Cardinality(col(x)) = g[x]
  <2> TAKE x \in S
  <2>1. IsFiniteSet({x}) /\ Cardinality({x}) = 1
    BY FS_Singleton
  <2>2. IsFiniteSet(1..g[x]) /\ Cardinality(1..g[x]) = g[x]
    BY FS_Interval
  <2> QED
    BY <2>1, <2>2, FS_Product
<1>2. ASSUME NEW T \in SUBSET S PROVE IsFiniteSet(Tickets(g, T))
  <2> DEFINE C == {col(x) : x \in T}
             f == [x \in T |-> col(x)]
  <2>1. f \in Surjection(T, C)
    BY DEF Surjection
  <2>2. IsFiniteSet(C)
    <3> HIDE DEF C, f
    <3> QED
      BY <2>1, FS_Surjection, FS_Subset
  <2>3. \A c \in C : IsFiniteSet(c)
    BY <1>1
  <2>4. IsFiniteSet(UNION C)
    <3> HIDE DEF C
    <3> QED
      BY <2>2, <2>3, FS_UNION
  <2> QED
    BY <2>4 DEF Tickets
<1>3. ASSUME NEW x \in S
      PROVE  Cardinality(Tickets(g, S)) = g[x] + Cardinality(Tickets(g, S \ {x}))
  <2> DEFINE A == Tickets(g, S \ {x})
  <2>1. Tickets(g, S) = col(x) \cup A /\ col(x) \cap A = {}
    BY DEF Tickets
  <2>2. IsFiniteSet(A)
    BY <1>2
  <2>3. IsFiniteSet(col(x)) /\ Cardinality(col(x)) = g[x]
    BY <1>1
  <2> HIDE DEF A, col
  <2>4. Cardinality(col(x) \cup A) = Cardinality(col(x)) + Cardinality(A) - Cardinality(col(x) \cap A)
    BY <2>2, <2>3, FS_Union
  <2>5. Cardinality(col(x) \cap A) = 0 /\ Cardinality(A) \in Nat /\ g[x] \in Nat
    BY <2>1, <2>2, FS_EmptySet, FS_CardinalityType
  <2> QED
    BY <2>1, <2>3, <2>4, <2>5 DEF A
<1>4. S = {} => Tickets(g, S) = {}
  BY DEF Tickets
<1> QED
  BY <1>2, <1>3, <1>4, FS_CardinalityType, FS_EmptySet

\* There is a sum, and it is as much as there are pairs.
LEMMA SumIs ==
  ASSUME NEW S, IsFiniteSet(S), NEW g, \A x \in S : g[x] \in Nat
  PROVE  /\ \E h : IsSum(h, g, S)
         /\ \A h : IsSum(h, g, S) => h[S] = Cardinality(Tickets(g, S))
<1> DEFINE e == [s \in SUBSET S |-> Cardinality(Tickets(g, s))]
<1>1. \A s \in SUBSET S : IsFiniteSet(s)
  BY FS_Subset
<1>2. IsSum(e, g, S)
  <2>1. ASSUME NEW s \in SUBSET S
        PROVE  e[s] = IF s = {} THEN 0 ELSE g[CHOOSE x \in s : TRUE] + e[Rest(s)]
    <3>1. s # {} => (CHOOSE x \in s : TRUE) \in s /\ Rest(s) \in SUBSET S
      BY DEF Rest
    <3>2. IsFiniteSet(s) /\ \A x \in s : g[x] \in Nat
      BY <1>1
    <3>3. /\ s = {} => Cardinality(Tickets(g, s)) = 0
          /\ \A x \in s : Cardinality(Tickets(g, s)) = g[x] + Cardinality(Tickets(g, s \ {x}))
      BY <3>2, TicketsAre
    <3>4. e[s] = Cardinality(Tickets(g, s)) /\ (s # {} => e[Rest(s)] = Cardinality(Tickets(g, Rest(s))))
      BY <3>1
    <3> HIDE DEF e
    <3> QED
      BY <3>1, <3>3, <3>4 DEF Rest
  <2> QED
    BY <2>1 DEF IsSum
<1> HIDE DEF e
<1>3. ASSUME NEW h, IsSum(h, g, S) PROVE \A s \in SUBSET S : h[s] = e[s]
  <2> DEFINE B == {s \in SUBSET S : h[s] # e[s]}
  <2>1. SUFFICES ASSUME B # {} PROVE FALSE
    OBVIOUS
  <2>2. B \subseteq FiniteSubsetsOf(S)
    BY <1>1 DEF FiniteSubsetsOf
  <2>3. PICK s \in B : \A t \in B : <<t, s>> \notin StrictSubsetOrdering(S)
    <3> HIDE DEF B
    <3> QED
      BY <2>1, <2>2, FS_StrictSubsetOrderingWellFounded, WFMin, Zenon
  <2>4. /\ h[s] = IF s = {} THEN 0 ELSE g[CHOOSE x \in s : TRUE] + h[Rest(s)]
        /\ e[s] = IF s = {} THEN 0 ELSE g[CHOOSE x \in s : TRUE] + e[Rest(s)]
    BY <1>2, <1>3 DEF IsSum
  <2>5. CASE s = {}
    BY <2>4, <2>5
  <2>6. CASE s # {}
    <3>1. Rest(s) \in SUBSET S /\ Rest(s) \subseteq s /\ Rest(s) # s
      BY <2>6 DEF Rest
    <3>2. <<Rest(s), s>> \in StrictSubsetOrdering(S)
      BY <3>1 DEF StrictSubsetOrdering
    <3>3. h[Rest(s)] = e[Rest(s)]
      BY <2>3, <3>1, <3>2
    <3> QED
      BY <2>4, <2>6, <3>3
  <2> QED
    BY <2>5, <2>6
<1>4. e[S] = Cardinality(Tickets(g, S))
  BY DEF e
<1> QED
  BY <1>2, <1>3, <1>4

-------------------------------------------------------------------------------
(* The route failures and their runs.                                          *)

\* The failures in the order they are read, and what is used of it.
Ascending(ev) ==
  /\ IsList(ev) /\ \A k \in 1..Len(ev) : ev[k].ts \in Nat
  /\ \A k, l \in 1..Len(ev) : k <= l => ev[k].ts <= ev[l].ts
Dated(rows) == IsList(rows) /\ \A i \in DOMAIN rows : rows[i].ts \in Nat

\* Failures are read oldest first.
LEMMA FailuresAscend == ASSUME NEW d, Dated(d.rfLog) PROVE Ascending(Failures(d))
<1> DEFINE S == {i \in DOMAIN d.rfLog : d.rfLog[i].reason # "Address conflict"}
           before(i, j) == d.rfLog[i].ts < d.rfLog[j].ts \/ (d.rfLog[i].ts = d.rfLog[j].ts /\ i < j)
           R == {p \in S \X S : before(p[1], p[2])}
           n == Cardinality(S)
           place(k) == CHOOSE x \in S : Cardinality({y \in S : before(y, x)}) = k - 1
           f == [k \in 1..n |-> place(k)]
           ev == Failures(d)
<1>1. ev = [k \in DOMAIN f |-> d.rfLog[f[k]]]
  BY Zenon DEF Failures, InOrder
<1>2. Len(d.rfLog) \in Nat /\ DOMAIN d.rfLog = 1..Len(d.rfLog) /\ S \subseteq 1..Len(d.rfLog)
  BY Lists DEF Dated
<1>3. IsFiniteSet(S) /\ n \in Nat
  <2> HIDE DEF S
  <2>0. IsFiniteSet(1..Len(d.rfLog))
    BY <1>2, FS_Interval
  <2>1. IsFiniteSet(S)
    BY <1>2, <2>0, FS_Subset
  <2> QED
    BY <2>1, FS_CardinalityType
<1>4. \A i \in S : d.rfLog[i].ts \in Nat /\ i \in Nat /\ i \in DOMAIN d.rfLog
  <2>1. S \subseteq DOMAIN d.rfLog /\ \A i \in DOMAIN d.rfLog : d.rfLog[i].ts \in Nat
    BY DEF Dated
  <2> HIDE DEF S
  <2> QED
    BY <1>2, <2>1
<1> HIDE DEF S
<1>5. Orders(R, S)
  BY <1>4 DEF Orders
<1>6. \A x \in S : {y \in S : before(y, x)} = Ahead(x, R, S)
  BY DEF Ahead
<1>7. f = [k \in 1..n |-> f[k]] /\ DOMAIN f = 1..n
  <2> HIDE DEF n, place
  <2> QED
    OBVIOUS
<1>8. \A k \in 1..n : f[k] = CHOOSE x \in S : Cardinality({y \in S : before(y, x)}) = k - 1
  OBVIOUS
<1> HIDE DEF f, R
<1>9. \A k \in 1..n : f[k] \in S /\ Cardinality(Ahead(f[k], R, S)) = k - 1
  <2> HIDE DEF before
  <2> TAKE k \in 1..n
  <2>1. \E x \in S : Cardinality({y \in S : before(y, x)}) = k - 1
    BY ZenonT(30), <1>3, <1>5, <1>6, RankedIs
  <2>2. f[k] \in S /\ Cardinality({y \in S : before(y, f[k])}) = k - 1
    BY <1>8, <2>1
  <2> QED
    BY <1>6, <2>2
<1>10. \A k, l \in 1..n : k < l => <<f[k], f[l]>> \in R
  BY <1>3, <1>5, <1>7, <1>9, RankedIs DEF Listed
<1>11. /\ \A k \in 1..n : ev[k] = d.rfLog[f[k]] /\ ev[k].ts \in Nat
       /\ DOMAIN ev = 1..n /\ ev = [k \in 1..n |-> ev[k]]
  <2> HIDE DEF ev
  <2> QED
    BY <1>1, <1>4, <1>7, <1>9
<1> HIDE DEF ev
<1>12. ev \in Seq(Range(ev)) /\ Len(ev) = n
  <2>1. \A k \in 1..n : ev[k] \in Range(ev)
    BY <1>11 DEF Range
  <2>2. ev \in [1..n -> Range(ev)]
    BY <1>11, <2>1
  <2> QED
    BY <1>3, <2>2
<1>13. \A k, l \in 1..n : k < l => ev[k].ts <= ev[l].ts
  <2> TAKE k, l \in 1..n
  <2> HAVE k < l
  <2>1. before(f[k], f[l]) /\ f[k] \in S /\ f[l] \in S
    BY <1>9, <1>10 DEF R
  <2> QED
    BY <1>4, <1>11, <2>1
<1>14. \A k, l \in 1..n : k <= l => ev[k].ts <= ev[l].ts
  BY <1>3, <1>11, <1>13
<1>15. Ascending(ev)
  BY <1>11, <1>12, <1>14 DEF Ascending, IsList
<1> QED
  BY <1>15 DEF ev

\* A sequence of sequences, each going on in ev where the one before ended, makes
\* up ev.
LEMMA Flat ==
  ASSUME NEW ev, IsList(ev), NEW cs, IsList(cs), Len(cs) > 0, NEW e,
         \A k \in 1..Len(cs) : e[k] \in 1..Len(ev),
         e[Len(cs)] = Len(ev), cs[1] = SubSeq(ev, 1, e[1]),
         \A k \in 2..Len(cs) : e[k - 1] < e[k] /\ cs[k] = SubSeq(ev, e[k - 1] + 1, e[k])
  PROVE  FlattenSeq(cs) = ev
<1> DEFINE m == Len(cs)
           IsFlat(h) == h = [i \in 1..m |-> IF i = 1 THEN cs[i] ELSE h[i - 1] \o cs[i]]
           f == [i \in 1..m |-> SubSeq(ev, 1, e[i])]
           g == CHOOSE h : IsFlat(h)
<1>1. m \in Nat \ {0} /\ Len(ev) \in Nat
  BY Lists
<1>2. IsFlat(f)
  <2>1. ASSUME NEW i \in 1..m PROVE f[i] = IF i = 1 THEN cs[i] ELSE f[i - 1] \o cs[i]
    <3>1. CASE i = 1
      BY <1>1, <3>1
    <3>2. CASE i # 1
      <4>1. i \in 2..m /\ i - 1 \in 1..m /\ i \in 1..m
        BY <1>1, <3>2
      <4>2. e[i - 1] \in 1..Len(ev) /\ e[i] \in 1..Len(ev) /\ e[i - 1] < e[i]
            /\ cs[i] = SubSeq(ev, e[i - 1] + 1, e[i])
        BY <4>1
      <4>3. SubSeq(ev, 1, e[i - 1]) \o SubSeq(ev, e[i - 1] + 1, e[i]) = SubSeq(ev, 1, e[i])
        <5>1. ev \in Seq(Range(ev)) /\ 1 \in 1..(Len(ev) + 1)
              /\ e[i - 1] \in (1 - 1)..Len(ev) /\ e[i] \in e[i - 1]..Len(ev)
          BY <1>1, <4>2 DEF IsList
        <5> QED
          BY <5>1, ConcatAdjacentSubSeq
      <4> QED
        BY <3>2, <4>1, <4>2, <4>3
    <3> QED
      BY <3>1, <3>2
  <2> HIDE DEF f
  <2>2. f = [i \in 1..m |-> f[i]]
    BY DEF f
  <2> QED
    BY <2>1, <2>2
<1>3. IsFlat(g)
  BY <1>2, Zenon
<1> HIDE DEF f, g
<1>4. \A i \in 1..m : g[i] = f[i]
  <2> DEFINE B == {i \in 1..m : g[i] # f[i]}
  <2>1. SUFFICES ASSUME B # {} PROVE FALSE
    OBVIOUS
  <2>2. Min(B) \in B /\ \A y \in B : Min(B) <= y
    <3>1. B \in SUBSET Nat
      OBVIOUS
    <3> HIDE DEF B
    <3> QED
      BY <2>1, <3>1, LowestIs
  <2> DEFINE i == Min(B)
  <2>3. i \in 1..m /\ g[i] # f[i] /\ \A j \in 1..m : j < i => g[j] = f[j]
    <3> HIDE DEF i
    <3>1. i \in B /\ \A y \in B : i <= y
      BY <2>2 DEF i
    <3> QED
      BY <3>1
  <2> HIDE DEF i, B
  <2>4. /\ g[i] = IF i = 1 THEN cs[i] ELSE g[i - 1] \o cs[i]
        /\ f[i] = IF i = 1 THEN cs[i] ELSE f[i - 1] \o cs[i]
    BY <1>2, <1>3, <2>3
  <2>5. i # 1 => g[i - 1] = f[i - 1]
    BY <1>1, <2>3
  <2> QED
    BY <2>3, <2>4, <2>5
<1>5. FlattenSeq(cs) = g[m]
  <2>1. FlattenSeq(cs) = IF m = 0 THEN cs ELSE g[m]
    BY Zenon DEF FlattenSeq, g
  <2> QED
    BY <1>1, <2>1
<1>6. f[m] = SubSeq(ev, 1, Len(ev)) /\ m \in 1..m
  BY <1>1 DEF f
<1>7. SubSeq(ev, 1, Len(ev)) = ev
  BY SubSeqFull DEF IsList
<1> QED
  BY <1>4, <1>5, <1>6, <1>7

\* The runs of a sequence of events make it up, with a gap between any two.
LEMMA RunsAre ==
  ASSUME NEW ev, Ascending(ev), NEW gap \in Nat, NEW cs, cs = Runs(ev, gap)
  PROVE  /\ FlattenSeq(cs) = ev
         /\ \A i, j \in DOMAIN cs : i < j => cs[j][1].ts - cs[i][Len(cs[i])].ts > gap
<1> DEFINE S == Starts(ev, gap)
           s == InOrder(S, <)
           m == Len(s)
           n == Len(ev)
           e == [k \in 1..m |-> IF k = m THEN n ELSE s[k + 1] - 1]
<1>1. n \in Nat /\ DOMAIN ev = 1..n /\ IsList(ev)
  BY Lists DEF Ascending
<1>2. S \in SUBSET (1..n) /\ S \in SUBSET Int /\ IsFiniteSet(S)
  <2>1. S \in SUBSET (1..n)
    BY <1>1 DEF Starts
  <2> HIDE DEF S
  <2>2. IsFiniteSet(1..n)
    BY <1>1, FS_Interval
  <2>3. \A x \in 1..n : x \in Int
    OBVIOUS
  <2> QED
    BY <2>1, <2>2, <2>3, FS_Subset
<1>3. Listed(s, Lower(S), S)
  BY <1>2, AscendingIs
<1> HIDE DEF s
<1>4. /\ m \in Nat /\ DOMAIN s = 1..m
      /\ \A k \in 1..m : s[k] \in S /\ s[k] \in 1..n
      /\ \A k, l \in 1..m : k < l => s[k] < s[l]
  <2> HIDE DEF S
  <2> QED
    BY <1>2, <1>3 DEF Listed, Lower
<1>41. \A x \in S : \E k \in 1..m : s[k] = x
  BY <1>3 DEF Listed
<1> HIDE DEF m, S
<1>5. cs = [k \in 1..m |-> SubSeq(ev, s[k], e[k])]
  <2>1. cs = [k \in DOMAIN s |-> SubSeq(ev, s[k], IF k = m THEN Len(ev) ELSE s[k + 1] - 1)]
    BY Zenon DEF Runs, s, S, m
  <2>2. \A k \in 1..m : e[k] = IF k = m THEN Len(ev) ELSE s[k + 1] - 1
    OBVIOUS
  <2> HIDE DEF e
  <2> QED
    BY <1>4, <2>1, <2>2
<1>6. \A k \in 1..m : e[k] \in s[k]..n
  <2> TAKE k \in 1..m
  <2>1. k # m => k + 1 \in 1..m /\ s[k] < s[k + 1]
    BY <1>4
  <2> QED
    BY <1>1, <1>4, <2>1
<1>7. \A k \in 1..m : k # m => e[k] = s[k + 1] - 1 /\ k + 1 \in 1..m
  BY <1>4
<1>8. m > 0 => e[m] = n
  BY <1>4
<1> HIDE DEF e
<1>9. \A k \in 1..m : /\ Len(cs[k]) = e[k] - s[k] + 1
                      /\ cs[k][1] = ev[s[k]] /\ cs[k][Len(cs[k])] = ev[e[k]]
  <2> TAKE k \in 1..m
  <2>1. s[k] \in Int /\ e[k] \in Int /\ s[k] <= e[k] /\ s[k] >= 1 /\ e[k] <= n
    BY <1>1, <1>4, <1>6
  <2>2. \A i \in s[k]..e[k] : ev[i] \in Range(ev)
    BY <1>1, <2>1 DEF Range
  <2>3. /\ Len(SubSeq(ev, s[k], e[k])) = e[k] - s[k] + 1
        /\ \A i \in 1..(e[k] - s[k] + 1) : SubSeq(ev, s[k], e[k])[i] = ev[s[k] + i - 1]
    BY <2>1, <2>2, SubSeqProperties
  <2> QED
    BY SMTT(30), <1>5, <2>1, <2>3
<1>10. IsList(cs) /\ Len(cs) = m /\ DOMAIN cs = 1..m
  <2>1. DOMAIN cs = 1..m /\ cs = [k \in 1..m |-> cs[k]]
    BY <1>5
  <2>2. \A k \in 1..m : cs[k] \in Range(cs)
    BY <2>1 DEF Range
  <2>3. cs \in [1..m -> Range(cs)]
    BY <2>1, <2>2
  <2> QED
    BY <1>4, <2>3 DEF IsList
<1>11. FlattenSeq(cs) = ev
  <2>1. CASE m = 0
    <3>1. S = {}
      BY <1>41, <2>1
    <3>2. n = 0
      <4>1. 1 \in 1..n => 1 \in S
        BY <1>1 DEF Starts, S
      <4> QED
        BY <1>1, <3>1, <4>1
    <3>3. ev = <<>> /\ cs = <<>>
      BY <1>1, <1>10, <2>1, <3>2 DEF IsList
    <3>4. Len(cs) = 0
      BY <1>10, <2>1
    <3> QED
      BY <3>3, <3>4, Zenon DEF FlattenSeq
  <2>2. CASE m # 0
    <3>1. 1 \in 1..m /\ m \in 1..m /\ n >= 1
      BY <1>1, <1>4, <2>2
    <3>2. s[1] = 1
      <4>1. 1 \in S
        BY <1>1, <3>1 DEF Starts, S
      <4>2. PICK k \in 1..m : s[k] = 1
        BY <1>41, <4>1
      <4>3. k = 1
        BY <1>4, <3>1, <4>2
      <4> QED
        BY <4>2, <4>3
    <3>3. \A k \in 1..m : e[k] \in 1..n
      BY <1>1, <1>4, <1>6
    <3>4. cs[1] = SubSeq(ev, 1, e[1])
      BY <1>5, <3>1, <3>2
    <3>5. \A k \in 2..m : e[k - 1] < e[k] /\ cs[k] = SubSeq(ev, e[k - 1] + 1, e[k])
      <4> TAKE k \in 2..m
      <4>1. k - 1 \in 1..m /\ k - 1 # m /\ (k - 1) + 1 = k /\ k \in 1..m
        BY <1>4
      <4>2. e[k - 1] = s[k] - 1
        BY <1>7, <4>1
      <4>3. e[k - 1] + 1 = s[k] /\ e[k - 1] < e[k]
        BY <1>1, <1>4, <1>6, <4>1, <4>2
      <4> QED
        BY <1>5, <4>1, <4>3
    <3>6. /\ IsList(cs) /\ Len(cs) > 0
          /\ \A k \in 1..Len(cs) : e[k] \in 1..Len(ev)
          /\ e[Len(cs)] = Len(ev)
          /\ \A k \in 2..Len(cs) : e[k - 1] < e[k] /\ cs[k] = SubSeq(ev, e[k - 1] + 1, e[k])
      BY <1>4, <1>8, <1>10, <2>2, <3>3, <3>5
    <3> HIDE DEF n
    <3> QED
      BY <1>1, <3>4, <3>6, Flat
  <2> QED
    BY <2>1, <2>2
<1>12. ASSUME NEW i \in 1..m, NEW j \in 1..m, i < j
       PROVE  cs[j][1].ts - cs[i][Len(cs[i])].ts > gap
  <2>1. i + 1 \in 1..m /\ e[i] = s[i + 1] - 1
    BY <1>4, <1>7, <1>12
  <2>2. s[i + 1] <= s[j] /\ s[i] < s[j] /\ s[i] >= 1 /\ s[j] \in 1..n
    <3>1. i + 1 = j \/ i + 1 < j
      BY <1>4, <1>12
    <3> QED
      BY <1>1, <1>4, <1>12, <2>1, <3>1
  <2>3. s[j] - 1 \in 1..n /\ e[i] \in 1..n /\ e[i] <= s[j] - 1
    BY <1>1, <1>4, <1>6, <2>1, <2>2
  <2>4. ev[s[j]].ts - ev[s[j] - 1].ts > gap
    <3>1. s[j] \in S /\ s[j] # 1
      BY <1>4, <2>2
    <3> QED
      BY <3>1 DEF Starts, S
  <2>5. ev[e[i]].ts <= ev[s[j] - 1].ts /\ {ev[e[i]].ts, ev[s[j] - 1].ts, ev[s[j]].ts} \subseteq Nat
    BY <2>2, <2>3 DEF Ascending
  <2>6. ev[s[j]].ts - ev[e[i]].ts > gap
    BY <2>4, <2>5
  <2> QED
    BY <1>9, <2>6
<1> QED
  BY <1>10, <1>11, <1>12

-------------------------------------------------------------------------------
(* What the tables count (FailuresAgree, TablesTypeOK).                        *)

\* The counters of writes.
Counters == {"pkt", "ed", "rfl", "pm", "misc"}
AreCounters(w) == w = [c \in Counters |-> w[c]] /\ w.ed \in 0..(BigEvery - 1)

\* A target's reasons and how often each was given.
ReasonsOf(t, target) == {k \in DOMAIN t : k[1] = target}
Numbers(t) == [k \in DOMAIN t |-> t[k].count]
FailureRows(total, reasons) ==
  /\ IsFiniteSet(DOMAIN reasons)
  /\ \A k \in DOMAIN reasons : reasons[k].count \in Nat /\ k[1] \in DOMAIN total
  /\ \A t \in DOMAIN total :
       total[t].count = Cardinality(Tickets(Numbers(reasons), ReasonsOf(reasons, t)))
\* A minute's frames and the histogram of their levels.
MinuteRow(m) == m.hist \in [0..7 -> Nat] /\ m.frames = Cardinality(Tickets(m.hist, 0..7))
MinuteRows(t) == \A k \in DOMAIN t : MinuteRow(t[k])
\* The schedules, each with an id of its own.
ScheduleColumns == {"id", "target", "interval", "enabled", "last", "runs", "acks"}
ScheduleRow(s) == s = [c \in ScheduleColumns |-> s[c]] /\ s.id \in Nat
ScheduleRows(s) ==
  /\ IsList(s) /\ \A i \in DOMAIN s : ScheduleRow(s[i])
  /\ \A i, j \in DOMAIN s : i # j => s[i].id # s[j].id

\* The tables add up.
Books(d) ==
  /\ IsDatabase(d) /\ AreCounters(d.writes)
  /\ FailureRows(d.rfTotal, d.rfReason) /\ Dated(d.rfLog)
  /\ MinuteRows(d.minutes)
  /\ IsList(d.ed) /\ Len(d.ed) <= EdCap + d.writes.ed
  /\ ScheduleRows(d.schedules)

\* Any other table is written.
Aside(d, e) ==
  /\ IsDatabase(e) /\ AreCounters(e.writes) /\ e.writes.ed = d.writes.ed
  /\ e.rfTotal = d.rfTotal /\ e.rfReason = d.rfReason /\ e.rfLog = d.rfLog
  /\ e.minutes = d.minutes /\ e.ed = d.ed /\ e.schedules = d.schedules

\* Which leaves what the tables count as it was.
LEMMA AsideKeeps == ASSUME NEW d, NEW e, Books(d), Aside(d, e) PROVE Books(e)
BY DEF Books, Aside

\* A sum over numbers that are given one by one.
LEMMA OneMore ==
  ASSUME NEW S, IsFiniteSet(S), NEW g, \A x \in S : g[x] \in Nat,
         NEW x, NEW h, \A y \in S : y # x => h[y] = g[y],
         h[x] = IF x \in S THEN g[x] + 1 ELSE 1
  PROVE  Cardinality(Tickets(h, S \cup {x})) = Cardinality(Tickets(g, S)) + 1
<1> DEFINE A == Tickets(g, S)
           p == <<x, h[x]>>
<1>1. Tickets(h, S \cup {x}) = A \cup {p}
  <2>1. ASSUME NEW y \in S, y # x PROVE {y} \X (1..h[y]) = {y} \X (1..g[y])
    BY <2>1
  <2>2. CASE x \in S
    <3>1. 1..h[x] = (1..g[x]) \cup {h[x]}
      BY <2>2
    <3>2. {x} \X (1..h[x]) = ({x} \X (1..g[x])) \cup {p}
      BY <3>1
    <3> QED
      BY <2>1, <2>2, <3>2 DEF Tickets
  <2>3. CASE x \notin S
    <3>1. {x} \X (1..h[x]) = {p}
      BY <2>3
    <3> QED
      BY <2>1, <2>3, <3>1 DEF Tickets
  <2> QED
    BY <2>2, <2>3
<1>2. p \notin A
  <2>1. SUFFICES ASSUME p \in A PROVE FALSE
    OBVIOUS
  <2>2. x \in S /\ h[x] \in 1..g[x]
    BY <2>1 DEF Tickets
  <2> QED
    BY <2>2
<1>3. IsFiniteSet(A) /\ Cardinality(A) \in Nat
  BY TicketsAre
<1> HIDE DEF A, p
<1> QED
  BY <1>1, <1>2, <1>3, FS_AddElement DEF A

\* The tables of an empty database.
LEMMA EmptyBooks ==
  /\ FailureRows(<<>>, <<>>) /\ Dated(<<>>) /\ MinuteRows(<<>>) /\ IsList(<<>>)
  /\ Len(<<>>) = 0 /\ ScheduleRows(<<>>)
<1>1. DOMAIN <<>> = {} /\ IsFiniteSet({}) /\ IsList(<<>>) /\ Len(<<>>) = 0
  BY FS_EmptySet, Lists
<1> QED
  BY <1>1 DEF FailureRows, Dated, MinuteRows, ScheduleRows

\* The caps are positive.
LEMMA CapsAre == BigEvery \in Nat \ {0} /\ EdCap \in Nat \ {0}
BY StoreAssumption DEF StoreAssumption

\* A database when it is created and when it is reset.
LEMMA ResetBooks == Books(Empty) /\ \A d : Books(d) => Books(Reset(d))
<1>1. Books(Empty)
  <2>1. /\ IsDatabase(Empty) /\ Empty.writes = NoWrites
        /\ Empty.rfTotal = <<>> /\ Empty.rfReason = <<>> /\ Empty.rfLog = <<>>
        /\ Empty.minutes = <<>> /\ Empty.ed = <<>> /\ Empty.schedules = <<>>
    BY DEF IsDatabase, Empty, Tables
  <2>2. AreCounters(NoWrites) /\ NoWrites.ed = 0
    BY CapsAre DEF AreCounters, NoWrites, Counters
  <2> QED
    BY <2>1, <2>2, EmptyBooks, CapsAre DEF Books
<1>2. ASSUME NEW d, Books(d) PROVE Books(Reset(d))
  <2> DEFINE e == Reset(d)
  <2>1. /\ IsDatabase(e) /\ e.writes = d.writes /\ e.minutes = d.minutes
        /\ e.rfTotal = <<>> /\ e.rfReason = <<>> /\ e.rfLog = <<>>
        /\ e.ed = <<>> /\ e.schedules = <<>>
    BY DEF IsDatabase, Empty, Tables, Reset
  <2> HIDE DEF e
  <2>2. AreCounters(d.writes) /\ MinuteRows(d.minutes) /\ d.writes.ed \in Nat
    BY <1>2, CapsAre DEF Books, AreCounters
  <2> QED
    BY <2>1, <2>2, EmptyBooks, CapsAre DEF Books, e
<1> QED
  BY <1>1, <1>2

\* The caps and the counters.
LEMMA BoundBooks == ASSUME NEW d, Books(d) PROVE Aside(d, Bound(d))
BY DEF Bound, Books, IsDatabase, Tables, Aside

\* The pruning that comes with the frames.
LEMMA MaintainBooks == ASSUME NEW d, Books(d) PROVE Books(Maintain(d))
<1> DEFINE m == [d EXCEPT !.writes.misc = Count(@, MiscEvery)]
<1>1. Aside(d, m)
  <2>1. /\ IsDatabase(m) /\ m.writes = [d.writes EXCEPT !.misc = Count(@, MiscEvery)]
        /\ m.rfTotal = d.rfTotal /\ m.rfReason = d.rfReason /\ m.rfLog = d.rfLog
        /\ m.minutes = d.minutes /\ m.ed = d.ed /\ m.schedules = d.schedules
    BY DEF Books, IsDatabase, Tables
  <2> HIDE DEF m
  <2>2. AreCounters(m.writes) /\ m.writes.ed = d.writes.ed
    BY <2>1 DEF Books, AreCounters, Counters
  <2> QED
    BY <2>1, <2>2 DEF Aside
<1>2. Books(m)
  BY <1>1, AsideKeeps
<1>3. Books(Bound(m))
  BY <1>2, BoundBooks, AsideKeeps
<1>4. Maintain(d) = m \/ Maintain(d) = Bound(m)
  BY DEF Maintain
<1> QED
  BY <1>2, <1>3, <1>4

\* The newest n rows are n at most.
LEMMA NewestFits ==
  ASSUME NEW s, IsList(s), NEW n \in Nat
  PROVE  IsList(Newest(s, n)) /\ Len(Newest(s, n)) <= n /\ Len(Newest(s, n)) \in Nat
<1>0. Len(s) \in Nat /\ IsList(Newest(s, n))
  BY Newer, Lists
<1>1. CASE Len(s) > n
  <2>1. \A i \in (Len(s) - n + 1)..Len(s) : s[i] \in Range(s)
    BY <1>0, <1>1, Lists DEF IsList
  <2>2. Len(SubSeq(s, Len(s) - n + 1, Len(s))) = n
    BY <1>0, <1>1, <2>1, SubSeqProperties
  <2> QED
    BY <1>0, <1>1, <2>2 DEF Newest
<1>2. CASE ~(Len(s) > n)
  BY <1>0, <1>2 DEF Newest
<1> QED
  BY <1>1, <1>2

\* The database opened by a new process.
LEMMA OpenBooks == ASSUME NEW d, Books(d) PROVE Books(Open(d))
<1> DEFINE b == Bound(d)
           e == Open(d)
<1>1. Aside(d, b)
  BY BoundBooks
<1>2. /\ IsDatabase(e) /\ e.writes = NoWrites /\ e.ed = Newest(d.ed, EdCap)
      /\ e.rfTotal = d.rfTotal /\ e.rfReason = d.rfReason /\ e.rfLog = d.rfLog
      /\ e.minutes = d.minutes /\ e.schedules = d.schedules
  <2> HIDE DEF b
  <2> QED
    BY <1>1 DEF Open, IsDatabase, Tables, Aside, b
<1> HIDE DEF b, e
<1>3. AreCounters(NoWrites) /\ NoWrites.ed = 0
  BY CapsAre DEF AreCounters, NoWrites, Counters
<1>4. IsList(Newest(d.ed, EdCap)) /\ Len(Newest(d.ed, EdCap)) <= EdCap
  BY NewestFits, CapsAre DEF Books
<1> QED
  BY <1>2, <1>3, <1>4, CapsAre DEF Books, e

\* Devices, links, networks, packets, incidents, probes and the log of Home
\* Assistant are kept aside.
LEMMA OtherTables ==
  ASSUME NEW d, Books(d), NEW v
  PROVE  /\ Aside(d, [d EXCEPT !.devices = v]) /\ Aside(d, [d EXCEPT !.links = v])
         /\ Aside(d, [d EXCEPT !.pans = v]) /\ Aside(d, [d EXCEPT !.incidents = v])
         /\ Aside(d, [d EXCEPT !.probes = v]) /\ Aside(d, [d EXCEPT !.haLog = v])
<1>1. Aside(d, [d EXCEPT !.devices = v])
  BY DEF Books, IsDatabase, Tables, Aside
<1>2. Aside(d, [d EXCEPT !.links = v])
  BY DEF Books, IsDatabase, Tables, Aside
<1>3. Aside(d, [d EXCEPT !.pans = v])
  BY DEF Books, IsDatabase, Tables, Aside
<1>4. Aside(d, [d EXCEPT !.incidents = v])
  BY DEF Books, IsDatabase, Tables, Aside
<1>5. Aside(d, [d EXCEPT !.probes = v])
  BY DEF Books, IsDatabase, Tables, Aside
<1>6. Aside(d, [d EXCEPT !.haLog = v])
  BY DEF Books, IsDatabase, Tables, Aside
<1> QED
  BY <1>1, <1>2, <1>3, <1>4, <1>5, <1>6

\* A device, a link, what is learned of them and a label: aside.
LEMMA DeviceBooks ==
  ASSUME NEW d, Books(d)
  PROVE  /\ \A a, f, pan : Books(UpsertDevice(d, a, f, pan))
         /\ \A s, t, f, layer : Books(UpsertLink(d, s, t, f, layer))
         /\ \A a, ext : Books(SetDeviceExt(d, a, ext))
         /\ \A a, name : Books(SetDeviceName(d, a, name))
         /\ \A pan, label : Books(LabelPan(d, pan, label))
<1>1. ASSUME NEW v PROVE /\ Books([d EXCEPT !.devices = v]) /\ Books([d EXCEPT !.links = v])
                         /\ Books([d EXCEPT !.pans = v])
  BY OtherTables, AsideKeeps
<1>2. ASSUME NEW a, NEW f, NEW pan PROVE Books(UpsertDevice(d, a, f, pan))
  <2>1. \E v : UpsertDevice(d, a, f, pan) = [d EXCEPT !.devices = v]
    BY Zenon DEF UpsertDevice
  <2> QED
    BY <1>1, <2>1
<1>3. ASSUME NEW s, NEW t, NEW f, NEW layer PROVE Books(UpsertLink(d, s, t, f, layer))
  <2>1. \E v : UpsertLink(d, s, t, f, layer) = [d EXCEPT !.links = v]
    BY Zenon DEF UpsertLink
  <2> QED
    BY <1>1, <2>1
<1>4. ASSUME NEW a, NEW ext PROVE Books(SetDeviceExt(d, a, ext))
  <2>1. CASE ext = 0 \/ ~Has(d.devices, a)
    BY <2>1 DEF SetDeviceExt
  <2>2. CASE ~(ext = 0 \/ ~Has(d.devices, a))
    <3> DEFINE q == [d.devices[a] EXCEPT !.ext = ext]
    <3>1. SetDeviceExt(d, a, ext) = [d EXCEPT !.devices = [@ EXCEPT ![a] = q]]
      BY <2>2 DEF SetDeviceExt
    <3> QED
      BY <1>1, <3>1
  <2> QED
    BY <2>1, <2>2
<1>5. ASSUME NEW a, NEW name PROVE Books(SetDeviceName(d, a, name))
  <2>1. CASE name = "" \/ ~Has(d.devices, a) \/ d.devices[a].name # ""
    BY <2>1 DEF SetDeviceName
  <2>2. CASE ~(name = "" \/ ~Has(d.devices, a) \/ d.devices[a].name # "")
    <3> DEFINE q == [d.devices[a] EXCEPT !.name = name]
    <3>1. SetDeviceName(d, a, name) = [d EXCEPT !.devices = [@ EXCEPT ![a] = q]]
      BY <2>2 DEF SetDeviceName
    <3> QED
      BY <1>1, <3>1
  <2> QED
    BY <2>1, <2>2
<1>6. ASSUME NEW pan, NEW label PROVE Books(LabelPan(d, pan, label))
  <2>1. CASE label = "" \/ ~Has(d.pans, pan)
    BY <2>1 DEF LabelPan
  <2>2. CASE ~(label = "" \/ ~Has(d.pans, pan))
    <3> DEFINE q == [d.pans[pan] EXCEPT !.label = label]
    <3>1. LabelPan(d, pan, label) = [d EXCEPT !.pans = [@ EXCEPT ![pan] = q]]
      BY <2>2 DEF LabelPan
    <3> QED
      BY <1>1, <3>1
  <2> QED
    BY <2>1, <2>2
<1> QED
  BY <1>2, <1>3, <1>4, <1>5, <1>6

\* A level falls into one of eight bins.
LEMMA BinIs == ASSUME NEW rssi \in Int PROVE Bin(rssi) \in 0..7
BY DEF Bin

\* A minute's row with one more frame, and a minute's first.
LEMMA MinuteCounts ==
  ASSUME NEW b \in 0..7
  PROVE  /\ \A rssi : MinuteRow([frames |-> 1, rssi |-> rssi, hist |-> [NoHist EXCEPT ![b] = 1]])
         /\ \A m, rssi : MinuteRow(m) =>
              MinuteRow([frames |-> m.frames + 1, rssi |-> rssi, hist |-> [m.hist EXCEPT ![b] = @ + 1]])
<1>0. IsFiniteSet(0..7) /\ (0..7) \cup {b} = 0..7
  <2>1. 0 \in Int /\ 7 \in Int
    OBVIOUS
  <2>2. IsFiniteSet(0..7)
    BY <2>1, FS_Interval
  <2> QED
    BY <2>2
<1>1. ASSUME NEW g \in [0..7 -> Nat]
      PROVE  /\ [g EXCEPT ![b] = @ + 1] \in [0..7 -> Nat]
             /\ Cardinality(Tickets([g EXCEPT ![b] = @ + 1], 0..7)) = Cardinality(Tickets(g, 0..7)) + 1
  <2> DEFINE h == [g EXCEPT ![b] = @ + 1]
  <2>1. h \in [0..7 -> Nat] /\ h[b] = g[b] + 1 /\ \A y \in 0..7 : y # b => h[y] = g[y]
    OBVIOUS
  <2> HIDE DEF h
  <2>2. Cardinality(Tickets(h, (0..7) \cup {b})) = Cardinality(Tickets(g, 0..7)) + 1
    BY <1>0, <2>1, OneMore
  <2> QED
    BY <1>0, <2>1, <2>2 DEF h
<1>2. NoHist \in [0..7 -> Nat] /\ [NoHist EXCEPT ![b] = 1] = [NoHist EXCEPT ![b] = @ + 1]
  <2>1. NoHist \in [0..7 -> Nat] /\ NoHist[b] = 0
    BY DEF NoHist
  <2>2. NoHist[b] + 1 = 1
    BY <2>1
  <2> QED
    BY <2>1, <2>2
<1>3. Cardinality(Tickets(NoHist, 0..7)) = 0
  <2>1. Tickets(NoHist, 0..7) = {}
    BY DEF Tickets, NoHist
  <2> QED
    BY <2>1, FS_EmptySet
<1>4. ASSUME NEW rssi
      PROVE  MinuteRow([frames |-> 1, rssi |-> rssi, hist |-> [NoHist EXCEPT ![b] = 1]])
  <2> DEFINE h == [NoHist EXCEPT ![b] = @ + 1]
  <2>1. h \in [0..7 -> Nat] /\ Cardinality(Tickets(h, 0..7)) = Cardinality(Tickets(NoHist, 0..7)) + 1
    BY <1>1, <1>2, Zenon
  <2>2. [NoHist EXCEPT ![b] = 1] = h
    BY <1>2, Zenon
  <2> HIDE DEF h
  <2>3. Cardinality(Tickets(h, 0..7)) = 1
    BY <1>3, <2>1
  <2>4. MinuteRow([frames |-> 1, rssi |-> rssi, hist |-> h])
    BY <2>1, <2>3 DEF MinuteRow
  <2> QED
    BY <2>2, <2>4
<1>5. ASSUME NEW m, NEW rssi, MinuteRow(m)
      PROVE  MinuteRow([frames |-> m.frames + 1, rssi |-> rssi, hist |-> [m.hist EXCEPT ![b] = @ + 1]])
  <2> DEFINE g == m.hist
             h == [g EXCEPT ![b] = @ + 1]
  <2>1. g \in [0..7 -> Nat] /\ m.frames = Cardinality(Tickets(g, 0..7))
    BY <1>5 DEF MinuteRow
  <2>2. h \in [0..7 -> Nat] /\ Cardinality(Tickets(h, 0..7)) = Cardinality(Tickets(g, 0..7)) + 1
    BY <1>1, <2>1, Zenon
  <2> HIDE DEF h, g
  <2>3. MinuteRow([frames |-> m.frames + 1, rssi |-> rssi, hist |-> h])
    BY <2>1, <2>2 DEF MinuteRow
  <2> QED
    BY <2>3 DEF h, g
<1> QED
  BY <1>4, <1>5

\* A frame is logged.
LEMMA LogBooks == ASSUME NEW d, Books(d), NEW f, f.rssi \in Int PROVE Books(Log(d, f))
<1> DEFINE pan == SeenPan(f.mac)
           row == [ts |-> f.ts, src |-> f.mac.src, dst |-> f.mac.dst, rssi |-> f.rssi,
                   lqi |-> f.lqi, decrypted |-> f.nwk.decrypted]
           key == <<f.ts \div 60, pan, f.ch>>
           one == [frames |-> 1, rssi |-> f.rssi, hist |-> [NoHist EXCEPT ![Bin(f.rssi)] = 1]]
           again(r) == [frames |-> r.frames + 1, rssi |-> r.rssi + f.rssi,
                        hist |-> [r.hist EXCEPT ![Bin(f.rssi)] = @ + 1]]
           new == IF Has(d.minutes, key) THEN again(d.minutes[key]) ELSE one
           minutes == Put(d.minutes, key, new)
           packets == Append(d.packets, row)
           newPackets == IF Due(d.writes.pkt, BigEvery) THEN Newest(packets, PacketCap) ELSE packets
           newPans == IF pan = Absent THEN d.pans ELSE
             Upsert(d.pans, pan, [count |-> 1, last |-> f.ts, ch |-> f.ch, label |-> ""],
               LAMBDA r : [r EXCEPT !.count = @ + 1, !.last = f.ts, !.ch = f.ch])
           newMinutes == IF Due(d.writes.pm, BigEvery)
                         THEN Delete(minutes, LAMBDA k : k[1] < key[1] - KeepBuckets) ELSE minutes
           e == Log(d, f)
<1>1. e = [d EXCEPT !.packets = newPackets, !.pans = newPans, !.minutes = newMinutes,
                    !.writes.pkt = Count(@, BigEvery), !.writes.pm = Count(@, BigEvery)]
  BY Zenon DEF Log, Upsert
<1>2. MinuteRow(new)
  <2>1. Bin(f.rssi) \in 0..7
    BY BinIs
  <2>2. MinuteRow(one) /\ \A m : MinuteRow(m) => MinuteRow(again(m))
    BY <2>1, MinuteCounts, Zenon
  <2>3. Has(d.minutes, key) => MinuteRow(d.minutes[key])
    BY DEF Has, Books, MinuteRows
  <2> HIDE DEF one, again, key
  <2> QED
    BY <2>2, <2>3
<1> HIDE DEF new, key
<1>3. MinuteRows(minutes)
  <2>1. /\ DOMAIN minutes = DOMAIN d.minutes \cup {key} /\ minutes[key] = new
        /\ \A k \in DOMAIN d.minutes : k # key => minutes[k] = d.minutes[k]
    BY DEF Put, Overlay, Has
  <2>2. \A k \in DOMAIN d.minutes : MinuteRow(d.minutes[k])
    BY DEF Books, MinuteRows
  <2> HIDE DEF minutes
  <2> QED
    BY <1>2, <2>1, <2>2 DEF MinuteRows
<1> HIDE DEF minutes
<1>4. MinuteRows(newMinutes)
  BY <1>3 DEF MinuteRows, Delete
<1> HIDE DEF newPackets, newPans, newMinutes, e
<1>5. /\ IsDatabase(e)
      /\ e.writes = [[d.writes EXCEPT !.pkt = Count(@, BigEvery)] EXCEPT !.pm = Count(@, BigEvery)]
      /\ e.rfTotal = d.rfTotal /\ e.rfReason = d.rfReason /\ e.rfLog = d.rfLog
      /\ e.minutes = newMinutes /\ e.ed = d.ed /\ e.schedules = d.schedules
  <2>1. IsDatabase(d)
    BY DEF Books
  <2> QED
    BY <1>1, <2>1 DEF IsDatabase, Tables
<1>6. AreCounters(e.writes) /\ e.writes.ed = d.writes.ed
  BY <1>5 DEF Books, AreCounters, Counters
<1> QED
  BY <1>4, <1>5, <1>6 DEF Books, e

\* A frame, all of it.
LEMMA FrameBooks ==
  ASSUME NEW d, Books(d), NEW f, f.rssi \in Int
  PROVE  Books(IngestFrame(d, f))
<1>1. Books(Maintain(Log(d, f)))
  BY LogBooks, MaintainBooks
<1>2. ASSUME NEW b, Books(b) PROVE Books(Hop(b, f.mac, f))
  <2> DEFINE m == f.mac
             b1 == IF m.src \in {Absent, Broadcast} THEN b ELSE UpsertDevice(b, m.src, f, SeenPan(m))
  <2>1. Books(b1)
    BY <1>2, DeviceBooks
  <2> HIDE DEF b1
  <2>2. Hop(b, m, f) = b1 \/ Hop(b, m, f) = UpsertLink(b1, m.src, m.dst, f, "mac")
    BY DEF Hop, b1
  <2> QED
    BY <2>1, <2>2, DeviceBooks
<1>3. ASSUME NEW b, Books(b) PROVE Books(Route(b, f.nwk, f))
  <2> DEFINE n == f.nwk
             b1 == IF IsDevice(n.src) THEN UpsertDevice(b, n.src, f, SeenPan(f.mac)) ELSE b
  <2>1. Books(b1)
    BY <1>3, DeviceBooks
  <2> HIDE DEF b1
  <2>2. Route(b, n, f) = b1 \/ Route(b, n, f) = UpsertLink(b1, n.src, n.dst, f, "nwk")
    BY DEF Route, b1
  <2> QED
    BY <2>1, <2>2, DeviceBooks
<1> QED
  BY <1>1, <1>2, <1>3 DEF IngestFrame

\* An incident, a probe's answer, a line of a log: aside.
LEMMA ReportBooks ==
  ASSUME NEW d, Books(d)
  PROVE  /\ \A row : Books(IngestIncident(d, row))
         /\ \A ts, target, acked : Books(IngestProbe(d, ts, target, acked))
         /\ \A key, ts, level, about, n : Books(IngestHALog(d, key, ts, level, about, n))
<1>1. ASSUME NEW v PROVE /\ Books(Maintain([d EXCEPT !.incidents = v]))
                         /\ Books(Maintain([d EXCEPT !.probes = v]))
                         /\ Books(Maintain([d EXCEPT !.haLog = v]))
  BY OtherTables, AsideKeeps, MaintainBooks
<1>2. ASSUME NEW row PROVE Books(IngestIncident(d, row))
  BY <1>1 DEF IngestIncident, InsertIncident
<1>3. ASSUME NEW ts, NEW target, NEW acked PROVE Books(IngestProbe(d, ts, target, acked))
  BY <1>1 DEF IngestProbe
<1>4. ASSUME NEW key, NEW ts, NEW level, NEW about, NEW n
      PROVE  Books(IngestHALog(d, key, ts, level, about, n))
  <2>1. \E v : IngestHALog(d, key, ts, level, about, n) = Maintain([d EXCEPT !.haLog = v])
    BY Zenon DEF IngestHALog
  <2> QED
    BY <1>1, <2>1
<1> QED
  BY <1>2, <1>3, <1>4

\* A route failure is counted: once for its target, once for the reason given.
LEMMA FailureBooks ==
  ASSUME NEW d, Books(d), NEW target, NEW reporter, NEW reason, NEW ts \in Nat
  PROVE  Books(IngestRouteFailure(d, target, reporter, reason, ts))
<1> DEFINE T == d.rfTotal
           R == d.rfReason
           key == <<target, reason>>
           event == [ts |-> ts, target |-> target, reporter |-> reporter, reason |-> reason]
           rows == Append(d.rfLog, event)
           one == [count |-> 1, reason |-> reason, last |-> ts]
           more == [count |-> T[target].count + 1, reason |-> reason, last |-> ts]
           total == IF Has(T, target) THEN more ELSE one
           first == [count |-> 1, last |-> ts]
           again == [count |-> R[key].count + 1, last |-> ts]
           given == IF Has(R, key) THEN again ELSE first
           T1 == Put(T, target, total)
           R1 == Put(R, key, given)
           log == IF Due(d.writes.rfl, BigEvery) THEN Newest(rows, RflCap) ELSE rows
           e == IngestRouteFailure(d, target, reporter, reason, ts)
<1>1. e = [d EXCEPT !.rfTotal = T1, !.rfReason = R1, !.rfLog = log,
                    !.writes.rfl = Count(@, BigEvery)]
  BY Zenon DEF IngestRouteFailure, Upsert
<1>2. /\ total.count = (IF target \in DOMAIN T THEN T[target].count + 1 ELSE 1)
      /\ given.count = (IF key \in DOMAIN R THEN R[key].count + 1 ELSE 1)
  BY DEF Has
<1>3. /\ DOMAIN T1 = DOMAIN T \cup {target} /\ T1[target] = total
      /\ \A t \in DOMAIN T : t # target => T1[t] = T[t]
  <2> HIDE DEF T, total
  <2> QED
    BY DEF Put, Overlay, Has
<1>4. /\ DOMAIN R1 = DOMAIN R \cup {key} /\ R1[key] = given
      /\ \A k \in DOMAIN R : k # key => R1[k] = R[k]
  <2> HIDE DEF R, key, given
  <2> QED
    BY DEF Put, Overlay, Has
<1>5. /\ IsFiniteSet(DOMAIN R)
      /\ \A k \in DOMAIN R : R[k].count \in Nat /\ k[1] \in DOMAIN T
      /\ \A t \in DOMAIN T : T[t].count = Cardinality(Tickets(Numbers(R), ReasonsOf(R, t)))
  BY DEF Books, FailureRows
<1>6. Dated(log)
  <2>1. Dated(rows)
    <3>1. IsList(d.rfLog) /\ Len(d.rfLog) \in Nat /\ DOMAIN d.rfLog = 1..Len(d.rfLog)
      BY Lists DEF Books, Dated
    <3>2. event.ts \in Nat
      OBVIOUS
    <3> HIDE DEF event
    <3>3. /\ IsList(rows) /\ Len(rows) = Len(d.rfLog) + 1 /\ rows[Len(d.rfLog) + 1] = event
          /\ \A i \in 1..Len(d.rfLog) : rows[i] = d.rfLog[i]
      BY <3>1, Appended
    <3> HIDE DEF rows
    <3>4. DOMAIN rows = 1..(Len(d.rfLog) + 1)
      BY <3>3, Lists
    <3> QED
      BY <3>1, <3>2, <3>3, <3>4 DEF Books, Dated
  <2> HIDE DEF rows
  <2>2. Dated(Newest(rows, RflCap))
    <3>1. IsList(rows) /\ RflCap \in Nat /\ Len(rows) \in Nat /\ DOMAIN rows = 1..Len(rows)
      BY <2>1, StoreAssumption, Lists DEF StoreAssumption, Dated
    <3>2. PICK k \in Nat :
            /\ k <= Len(rows) /\ IsList(Newest(rows, RflCap))
            /\ Len(Newest(rows, RflCap)) = Len(rows) - k
            /\ \A i \in 1..(Len(rows) - k) : Newest(rows, RflCap)[i] = rows[i + k]
      BY <3>1, Newer
    <3>3. DOMAIN Newest(rows, RflCap) = 1..(Len(rows) - k)
      BY <3>2, Lists
    <3> QED
      BY <2>1, <3>1, <3>2, <3>3 DEF Dated
  <2> QED
    BY <2>1, <2>2
<1> HIDE DEF T, R, key, total, given, T1, R1, log, e
<1>7. IsFiniteSet(DOMAIN R1)
  BY <1>4, <1>5, FS_AddElement
<1>8. key[1] = target
  BY DEF key
<1>9. \A k \in DOMAIN R1 : R1[k].count \in Nat /\ k[1] \in DOMAIN T1
  BY <1>2, <1>3, <1>4, <1>5, <1>8
<1>10. ASSUME NEW t \in DOMAIN T1
       PROVE  T1[t].count = Cardinality(Tickets(Numbers(R1), ReasonsOf(R1, t)))
  <2> DEFINE S == ReasonsOf(R, t)
             S1 == ReasonsOf(R1, t)
             g == Numbers(R)
             h == Numbers(R1)
  <2>1. S \subseteq DOMAIN R /\ IsFiniteSet(S) /\ \A k \in S : g[k] \in Nat /\ g[k] = R[k].count
    BY <1>5, FS_Subset DEF ReasonsOf, Numbers
  <2>2. /\ \A k \in DOMAIN R : k # key => h[k] = g[k]
        /\ h[key] = IF key \in DOMAIN R THEN g[key] + 1 ELSE 1
    BY <1>2, <1>4 DEF Numbers
  <2>3. S1 = IF t = target THEN S \cup {key} ELSE S
    BY <1>4, <1>8 DEF ReasonsOf
  <2>4. key \in S <=> key \in DOMAIN R /\ t = target
    BY <1>8 DEF ReasonsOf
  <2>5. t \in DOMAIN T => T[t].count = Cardinality(Tickets(g, S))
    BY <1>5
  <2>6. t \notin DOMAIN T => S = {}
    BY <1>5 DEF ReasonsOf
  <2> HIDE DEF S, S1, g, h
  <2>7. CASE t = target
    <3>1. Cardinality(Tickets(h, S \cup {key})) = Cardinality(Tickets(g, S)) + 1
      BY <2>1, <2>2, <2>4, <2>7, OneMore
    <3>2. S = {} => Cardinality(Tickets(g, S)) = 0
      BY <2>1, TicketsAre
    <3> QED
      BY <1>2, <1>3, <2>3, <2>5, <2>6, <2>7, <3>1, <3>2 DEF S1, h
  <2>8. CASE t # target
    <3>1. \A k \in S : h[k] = g[k]
      BY <2>1, <2>2, <2>4, <2>8
    <3>2. Tickets(h, S) = Tickets(g, S)
      BY <3>1 DEF Tickets
    <3> QED
      BY <1>3, <2>3, <2>5, <2>8, <3>2 DEF S1, h
  <2> QED
    BY <2>7, <2>8
<1>11. FailureRows(T1, R1)
  BY <1>7, <1>9, <1>10 DEF FailureRows
<1>12. /\ IsDatabase(e) /\ e.writes = [d.writes EXCEPT !.rfl = Count(@, BigEvery)]
       /\ e.rfTotal = T1 /\ e.rfReason = R1 /\ e.rfLog = log
       /\ e.minutes = d.minutes /\ e.ed = d.ed /\ e.schedules = d.schedules
  <2>1. IsDatabase(d)
    BY DEF Books
  <2> QED
    BY <1>1, <2>1 DEF IsDatabase, Tables
<1>13. AreCounters(e.writes) /\ e.writes.ed = d.writes.ed
  BY <1>12 DEF Books, AreCounters, Counters
<1> QED
  BY <1>6, <1>11, <1>12, <1>13 DEF Books, e

\* A sample of the energy detector.
LEMMA SampleBooks ==
  ASSUME NEW d, Books(d), NEW ts, NEW ch, NEW ed
  PROVE  Books(IngestED(d, ts, ch, ed))
<1> DEFINE row == [ts |-> ts, ch |-> ch, ed |-> ed]
           rows == Append(d.ed, row)
           new == IF Due(d.writes.ed, BigEvery) THEN Newest(rows, EdCap) ELSE rows
           e == IngestED(d, ts, ch, ed)
           w == d.writes.ed
<1>1. e = [d EXCEPT !.ed = new, !.writes.ed = Count(@, BigEvery)]
  BY Zenon DEF IngestED
<1>2. IsList(rows) /\ Len(rows) = Len(d.ed) + 1 /\ Len(d.ed) \in Nat
  BY Appended, Lists DEF Books
<1>3. w \in 0..(BigEvery - 1) /\ Len(d.ed) <= EdCap + w
  BY DEF Books, AreCounters
<1> HIDE DEF rows, w
<1>4. Count(w, BigEvery) = IF Due(w, BigEvery) THEN 0 ELSE w + 1
  <2>1. w + 1 = BigEvery \/ w + 1 < BigEvery
    BY <1>3, CapsAre
  <2>2. w + 1 = BigEvery => (w + 1) % BigEvery = 0
    BY <1>3, CapsAre
  <2>3. w + 1 < BigEvery => (w + 1) % BigEvery = w + 1
    BY <1>3, CapsAre
  <2> QED
    BY <1>3, <2>1, <2>2, <2>3, CapsAre DEF Due, Count
<1>5. IsList(new) /\ Len(new) <= EdCap + Count(w, BigEvery)
  <2>1. CASE Due(w, BigEvery)
    BY <1>2, <1>4, <2>1, CapsAre, NewestFits DEF w
  <2>2. CASE ~Due(w, BigEvery)
    BY <1>2, <1>3, <1>4, <2>2, CapsAre DEF w
  <2> QED
    BY <2>1, <2>2
<1> HIDE DEF new, e
<1>6. Count(w, BigEvery) \in 0..(BigEvery - 1)
  <2>1. w + 1 < BigEvery => (w + 1) % BigEvery = w + 1
    BY <1>3, CapsAre
  <2>2. w + 1 < BigEvery \/ w + 1 = BigEvery
    BY <1>3, CapsAre
  <2>3. w + 1 = BigEvery => (w + 1) % BigEvery = 0
    BY <1>3, CapsAre
  <2>4. Count(w, BigEvery) = (w + 1) % BigEvery
    BY DEF Count
  <2> QED
    BY <1>3, <2>1, <2>2, <2>3, <2>4, CapsAre
<1>7. /\ IsDatabase(e) /\ e.writes = [d.writes EXCEPT !.ed = Count(@, BigEvery)]
      /\ e.rfTotal = d.rfTotal /\ e.rfReason = d.rfReason /\ e.rfLog = d.rfLog
      /\ e.minutes = d.minutes /\ e.ed = new /\ e.schedules = d.schedules
  <2>1. IsDatabase(d)
    BY DEF Books
  <2> QED
    BY <1>1, <2>1 DEF IsDatabase, Tables
<1>8. e.writes.ed = Count(w, BigEvery) /\ AreCounters(e.writes)
  BY <1>6, <1>7 DEF Books, AreCounters, Counters, w
<1> QED
  BY <1>5, <1>7, <1>8 DEF Books, e

\* What becomes of the schedules: each has an id of its own.
LEMMA ScheduleBooks ==
  ASSUME NEW d, Books(d), NEW s, ScheduleRows(s)
  PROVE  Books([d EXCEPT !.schedules = s])
<1> DEFINE e == [d EXCEPT !.schedules = s]
<1>1. /\ IsDatabase(e) /\ e.writes = d.writes
      /\ e.rfTotal = d.rfTotal /\ e.rfReason = d.rfReason /\ e.rfLog = d.rfLog
      /\ e.minutes = d.minutes /\ e.ed = d.ed /\ e.schedules = s
  BY DEF Books, IsDatabase, Tables
<1> HIDE DEF e
<1> QED
  BY <1>1 DEF Books, e

\* A schedule that is added gets an id above all others.
LEMMA AddBooks ==
  ASSUME NEW d, Books(d), NEW target, NEW interval
  PROVE  Books(AddSchedule(d, 1 + Max({s.id : s \in Range(d.schedules)} \cup {0}), target, interval))
<1> DEFINE s == d.schedules
           ids == {r.id : r \in Range(s)}
           id == 1 + Max(ids \cup {0})
           new == [id |-> id, target |-> target, interval |-> interval,
                   enabled |-> TRUE, last |-> 0, runs |-> 0, acks |-> 0]
           t == Append(s, new)
<1>1. AddSchedule(d, id, target, interval) = [d EXCEPT !.schedules = t]
  BY DEF AddSchedule
<1>2. /\ IsList(s) /\ Len(s) \in Nat /\ DOMAIN s = 1..Len(s)
      /\ \A i \in 1..Len(s) : ScheduleRow(s[i]) /\ s[i].id \in Nat
      /\ \A i, j \in 1..Len(s) : i # j => s[i].id # s[j].id
  BY Lists DEF Books, ScheduleRows, ScheduleRow
<1>3. id \in Nat /\ \A i \in 1..Len(s) : s[i].id < id
  <2> DEFINE S == ids \cup {0}
             f == [i \in 1..Len(s) |-> s[i].id]
  <2>1. ids = {s[i].id : i \in 1..Len(s)}
    BY <1>2, Zenon DEF Range
  <2>2. f \in Surjection(1..Len(s), ids)
    BY <2>1 DEF Surjection
  <2>3. IsFiniteSet(ids)
    <3>1. IsFiniteSet(1..Len(s))
      BY <1>2, FS_Interval
    <3> HIDE DEF ids, f
    <3> QED
      BY <2>2, <3>1, FS_Surjection
  <2>4. ids \subseteq Nat /\ \A i \in 1..Len(s) : s[i].id \in ids
    BY <1>2, <2>1
  <2> HIDE DEF ids
  <2>5. S \in SUBSET Int /\ IsFiniteSet(S) /\ S # {} /\ S \subseteq Nat
    BY <2>3, <2>4, FS_AddElement
  <2> HIDE DEF S
  <2>6. Max(S) \in S /\ \A y \in S : Max(S) >= y
    BY <2>5, HighestOf
  <2>7. id = 1 + Max(S) /\ \A i \in 1..Len(s) : s[i].id \in S
    BY <2>4 DEF S
  <2> DEFINE top == Max(S)
  <2> HIDE DEF top
  <2>8. top \in Nat /\ id = 1 + top /\ \A y \in S : top >= y /\ y \in Nat
    BY <2>5, <2>6, <2>7 DEF top
  <2> HIDE DEF id
  <2> QED
    BY <2>7, <2>8
<1> HIDE DEF id
<1>4. ScheduleRow(new) /\ new.id = id
  BY <1>3 DEF ScheduleRow, ScheduleColumns
<1> HIDE DEF new, s
<1>5. /\ IsList(t) /\ Len(t) = Len(s) + 1 /\ t[Len(s) + 1] = new
      /\ \A i \in 1..Len(s) : t[i] = s[i]
  BY <1>2, Appended
<1> HIDE DEF t
<1>6. DOMAIN t = 1..(Len(s) + 1)
  BY <1>5, Lists
<1>7. \A i \in DOMAIN t : ScheduleRow(t[i])
  BY <1>2, <1>4, <1>5, <1>6
<1>8. \A i, j \in DOMAIN t : i # j => t[i].id # t[j].id
  BY <1>2, <1>3, <1>4, <1>5, <1>6
<1>9. ScheduleRows(t)
  BY <1>5, <1>7, <1>8 DEF ScheduleRows
<1>10. Books([d EXCEPT !.schedules = t])
  BY <1>9, ScheduleBooks
<1> QED
  BY <1>1, <1>10 DEF id, s

\* Those that are left when one is deleted are told apart as before.
LEMMA DropBooks == ASSUME NEW d, Books(d), NEW id PROVE Books(DeleteSchedule(d, id))
<1> DEFINE s == d.schedules
           S == {i \in DOMAIN s : s[i].id # id}
           at == InOrder(S, <)
           t == [k \in DOMAIN at |-> s[at[k]]]
<1>1. DeleteSchedule(d, id) = [d EXCEPT !.schedules = t]
  BY Zenon DEF DeleteSchedule, Where
<1>2. /\ IsList(s) /\ Len(s) \in Nat /\ DOMAIN s = 1..Len(s)
      /\ \A i \in 1..Len(s) : ScheduleRow(s[i])
      /\ \A i, j \in 1..Len(s) : i # j => s[i].id # s[j].id
  BY Lists DEF Books, ScheduleRows
<1>3. S \in SUBSET (1..Len(s))
  BY <1>2
<1> HIDE DEF S, s
<1>4. S \in SUBSET Int /\ IsFiniteSet(S)
  <2>1. IsFiniteSet(1..Len(s)) /\ 1..Len(s) \subseteq Int
    BY <1>2, FS_Interval
  <2> QED
    BY <1>3, <2>1, FS_Subset
<1>5. Listed(at, Lower(S), S)
  BY <1>4, AscendingIs
<1> HIDE DEF at
<1>6. /\ Len(at) \in Nat /\ DOMAIN at = 1..Len(at)
      /\ \A k \in 1..Len(at) : at[k] \in 1..Len(s)
  BY <1>3, <1>5 DEF Listed
<1>7. \A k, l \in 1..Len(at) : k # l => at[k] # at[l]
  <2>1. \A k, l \in 1..Len(at) : k < l => at[k] < at[l]
    BY <1>5 DEF Listed, Lower
  <2> QED
    BY <1>6, <2>1
<1>8. /\ t = [k \in 1..Len(at) |-> t[k]] /\ DOMAIN t = 1..Len(at)
      /\ \A k \in 1..Len(at) : t[k] = s[at[k]]
  BY <1>6
<1> HIDE DEF t
<1>9. IsList(t)
  <2>1. \A k \in 1..Len(at) : t[k] \in Range(t)
    BY <1>8 DEF Range
  <2>2. t \in [1..Len(at) -> Range(t)]
    BY <1>8, <2>1
  <2> QED
    BY <1>6, <2>2 DEF IsList
<1>10. ScheduleRows(t)
  <2>1. \A k \in DOMAIN t : ScheduleRow(t[k])
    BY <1>2, <1>6, <1>8
  <2>2. \A k, l \in DOMAIN t : k # l => t[k].id # t[l].id
    BY <1>2, <1>6, <1>7, <1>8
  <2> QED
    BY <1>9, <2>1, <2>2 DEF ScheduleRows
<1> QED
  BY <1>1, <1>10, ScheduleBooks

\* A schedule that is switched or has run keeps its id.
LEMMA UpdateBooks ==
  ASSUME NEW d, Books(d), NEW u,
         u = [i \in DOMAIN d.schedules |-> u[i]],
         \A i \in DOMAIN d.schedules : ScheduleRow(u[i]) /\ u[i].id = d.schedules[i].id
  PROVE  Books([d EXCEPT !.schedules = u])
<1> DEFINE s == d.schedules
<1>1. /\ Len(s) \in Nat /\ DOMAIN s = 1..Len(s)
      /\ \A i, j \in 1..Len(s) : i # j => s[i].id # s[j].id
  BY Lists DEF Books, ScheduleRows
<1> HIDE DEF s
<1>2. DOMAIN u = 1..Len(s) /\ u = [i \in 1..Len(s) |-> u[i]]
  BY <1>1 DEF s
<1>3. IsList(u)
  <2>1. \A k \in 1..Len(s) : u[k] \in Range(u)
    BY <1>2 DEF Range
  <2>2. u \in [1..Len(s) -> Range(u)]
    BY <1>2, <2>1
  <2> QED
    BY <1>1, <2>2 DEF IsList
<1>4. ScheduleRows(u)
  <2>1. \A i \in DOMAIN s : ScheduleRow(u[i]) /\ u[i].id = s[i].id
    BY DEF s
  <2> QED
    <3>1. \A i \in DOMAIN u : ScheduleRow(u[i])
      BY <1>1, <1>2, <2>1
    <3>2. \A i, j \in DOMAIN u : i # j => u[i].id # u[j].id
      <4> TAKE i, j \in DOMAIN u
      <4>1. i \in 1..Len(s) /\ j \in 1..Len(s)
        BY <1>2
      <4> QED
        BY <1>1, <2>1, <4>1
    <3> QED
      BY <1>3, <3>1, <3>2 DEF ScheduleRows
<1> QED
  BY <1>4, ScheduleBooks

\* A row that is switched is still one, with its id.
LEMMA RowSwitched ==
  ASSUME NEW r, ScheduleRow(r), NEW on
  PROVE  ScheduleRow([r EXCEPT !.enabled = on]) /\ [r EXCEPT !.enabled = on].id = r.id
BY DEF ScheduleRow, ScheduleColumns

\* Switched on or off, and marked as run.
LEMMA ToggleBooks ==
  ASSUME NEW d, Books(d)
  PROVE  /\ \A id, on : Books(SetScheduleEnabled(d, id, on))
         /\ \A ids, ts : Books(MarkScheduleRun(d, ids, ts, FALSE))
<1> DEFINE s == d.schedules
<1>0. \A i \in DOMAIN s : ScheduleRow(s[i])
  BY DEF Books, ScheduleRows
<1>1. ASSUME NEW id, NEW on PROVE Books(SetScheduleEnabled(d, id, on))
  <2> DEFINE u == [i \in DOMAIN s |-> IF s[i].id = id THEN [s[i] EXCEPT !.enabled = on] ELSE s[i]]
  <2>1. SetScheduleEnabled(d, id, on) = [d EXCEPT !.schedules = u]
    BY Zenon DEF SetScheduleEnabled, UpdateSchedules
  <2>2. u = [i \in DOMAIN s |-> u[i]] /\ \A i \in DOMAIN s : ScheduleRow(u[i]) /\ u[i].id = s[i].id
    BY <1>0, RowSwitched
  <2> HIDE DEF u
  <2>3. Books([d EXCEPT !.schedules = u])
    BY <2>2, UpdateBooks
  <2> QED
    BY <2>1, <2>3
<1>2. ASSUME NEW ids, NEW ts PROVE Books(MarkScheduleRun(d, ids, ts, FALSE))
  <2> DEFINE ran(r) == [r EXCEPT !.last = ts, !.runs = @ + 1, !.acks = @ + IF FALSE THEN 1 ELSE 0]
             u == [i \in DOMAIN s |-> IF s[i].id \in ids THEN ran(s[i]) ELSE s[i]]
  <2>1. MarkScheduleRun(d, ids, ts, FALSE) = [d EXCEPT !.schedules = u]
    BY Zenon DEF MarkScheduleRun, UpdateSchedules
  <2>2. ASSUME NEW r, ScheduleRow(r) PROVE ScheduleRow(ran(r)) /\ ran(r).id = r.id
    <3> DEFINE n == r.runs + 1
               m == r.acks + IF FALSE THEN 1 ELSE 0
               q == ran(r)
    <3>1. q = [r EXCEPT !.last = ts, !.runs = n, !.acks = m]
      BY Zenon
    <3> HIDE DEF n, m, q
    <3>2. r = [c \in ScheduleColumns |-> r[c]] /\ r.id \in Nat
      BY <2>2 DEF ScheduleRow
    <3>3. q = [c \in ScheduleColumns |-> q[c]] /\ q.id = r.id
      BY <3>1, <3>2 DEF ScheduleColumns
    <3> QED
      BY <3>2, <3>3 DEF q, ScheduleRow
  <2> HIDE DEF ran
  <2>3. u = [i \in DOMAIN s |-> u[i]] /\ \A i \in DOMAIN s : ScheduleRow(u[i]) /\ u[i].id = s[i].id
    BY <1>0, <2>2
  <2> HIDE DEF u
  <2>4. Books([d EXCEPT !.schedules = u])
    BY <2>3, UpdateBooks
  <2> QED
    BY <2>1, <2>4
<1> QED
  BY <1>1, <1>2

\* A round of the detector.
LEMMA DetectBooks == ASSUME NEW d, Books(d), NEW s, NEW now PROVE Books(DetectIncidents(d, s, now))
<1>1. DetectIncidents(d, s, now) = d \/ \E v : DetectIncidents(d, s, now) = [d EXCEPT !.incidents = v]
  BY Zenon DEF DetectIncidents
<1> QED
  BY <1>1, OtherTables, AsideKeeps

\* A frame, with the addresses, the label and the failure it tells of.
LEMMA IngestBooks ==
  ASSUME NEW r, NEW d, Books(d), NEW f, f.rssi \in Int, f.ts \in Nat,
         NEW h, h = Ingest([db |-> d, reg |-> r], f)
  PROVE  Books(h.db)
<1> DEFINE h0 == [db |-> IngestFrame(d, f), reg |-> r]
           h1 == Learn(h0, f.nwk.src, f.nwk.srcExt)
           h2 == Learn(h1, f.nwk.dst, f.nwk.dstExt)
           h3 == Learn(h2, f.announce[1], f.announce[2])
           pan == SeenPan(f.mac)
           d1 == IF pan = Absent THEN h3.db ELSE LabelPan(h3.db, pan, Label(f))
           target == IF f.nwk.dest = Absent THEN f.nwk.dst ELSE f.nwk.dest
           d2 == IF f.nwk.failed = "" THEN d1
                 ELSE IngestRouteFailure(d1, target, f.nwk.src, f.nwk.failed, f.ts)
           rejoin == [ts |-> f.ts, addr |-> Hex(f.mac.src), reason |-> "rejoin",
                      silent |-> 0, ch |-> f.ch, ed |-> 0]
           d3 == IF f.mac.src # Absent /\ JoinRelated(f) THEN IngestIncident(d2, rejoin) ELSE d2
<1>0. ASSUME NEW g, Books(g.db), NEW a, NEW ext PROVE Books(Learn(g, a, ext).db)
  <2>1. CASE ~IsNewExt(g.reg, a, ext)
    BY <1>0, <2>1 DEF Learn
  <2>2. CASE IsNewExt(g.reg, a, ext)
    <3>1. Learn(g, a, ext).db = SetDeviceName(SetDeviceExt(g.db, a, ext), a, NameExt(g.reg, ext))
      BY <2>2 DEF Learn
    <3> QED
      BY <1>0, <3>1, DeviceBooks
  <2> QED
    BY <2>1, <2>2
<1>1. h.db = d3
  <2>1. [[db |-> d, reg |-> r] EXCEPT !.db = IngestFrame(@, f)] = h0
    OBVIOUS
  <2>2. LearnAll([[db |-> d, reg |-> r] EXCEPT !.db = IngestFrame(@, f)], f) = h3
    BY <2>1, Zenon DEF LearnAll
  <2> HIDE DEF h3
  <2>3. h = [reg |-> h3.reg, db |-> d3]
    BY <2>2, Zenon DEF Ingest
  <2> HIDE DEF d3
  <2> QED
    BY <2>3
<1>2. Books(h0.db)
  BY FrameBooks
<1> HIDE DEF h0
<1>3. Books(h1.db)
  BY <1>0, <1>2
<1> HIDE DEF h1
<1>4. Books(h2.db)
  BY <1>0, <1>3
<1> HIDE DEF h2
<1>5. Books(h3.db)
  BY <1>0, <1>4
<1> HIDE DEF h3
<1>6. Books(d1)
  BY <1>5, DeviceBooks
<1> HIDE DEF d1
<1>7. Books(d2)
  BY <1>6, FailureBooks
<1> HIDE DEF d2
<1>8. Books(d3)
  BY <1>7, ReportBooks
<1> QED
  BY <1>1, <1>8

\* Every step of the host leaves the tables adding up.
LEMMA BooksStep == HostInv /\ Books(db) /\ [HostStep]_namedVars => Books(db)'
<1> SUFFICES ASSUME HostInv, Books(db), [HostStep]_namedVars PROVE Books(db')
  OBVIOUS
<1>0. clock \in Nat \ {0}
  BY DEF HostInv
<1>1. ASSUME NEW f \in Frame, NEW t \in Nat, Ingested(Put(f, "ts", t)) PROVE Books(db')
  <2> DEFINE g == Put(f, "ts", t)
  <2>1. g.ts = t /\ g.rssi = f.rssi /\ f.rssi \in Int
    BY DEF Put, Overlay, Has, Frame
  <2> HIDE DEF g
  <2>2. db' = Ingest([db |-> db, reg |-> reg], g).db
    BY <1>1 DEF Ingested, g
  <2> QED
    BY <2>1, <2>2, IngestBooks
<1>2. CASE Earlier
  <2>1. Len(Past) \in Nat /\ Past \in Seq(Frame) /\ ops \in Int /\ ops >= -Len(Past)
    BY HostAssumption DEF HostAssumption, HostInv
  <2>2. /\ ops < 0 /\ ops' = ops + 1 /\ clock' = clock + 1
        /\ Ingested(Put(Past[Len(Past) + ops'], "ts", clock'))
    BY <1>2 DEF Earlier
  <2>3. Len(Past) + ops' \in 1..Len(Past) /\ clock' \in Nat
    BY <1>0, <2>1, <2>2
  <2>4. Past[Len(Past) + ops'] \in Frame
    BY <2>1, <2>3
  <2> QED
    BY <1>1, <2>2, <2>3, <2>4
<1>3. ASSUME NEW f \in Frames, Capture(f) PROVE Books(db')
  <2>1. f \in Frame /\ Ingested(Put(f, "ts", clock))
    BY <1>3, HostAssumption DEF Capture, HostAssumption
  <2> QED
    BY <1>0, <1>1, <2>1
<1>4. CASE Reports
  BY <1>4, SampleBooks, ReportBooks DEF Reports, EdSample, ProbeAnswer, HALog, Store
<1>5. CASE Upkeep
  BY <1>5, ResetBooks, OpenBooks DEF Upkeep, Purge, FactoryReset, Wipe, WipeNames, WipeSettings, Restart
<1>6. CASE Requests
  <2>1. ASSUME NEW n, Schedule(1, n) PROVE Books(db')
    BY <2>1, AddBooks DEF Schedule, Store
  <2>2. ASSUME Unschedule(1) PROVE Books(db')
    BY <2>2, DropBooks DEF Unschedule, Store
  <2>3. ASSUME NEW on, Toggle(1, on) PROVE Books(db')
    BY <2>3, ToggleBooks DEF Toggle, Store
  <2>4. ASSUME NEW on, RunSchedules(on) PROVE Books(db')
    BY <2>4, ToggleBooks DEF RunSchedules, Store
  <2>5. ASSUME UNCHANGED db PROVE Books(db')
    BY <2>5
  <2> QED
    BY <1>6, <2>1, <2>2, <2>3, <2>4, <2>5 DEF Requests, Configure, SetHomeNetwork, Watch
<1>7. CASE Detect
  BY <1>7, DetectBooks DEF Detect, Store
<1>8. ASSUME UNCHANGED db PROVE Books(db')
  BY <1>8
<1>9. CASE HostNext
  <2>1. ASSUME NEW n, Pass(n) PROVE Books(db')
    BY <1>8, <2>1 DEF Pass
  <2> QED
    BY <1>2, <1>3, <1>4, <1>5, <1>6, <1>7, <1>9, <2>1 DEF HostNext
<1>10. CASE UNCHANGED hostVars
  BY <1>8, <1>10 DEF hostVars
<1> QED
  BY <1>9, <1>10 DEF HostStep, namedVars

\* The sum of the modules, over what the tables count.
LEMMA CountsSum ==
  ASSUME NEW t, NEW S \in SUBSET DOMAIN t, IsFiniteSet(S), \A k \in S : t[k].count \in Nat
  PROVE  MapThenSumSet(LAMBDA k : t[k].count, S) = Cardinality(Tickets(Numbers(t), S))
<1> DEFINE g == Numbers(t)
           h == CHOOSE f : f = [s \in SUBSET S |->
                  IF s = {} THEN 0 ELSE LET x == CHOOSE x \in s : TRUE IN t[x].count + f[s \ {x}]]
<1>1. MapThenSumSet(LAMBDA k : t[k].count, S) = h[S]
  BY Zenon DEF MapThenSumSet, MapThenFoldSet
<1>2. ASSUME NEW f
      PROVE  IsSum(f, g, S) <=>
               f = [s \in SUBSET S |->
                  IF s = {} THEN 0 ELSE LET x == CHOOSE x \in s : TRUE IN t[x].count + f[s \ {x}]]
  <2>1. ASSUME NEW s \in SUBSET S, s # {}
        PROVE  g[CHOOSE x \in s : TRUE] = t[CHOOSE x \in s : TRUE].count
    <3>1. (CHOOSE x \in s : TRUE) \in DOMAIN t
      BY <2>1
    <3> QED
      BY <3>1 DEF Numbers
  <2> HIDE DEF g
  <2> QED
    BY <2>1 DEF IsSum, Rest
<1>3. \A x \in S : g[x] \in Nat
  BY DEF Numbers
<1> HIDE DEF g
<1>4. \E f : IsSum(f, g, S)
  BY <1>3, SumIs
<1>5. IsSum(h, g, S)
  BY <1>2, <1>4, Zenon
<1> HIDE DEF h
<1>6. h[S] = Cardinality(Tickets(g, S))
  BY <1>3, <1>5, SumIs
<1> QED
  BY <1>1, <1>6 DEF g

\* A histogram's sum.
LEMMA LevelsSum ==
  ASSUME NEW g \in [0..7 -> Nat]
  PROVE  MapThenSumSet(LAMBDA b : g[b], 0..7) = Cardinality(Tickets(g, 0..7))
<1> DEFINE S == 0..7
           h == CHOOSE f : f = [s \in SUBSET S |->
                  IF s = {} THEN 0 ELSE LET x == CHOOSE x \in s : TRUE IN g[x] + f[s \ {x}]]
<1>1. MapThenSumSet(LAMBDA b : g[b], S) = h[S]
  BY Zenon DEF MapThenSumSet, MapThenFoldSet
<1>2. IsFiniteSet(S) /\ \A x \in S : g[x] \in Nat
  <2>1. 0 \in Int /\ 7 \in Int
    OBVIOUS
  <2>2. IsFiniteSet(S)
    BY <2>1, FS_Interval
  <2> QED
    BY <2>2
<1> HIDE DEF S
<1>3. ASSUME NEW f
      PROVE  IsSum(f, g, S) <=>
               f = [s \in SUBSET S |->
                  IF s = {} THEN 0 ELSE LET x == CHOOSE x \in s : TRUE IN g[x] + f[s \ {x}]]
  BY DEF IsSum, Rest
<1>4. \E f : IsSum(f, g, S)
  BY <1>2, SumIs
<1>5. IsSum(h, g, S)
  BY <1>3, <1>4, Zenon
<1> HIDE DEF h
<1>6. h[S] = Cardinality(Tickets(g, S))
  BY <1>2, <1>5, SumIs
<1> QED
  BY <1>1, <1>6 DEF S

\* The tables that add up are those the properties speak of.
LEMMA BooksMean == Books(db) => FailuresAgree /\ TablesTypeOK
<1> SUFFICES ASSUME Books(db) PROVE FailuresAgree /\ TablesTypeOK
  OBVIOUS
<1>1. ASSUME NEW t \in DOMAIN db.rfTotal
      PROVE  db.rfTotal[t].count =
               MapThenSumSet(LAMBDA k : db.rfReason[k].count, {k \in DOMAIN db.rfReason : k[1] = t})
  <2> DEFINE R == db.rfReason
             S == {k \in DOMAIN R : k[1] = t}
  <2>1. db.rfTotal[t].count = Cardinality(Tickets(Numbers(R), S))
    BY DEF Books, FailureRows, ReasonsOf
  <2>2. S \in SUBSET DOMAIN R /\ IsFiniteSet(S) /\ \A k \in S : R[k].count \in Nat
    <3>1. IsFiniteSet(DOMAIN R) /\ \A k \in DOMAIN R : R[k].count \in Nat
      BY DEF Books, FailureRows
    <3> QED
      BY <3>1, FS_Subset
  <2> HIDE DEF R, S
  <2>3. MapThenSumSet(LAMBDA k : R[k].count, S) = Cardinality(Tickets(Numbers(R), S))
    BY <2>2, CountsSum
  <2> QED
    BY <2>1, <2>3 DEF R, S
<1>2. FlattenSeq(Clusters(db)) = Failures(db)
      /\ \A i, j \in DOMAIN Clusters(db) :
           i < j => Clusters(db)[j][1].ts - Clusters(db)[i][Len(Clusters(db)[i])].ts > Gap
  <2>1. Ascending(Failures(db)) /\ Clusters(db) = Runs(Failures(db), Gap) /\ Gap \in Nat
    BY FailuresAscend DEF Books, Clusters, Gap
  <2> HIDE DEF Clusters, Failures, Gap
  <2> QED
    BY <2>1, RunsAre
<1>3. Len(db.ed) < EdCap + BigEvery
  <2>1. Len(db.ed) \in Nat /\ Len(db.ed) <= EdCap + db.writes.ed /\ db.writes.ed \in 0..(BigEvery - 1)
    BY Lists DEF Books, AreCounters
  <2> QED
    BY <2>1, CapsAre
<1>4. ASSUME NEW k \in DOMAIN db.minutes
      PROVE  db.minutes[k].frames = MapThenSumSet(LAMBDA b : db.minutes[k].hist[b], 0..7)
  <2> DEFINE g == db.minutes[k].hist
  <2>1. g \in [0..7 -> Nat] /\ db.minutes[k].frames = Cardinality(Tickets(g, 0..7))
    BY DEF Books, MinuteRows, MinuteRow
  <2> HIDE DEF g
  <2>2. MapThenSumSet(LAMBDA b : g[b], 0..7) = Cardinality(Tickets(g, 0..7))
    BY <2>1, LevelsSum
  <2> QED
    BY <2>1, <2>2 DEF g
<1>5. \A i, j \in DOMAIN db.schedules : i # j => db.schedules[i].id # db.schedules[j].id
  BY DEF Books, ScheduleRows
<1>6. FailuresAgree
  BY <1>1, <1>2, Zenon DEF FailuresAgree
<1>7. TablesTypeOK
  BY <1>3, <1>4, <1>5, Zenon DEF TablesTypeOK
<1> QED
  BY <1>6, <1>7

\* The tables add up from the start.
LEMMA BooksInit == HostInit => Books(db)
BY ResetBooks DEF HostInit

\* A target's route failures are the sum over its reasons, and a burst of them is
\* whole, whatever is received, pruned, purged or restarted.
THEOREM FailuresCount == HostSpec => []FailuresAgree
<1>1. HostSpec => []HostInv
  BY HostInvInit, HostInvStep, PTL DEF HostSpec
<1> QED
  BY <1>1, BooksInit, BooksStep, BooksMean, PTL DEF HostSpec

\* Every minute counts as many frames as its histogram, no two schedules share an
\* id and the samples stay below their cap and a round of writes.
THEOREM TablesBounded == HostSpec => []TablesTypeOK
<1>1. HostSpec => []HostInv
  BY HostInvInit, HostInvStep, PTL DEF HostSpec
<1> QED
  BY <1>1, BooksInit, BooksStep, BooksMean, PTL DEF HostSpec

-------------------------------------------------------------------------------
(* The answers of the API (AnswersOK), whatever the tables hold.               *)

\* The logs the answers count are lists, and the links are finitely many.
Logs(d) == /\ IsDatabase(d) /\ IsList(d.packets) /\ IsList(d.probes)
           /\ IsFiniteSet(DOMAIN d.links)
\* Any other table is written.
NotLogged(d, e) ==
  IsDatabase(e) /\ e.packets = d.packets /\ e.probes = d.probes /\ e.links = d.links

\* Which leaves the logs as they were.
LEMMA NotLoggedKeeps == ASSUME NEW d, NEW e, Logs(d), NotLogged(d, e) PROVE Logs(e)
BY DEF Logs, NotLogged

\* The tables that are no logs.
LEMMA PlainTables ==
  ASSUME NEW d, Logs(d), NEW v
  PROVE  /\ Logs([d EXCEPT !.devices = v]) /\ Logs([d EXCEPT !.pans = v])
         /\ Logs([d EXCEPT !.incidents = v]) /\ Logs([d EXCEPT !.haLog = v])
         /\ Logs([d EXCEPT !.schedules = v])
<1>1. NotLogged(d, [d EXCEPT !.devices = v])
  BY DEF Logs, IsDatabase, Tables, NotLogged
<1>2. NotLogged(d, [d EXCEPT !.pans = v])
  BY DEF Logs, IsDatabase, Tables, NotLogged
<1>3. NotLogged(d, [d EXCEPT !.incidents = v])
  BY DEF Logs, IsDatabase, Tables, NotLogged
<1>4. NotLogged(d, [d EXCEPT !.haLog = v])
  BY DEF Logs, IsDatabase, Tables, NotLogged
<1>5. NotLogged(d, [d EXCEPT !.schedules = v])
  BY DEF Logs, IsDatabase, Tables, NotLogged
<1> QED
  BY <1>1, <1>2, <1>3, <1>4, <1>5, NotLoggedKeeps

\* The pruning that comes with the frames, and a new process.
LEMMA PruneLogs ==
  ASSUME NEW d, Logs(d)
  PROVE  /\ Logs(Bound(d)) /\ Logs(Maintain(d)) /\ Logs(Open(d)) /\ Logs(Reset(d))
<1>0. ProbeCap \in Nat
  BY StoreAssumption DEF StoreAssumption
<1>1. ASSUME NEW c, Logs(c) PROVE Logs(Bound(c))
  <2> DEFINE e == Bound(c)
  <2>1. /\ IsDatabase(e) /\ e.packets = c.packets /\ e.links = c.links
        /\ e.probes = Newest(c.probes, ProbeCap)
    BY <1>1 DEF Bound, Logs, IsDatabase, Tables
  <2>2. IsList(Newest(c.probes, ProbeCap))
    BY <1>0, <1>1, NewestFits DEF Logs
  <2> HIDE DEF e
  <2> QED
    BY <1>1, <2>1, <2>2 DEF Logs, e
<1>2. Logs(Maintain(d))
  <2> DEFINE m == [d EXCEPT !.writes.misc = Count(@, MiscEvery)]
  <2>1. NotLogged(d, m)
    BY DEF Logs, IsDatabase, Tables, NotLogged
  <2>2. Logs(m)
    BY <2>1, NotLoggedKeeps
  <2>3. Maintain(d) = m \/ Maintain(d) = Bound(m)
    BY DEF Maintain
  <2> QED
    BY <1>1, <2>2, <2>3
<1>3. Logs(Open(d))
  <2> DEFINE b == Bound(d)
             e == [b EXCEPT !.ed = Newest(@, EdCap), !.writes = NoWrites]
  <2>1. Logs(b) /\ Open(d) = e
    BY <1>1 DEF Open
  <2> HIDE DEF b
  <2>2. NotLogged(b, e)
    BY <2>1 DEF Logs, IsDatabase, Tables, NotLogged
  <2> QED
    BY <2>1, <2>2, NotLoggedKeeps
<1>4. Logs(Reset(d))
  <2>1. /\ IsDatabase(Reset(d)) /\ Reset(d).packets = <<>> /\ Reset(d).probes = <<>>
        /\ Reset(d).links = <<>>
    BY DEF Reset, Empty, IsDatabase, Tables
  <2>2. IsFiniteSet(DOMAIN <<>>)
    BY FS_EmptySet
  <2> QED
    BY <2>1, <2>2, Lists DEF Logs
<1> QED
  BY <1>1, <1>2, <1>3, <1>4

\* A new store.
LEMMA EmptyLogs == Logs(Empty)
<1>1. /\ IsDatabase(Empty) /\ Empty.packets = <<>> /\ Empty.probes = <<>>
      /\ Empty.links = <<>>
  BY DEF Empty, IsDatabase, Tables
<1>2. IsFiniteSet(DOMAIN <<>>)
  BY FS_EmptySet
<1> QED
  BY <1>1, <1>2, Lists DEF Logs

\* A link that is seen is one more at most.
LEMMA LinkLogs ==
  ASSUME NEW d, Logs(d), NEW s, NEW t, NEW f, NEW layer
  PROVE  Logs(UpsertLink(d, s, t, f, layer))
<1>1. PICK v : UpsertLink(d, s, t, f, layer) = [d EXCEPT !.links = Put(@, <<s, t>>, v)]
  BY Zenon DEF UpsertLink, Upsert
<1> DEFINE k == <<s, t>>
           w == Put(d.links, k, v)
           e == [d EXCEPT !.links = w]
<1>2. IsFiniteSet(DOMAIN w)
  <2>1. IsFiniteSet(DOMAIN d.links)
    BY DEF Logs
  <2> HIDE DEF k
  <2>2. DOMAIN w = DOMAIN d.links \cup {k}
    BY PutIs
  <2> QED
    BY <2>1, <2>2, FS_AddElement
<1> HIDE DEF w
<1>3. IsDatabase(e) /\ e.packets = d.packets /\ e.probes = d.probes /\ e.links = w
  BY DEF Logs, IsDatabase, Tables
<1> HIDE DEF e
<1>4. Logs(e)
  BY <1>2, <1>3 DEF Logs
<1> QED
  BY <1>1, <1>4 DEF e, w

\* Devices, what is learned of them and labels.
LEMMA DeviceLogs ==
  ASSUME NEW d, Logs(d)
  PROVE  /\ \A a, f, pan : Logs(UpsertDevice(d, a, f, pan))
         /\ \A a, ext : Logs(SetDeviceExt(d, a, ext))
         /\ \A a, name : Logs(SetDeviceName(d, a, name))
         /\ \A pan, label : Logs(LabelPan(d, pan, label))
<1>0. ASSUME NEW v PROVE Logs([d EXCEPT !.devices = v]) /\ Logs([d EXCEPT !.pans = v])
  BY PlainTables
<1>1. ASSUME NEW a, NEW f, NEW pan PROVE Logs(UpsertDevice(d, a, f, pan))
  <2>1. \E v : UpsertDevice(d, a, f, pan) = [d EXCEPT !.devices = v]
    BY Zenon DEF UpsertDevice
  <2> QED
    BY <1>0, <2>1
<1>2. ASSUME NEW a, NEW ext PROVE Logs(SetDeviceExt(d, a, ext))
  <2>1. \/ SetDeviceExt(d, a, ext) = d
        \/ \E q : SetDeviceExt(d, a, ext) = [d EXCEPT !.devices = [@ EXCEPT ![a] = q]]
    <3> DEFINE q == [d.devices[a] EXCEPT !.ext = ext]
    <3>1. SetDeviceExt(d, a, ext) = d \/ SetDeviceExt(d, a, ext) = [d EXCEPT !.devices = [@ EXCEPT ![a] = q]]
      BY DEF SetDeviceExt
    <3> QED
      BY <3>1
  <2> QED
    BY <1>0, <2>1
<1>3. ASSUME NEW a, NEW name PROVE Logs(SetDeviceName(d, a, name))
  <2> DEFINE q == [d.devices[a] EXCEPT !.name = name]
  <2>1. \/ SetDeviceName(d, a, name) = d
        \/ SetDeviceName(d, a, name) = [d EXCEPT !.devices = [@ EXCEPT ![a] = q]]
    BY DEF SetDeviceName
  <2> HIDE DEF q
  <2> QED
    BY <1>0, <2>1
<1>4. ASSUME NEW pan, NEW label PROVE Logs(LabelPan(d, pan, label))
  <2> DEFINE q == [d.pans[pan] EXCEPT !.label = label]
  <2>1. LabelPan(d, pan, label) = d \/ LabelPan(d, pan, label) = [d EXCEPT !.pans = [@ EXCEPT ![pan] = q]]
    BY DEF LabelPan
  <2> HIDE DEF q
  <2> QED
    BY <1>0, <2>1
<1> QED
  BY <1>1, <1>2, <1>3, <1>4

\* A frame is logged.
LEMMA PacketLogs == ASSUME NEW d, Logs(d), NEW f PROVE Logs(Log(d, f))
<1> DEFINE row == [ts |-> f.ts, src |-> f.mac.src, dst |-> f.mac.dst, rssi |-> f.rssi,
                   lqi |-> f.lqi, decrypted |-> f.nwk.decrypted]
           packets == Append(d.packets, row)
           new == IF Due(d.writes.pkt, BigEvery) THEN Newest(packets, PacketCap) ELSE packets
           e == Log(d, f)
<1>1. \E v, w : e = [d EXCEPT !.packets = new, !.pans = v, !.minutes = w,
                    !.writes.pkt = Count(@, BigEvery), !.writes.pm = Count(@, BigEvery)]
  BY Zenon DEF Log
<1>2. IsList(new)
  <2>1. IsList(packets) /\ PacketCap \in Nat
    BY Appended, StoreAssumption DEF Logs, StoreAssumption
  <2> HIDE DEF packets
  <2> QED
    BY <2>1, NewestFits
<1> HIDE DEF new, e
<1>3. IsDatabase(e) /\ e.packets = new /\ e.probes = d.probes /\ e.links = d.links
  BY <1>1 DEF Logs, IsDatabase, Tables
<1> QED
  BY <1>2, <1>3 DEF Logs, e

\* A frame, all of it.
LEMMA FrameLogs == ASSUME NEW d, Logs(d), NEW f PROVE Logs(IngestFrame(d, f))
<1>1. Logs(Maintain(Log(d, f)))
  BY PacketLogs, PruneLogs
<1>2. ASSUME NEW b, Logs(b) PROVE Logs(Hop(b, f.mac, f))
  <2> DEFINE m == f.mac
             b1 == IF m.src \in {Absent, Broadcast} THEN b ELSE UpsertDevice(b, m.src, f, SeenPan(m))
  <2>1. Logs(b1)
    BY <1>2, DeviceLogs
  <2> HIDE DEF b1
  <2>2. Hop(b, m, f) = b1 \/ Hop(b, m, f) = UpsertLink(b1, m.src, m.dst, f, "mac")
    BY DEF Hop, b1
  <2> QED
    BY <2>1, <2>2, LinkLogs
<1>3. ASSUME NEW b, Logs(b) PROVE Logs(Route(b, f.nwk, f))
  <2> DEFINE n == f.nwk
             b1 == IF IsDevice(n.src) THEN UpsertDevice(b, n.src, f, SeenPan(f.mac)) ELSE b
  <2>1. Logs(b1)
    BY <1>3, DeviceLogs
  <2> HIDE DEF b1
  <2>2. Route(b, n, f) = b1 \/ Route(b, n, f) = UpsertLink(b1, n.src, n.dst, f, "nwk")
    BY DEF Route, b1
  <2> QED
    BY <2>1, <2>2, LinkLogs
<1> QED
  BY <1>1, <1>2, <1>3 DEF IngestFrame

\* What else is reported.
LEMMA ReportLogs ==
  ASSUME NEW d, Logs(d)
  PROVE  /\ \A row : Logs(IngestIncident(d, row))
         /\ \A ts, target, acked : Logs(IngestProbe(d, ts, target, acked))
         /\ \A key, ts, level, about, n : Logs(IngestHALog(d, key, ts, level, about, n))
         /\ \A ts, ch, ed : Logs(IngestED(d, ts, ch, ed))
         /\ \A target, reporter, reason, ts : Logs(IngestRouteFailure(d, target, reporter, reason, ts))
         /\ \A s, now : Logs(DetectIncidents(d, s, now))
<1>1. ASSUME NEW row PROVE Logs(IngestIncident(d, row))
  BY PlainTables, PruneLogs DEF IngestIncident, InsertIncident
<1>2. ASSUME NEW ts, NEW target, NEW acked PROVE Logs(IngestProbe(d, ts, target, acked))
  <2> DEFINE rows == Append(d.probes, [ts |-> ts, target |-> target, acked |-> acked])
             e == [d EXCEPT !.probes = rows]
  <2>1. IsList(rows)
    BY Appended DEF Logs
  <2> HIDE DEF rows
  <2>2. IsDatabase(e) /\ e.packets = d.packets /\ e.probes = rows /\ e.links = d.links
    BY DEF Logs, IsDatabase, Tables
  <2> HIDE DEF e
  <2>3. Logs(Maintain(e))
    BY <2>1, <2>2, PruneLogs DEF Logs
  <2> QED
    BY <2>3 DEF IngestProbe, e, rows
<1>3. ASSUME NEW key, NEW ts, NEW level, NEW about, NEW n
      PROVE  Logs(IngestHALog(d, key, ts, level, about, n))
  <2>1. \E v : IngestHALog(d, key, ts, level, about, n) = Maintain([d EXCEPT !.haLog = v])
    BY Zenon DEF IngestHALog
  <2> QED
    BY <2>1, PlainTables, PruneLogs
<1>4. ASSUME NEW ts, NEW ch, NEW ed PROVE Logs(IngestED(d, ts, ch, ed))
  <2>1. \E v : IngestED(d, ts, ch, ed) = [d EXCEPT !.ed = v, !.writes.ed = Count(@, BigEvery)]
    BY Zenon DEF IngestED
  <2>2. NotLogged(d, IngestED(d, ts, ch, ed))
    BY <2>1 DEF Logs, IsDatabase, Tables, NotLogged
  <2> QED
    BY <2>2, NotLoggedKeeps
<1>5. ASSUME NEW target, NEW reporter, NEW reason, NEW ts
      PROVE  Logs(IngestRouteFailure(d, target, reporter, reason, ts))
  <2> DEFINE e == IngestRouteFailure(d, target, reporter, reason, ts)
  <2>1. \E u, v, w : e = [d EXCEPT !.rfTotal = u, !.rfReason = v, !.rfLog = w,
                                   !.writes.rfl = Count(@, BigEvery)]
    BY Zenon DEF IngestRouteFailure
  <2> HIDE DEF e
  <2>2. NotLogged(d, e)
    BY <2>1 DEF Logs, IsDatabase, Tables, NotLogged
  <2> QED
    BY <2>2, NotLoggedKeeps DEF e
<1>6. ASSUME NEW s, NEW now PROVE Logs(DetectIncidents(d, s, now))
  <2>1. DetectIncidents(d, s, now) = d \/ \E v : DetectIncidents(d, s, now) = [d EXCEPT !.incidents = v]
    BY Zenon DEF DetectIncidents
  <2> QED
    BY <2>1, PlainTables
<1> QED
  BY <1>1, <1>2, <1>3, <1>4, <1>5, <1>6

\* A frame, with the addresses, the label and the failure it tells of.
LEMMA IngestLogs ==
  ASSUME NEW r, NEW d, Logs(d), NEW f, NEW h, h = Ingest([db |-> d, reg |-> r], f)
  PROVE  Logs(h.db)
<1> DEFINE h0 == [db |-> IngestFrame(d, f), reg |-> r]
           h1 == Learn(h0, f.nwk.src, f.nwk.srcExt)
           h2 == Learn(h1, f.nwk.dst, f.nwk.dstExt)
           h3 == Learn(h2, f.announce[1], f.announce[2])
           pan == SeenPan(f.mac)
           d1 == IF pan = Absent THEN h3.db ELSE LabelPan(h3.db, pan, Label(f))
           target == IF f.nwk.dest = Absent THEN f.nwk.dst ELSE f.nwk.dest
           d2 == IF f.nwk.failed = "" THEN d1
                 ELSE IngestRouteFailure(d1, target, f.nwk.src, f.nwk.failed, f.ts)
           rejoin == [ts |-> f.ts, addr |-> Hex(f.mac.src), reason |-> "rejoin",
                      silent |-> 0, ch |-> f.ch, ed |-> 0]
           d3 == IF f.mac.src # Absent /\ JoinRelated(f) THEN IngestIncident(d2, rejoin) ELSE d2
<1>0. ASSUME NEW g, Logs(g.db), NEW a, NEW ext PROVE Logs(Learn(g, a, ext).db)
  <2>1. CASE ~IsNewExt(g.reg, a, ext)
    BY <1>0, <2>1 DEF Learn
  <2>2. CASE IsNewExt(g.reg, a, ext)
    <3>1. Learn(g, a, ext).db = SetDeviceName(SetDeviceExt(g.db, a, ext), a, NameExt(g.reg, ext))
      BY <2>2 DEF Learn
    <3> QED
      BY <1>0, <3>1, DeviceLogs
  <2> QED
    BY <2>1, <2>2
<1>1. h.db = d3
  <2>1. [[db |-> d, reg |-> r] EXCEPT !.db = IngestFrame(@, f)] = h0
    OBVIOUS
  <2>2. LearnAll([[db |-> d, reg |-> r] EXCEPT !.db = IngestFrame(@, f)], f) = h3
    BY <2>1, Zenon DEF LearnAll
  <2> HIDE DEF h3
  <2>3. h = [reg |-> h3.reg, db |-> d3]
    BY <2>2, Zenon DEF Ingest
  <2> HIDE DEF d3
  <2> QED
    BY <2>3
<1>2. Logs(h0.db)
  BY FrameLogs
<1> HIDE DEF h0
<1>3. Logs(h1.db)
  BY <1>0, <1>2
<1> HIDE DEF h1
<1>4. Logs(h2.db)
  BY <1>0, <1>3
<1> HIDE DEF h2
<1>5. Logs(h3.db)
  BY <1>0, <1>4
<1> HIDE DEF h3
<1>6. Logs(d1)
  BY <1>5, DeviceLogs
<1> HIDE DEF d1
<1>7. Logs(d2)
  BY <1>6, ReportLogs
<1> HIDE DEF d2
<1>8. Logs(d3)
  BY <1>7, ReportLogs
<1> QED
  BY <1>1, <1>8

\* Every step of the host leaves the logs lists.
LEMMA LogsStep == Logs(db) /\ [HostStep]_namedVars => Logs(db)'
<1> SUFFICES ASSUME Logs(db), [HostStep]_namedVars PROVE Logs(db')
  OBVIOUS
<1>1. ASSUME NEW f, Ingested(f) PROVE Logs(db')
  BY <1>1, IngestLogs DEF Ingested
<1>2. ASSUME UNCHANGED db PROVE Logs(db')
  BY <1>2
<1>3. CASE Reports
  BY <1>3, ReportLogs DEF Reports, EdSample, ProbeAnswer, HALog, Store
<1>4. CASE Upkeep
  BY <1>4, PruneLogs DEF Upkeep, Purge, FactoryReset, Wipe, WipeNames, WipeSettings, Restart
<1>5. CASE Requests
  <2>0. ASSUME NEW v PROVE Logs([db EXCEPT !.schedules = v])
    BY PlainTables
  <2>1. ASSUME NEW n, Schedule(1, n) PROVE Logs(db')
    BY <2>1, PlainTables DEF Schedule, Store, AddSchedule
  <2>2. ASSUME Unschedule(1) PROVE Logs(db')
    <3>1. \E v : DeleteSchedule(db, 1) = [db EXCEPT !.schedules = v]
      BY Zenon DEF DeleteSchedule
    <3> QED
      BY <2>2, <2>0, <3>1 DEF Unschedule, Store
  <2>3. ASSUME NEW on, Toggle(1, on) PROVE Logs(db')
    <3>1. \E v : SetScheduleEnabled(db, 1, on) = [db EXCEPT !.schedules = v]
      BY Zenon DEF SetScheduleEnabled, UpdateSchedules
    <3> QED
      BY <2>3, <2>0, <3>1 DEF Toggle, Store
  <2>4. ASSUME NEW on, RunSchedules(on) PROVE Logs(db')
    <3>1. ASSUME NEW ids PROVE Logs(MarkScheduleRun(db, ids, clock, FALSE))
      <4>1. \E v : MarkScheduleRun(db, ids, clock, FALSE) = [db EXCEPT !.schedules = v]
        BY Zenon DEF MarkScheduleRun, UpdateSchedules
      <4> QED
        BY <2>0, <4>1
    <3> QED
      BY <2>4, <3>1 DEF RunSchedules, Store
  <2> QED
    BY <1>2, <1>5, <2>1, <2>2, <2>3, <2>4 DEF Requests, Configure, SetHomeNetwork, Watch
<1>6. CASE Detect
  BY <1>6, ReportLogs DEF Detect, Store
<1>7. CASE HostNext
  <2>1. ASSUME NEW n, Pass(n) PROVE Logs(db')
    BY <1>2, <2>1 DEF Pass
  <2>2. CASE Earlier
    BY <1>1, <2>2 DEF Earlier
  <2>3. ASSUME NEW f, Capture(f) PROVE Logs(db')
    BY <1>1, <2>3 DEF Capture
  <2> QED
    BY <1>3, <1>4, <1>5, <1>6, <1>7, <2>1, <2>2, <2>3 DEF HostNext
<1>8. CASE UNCHANGED hostVars
  BY <1>2, <1>8 DEF hostVars
<1> QED
  BY <1>7, <1>8 DEF HostStep, namedVars

\* One round of a search: every path one hop longer, until one arrives.
Longer(paths, hops) == UNION {{Append(p, h[2]) : h \in HopsOn(p, hops)} : p \in paths}
Round(paths, to, hops) ==
  IF \E p \in paths : p[Len(p)] = to THEN paths ELSE Longer(paths, hops)
Rounds(L, from, to, hops, n) ==
  L = [k \in 0..n |-> IF k = 0 THEN {<<from>>} ELSE Round(L[k - 1], to, hops)]

\* The rounds of a search exist, however many there are.
LEMMA RoundsExist ==
  ASSUME NEW from, NEW to, NEW hops, NEW n \in Nat
  PROVE  \E L : Rounds(L, from, to, hops, n)
<1> DEFINE Fits(m) == \E L : Rounds(L, from, to, hops, m)
           Bad == {m \in Nat : ~Fits(m)}
<1>1. SUFFICES ASSUME Bad # {} PROVE FALSE
  OBVIOUS
<1>2. PICK m \in Nat : ~Fits(m) /\ \A k \in Nat : ~Fits(k) => m <= k
  <2>1. Min(Bad) \in Bad /\ \A y \in Bad : Min(Bad) <= y
    BY <1>1, LowestIs
  <2> HIDE DEF Fits
  <2> QED
    BY <2>1
<1>3. CASE m = 0
  <2> DEFINE L == [k \in 0..0 |-> {<<from>>}]
  <2>1. Rounds(L, from, to, hops, 0)
    <3>1. 0..0 = {0}
      OBVIOUS
    <3>2. \A k \in 0..0 : k = 0
      OBVIOUS
    <3>3. L = [k \in 0..0 |-> IF k = 0 THEN {<<from>>} ELSE Round(L[k - 1], to, hops)]
      BY <3>2
    <3> QED
      BY <3>3 DEF Rounds
  <2> QED
    BY <1>2, <1>3, <2>1
<1>4. CASE m # 0
  <2>1. m - 1 \in Nat /\ ~(m <= m - 1)
    BY <1>2, <1>4
  <2>2. PICK K : Rounds(K, from, to, hops, m - 1)
    BY <1>2, <2>1
  <2> DEFINE L == [k \in 0..m |-> IF k <= m - 1 THEN K[k] ELSE Round(K[m - 1], to, hops)]
  <2>3. ASSUME NEW k \in 0..m
        PROVE  L[k] = IF k = 0 THEN {<<from>>} ELSE Round(L[k - 1], to, hops)
    <3>1. \A j \in 0..(m - 1) : K[j] = IF j = 0 THEN {<<from>>} ELSE Round(K[j - 1], to, hops)
      BY <2>2 DEF Rounds
    <3>2. \A j \in 0..(m - 1) : j \in 0..m /\ j <= m - 1
      BY <2>1
    <3>3. \A j \in 0..(m - 1) : L[j] = K[j]
      BY <3>2
    <3>4. CASE k \in 0..(m - 1)
      <4>1. k # 0 => k - 1 \in 0..(m - 1)
        BY <3>4
      <4>2. L[k] = K[k] /\ (k # 0 => L[k - 1] = K[k - 1])
        BY <3>3, <3>4, <4>1
      <4> HIDE DEF L
      <4> QED
        BY <3>1, <3>4, <4>2
    <3>5. CASE k = m
      <4>1. L[k] = Round(K[m - 1], to, hops)
        BY <2>1, <3>5
      <4>2. L[m - 1] = K[m - 1]
        BY <2>1, <3>3
      <4> HIDE DEF L
      <4> QED
        BY <1>4, <3>5, <4>1, <4>2
    <3>6. k \in 0..(m - 1) \/ k = m
      BY <2>1
    <3> QED
      BY <3>4, <3>5, <3>6
  <2>4. L = [k \in 0..m |-> IF k = 0 THEN {<<from>>} ELSE Round(L[k - 1], to, hops)]
    <3>1. L = [k \in 0..m |-> L[k]]
      OBVIOUS
    <3> HIDE DEF L
    <3> QED
      BY <2>3, <3>1
  <2>5. Rounds(L, from, to, hops, m)
    <3> HIDE DEF L
    <3> QED
      BY <2>4 DEF Rounds
  <2> QED
    BY <1>2, <2>5
<1> QED
  BY <1>3, <1>4

\* A path is a list of addresses that starts where the search did.
StartsAt(p, from) == IsList(p) /\ Len(p) >= 1 /\ p[1] = from
LEMMA RoundsStart ==
  ASSUME NEW from, NEW to, NEW hops, NEW n \in Nat, NEW L, Rounds(L, from, to, hops, n)
  PROVE  \A p \in L[n] : StartsAt(p, from)
<1> DEFINE Bad == {k \in 0..n : \E p \in L[k] : ~StartsAt(p, from)}
<1>1. SUFFICES ASSUME Bad # {} PROVE FALSE
  OBVIOUS
<1>2. PICK m \in 0..n : (\E p \in L[m] : ~StartsAt(p, from)) /\ \A k \in Bad : m <= k
  <2>1. Bad \in SUBSET Nat
    OBVIOUS
  <2>2. Min(Bad) \in Bad /\ \A y \in Bad : Min(Bad) <= y
    BY <1>1, <2>1, LowestIs
  <2> QED
    BY <2>2
<1>3. L[m] = IF m = 0 THEN {<<from>>} ELSE Round(L[m - 1], to, hops)
  BY DEF Rounds
<1>4. CASE m = 0
  <2> DEFINE s == <<from>>
  <2>1. s \in Seq({from}) /\ Len(s) = 1 /\ s[1] = from
    OBVIOUS
  <2> HIDE DEF s
  <2>2. StartsAt(s, from)
    BY <2>1, Lists DEF StartsAt
  <2>3. \A p \in L[m] : p = s
    BY <1>3, <1>4 DEF s
  <2>4. \E p \in L[m] : ~StartsAt(p, from)
    BY <1>2
  <2> QED
    BY <2>2, <2>3, <2>4
<1>5. CASE m # 0
  <2>1. m - 1 \in 0..n /\ ~(m <= m - 1)
    BY <1>5
  <2>2. \A p \in L[m - 1] : StartsAt(p, from)
    BY <1>2, <2>1
  <2>3. ASSUME NEW p, StartsAt(p, from), NEW x PROVE StartsAt(Append(p, x), from)
    <3>1. /\ IsList(Append(p, x)) /\ Len(Append(p, x)) = Len(p) + 1
          /\ \A i \in 1..Len(p) : Append(p, x)[i] = p[i]
      BY <2>3, Appended DEF StartsAt
    <3>2. Len(p) \in Nat /\ Len(p) >= 1
      BY <2>3, Lists DEF StartsAt
    <3> QED
      BY <2>3, <3>1, <3>2 DEF StartsAt
  <2>4. L[m] = L[m - 1] \/ L[m] = Longer(L[m - 1], hops)
    BY <1>3, <1>5 DEF Round
  <2>5. \A q \in Longer(L[m - 1], hops) : \E p \in L[m - 1] : \E x : q = Append(p, x)
    BY DEF Longer
  <2>6. PICK q \in L[m] : ~StartsAt(q, from)
    BY <1>2
  <2>7. q \notin L[m - 1]
    BY <2>2, <2>6
  <2>8. PICK p \in L[m - 1] : \E x : q = Append(p, x)
    BY <2>4, <2>5, <2>6, <2>7
  <2> QED
    BY <2>2, <2>3, <2>6, <2>8
<1> QED
  BY <1>4, <1>5

\* What a search finds leads from the one end to the other.
LEMMA PathsLead ==
  ASSUME NEW from, NEW to, NEW hops, NEW n \in Nat
  PROVE  \A p \in PathsTo(from, to, hops, n) : StartsAt(p, from) /\ p[Len(p)] = to
<1> DEFINE L == CHOOSE f : Rounds(f, from, to, hops, n)
<1>1. PathsTo(from, to, hops, n) = {p \in L[n] : p[Len(p)] = to}
  BY Zenon DEF PathsTo, Rounds, Round, Longer
<1>2. Rounds(L, from, to, hops, n)
  BY RoundsExist, Zenon
<1> HIDE DEF L
<1>3. \A p \in L[n] : StartsAt(p, from)
  BY <1>2, RoundsStart
<1> QED
  BY <1>1, <1>3

\* And so does a route, from the coordinator to the device.
LEMMA RoutesLead ==
  ASSUME NEW d, IsFiniteSet(DOMAIN d.links), NEW r, NEW a
  PROVE  \A p \in Traceroute(d, r, a) : p[1] = 0 /\ p[Len(p)] = a
<1> DEFINE up == IF r.nbr = <<>> THEN {} ELSE PathsTo(a, 0, Parents(r), 31)
           n == Cardinality(DOMAIN d.links)
           seen == IF a = 0 THEN {} ELSE PathsTo(0, a, Linked(d), n)
<1>1. Traceroute(d, r, a) \subseteq {Reverse(p) : p \in up} \cup seen
  BY DEF Traceroute
<1>2. n \in Nat
  BY FS_CardinalityType
<1> HIDE DEF n
<1>3. \A p \in up : StartsAt(p, a) /\ p[Len(p)] = 0
  BY PathsLead
<1>4. \A p \in seen : StartsAt(p, 0) /\ p[Len(p)] = a
  BY <1>2, PathsLead
<1> HIDE DEF up, seen
<1>5. ASSUME NEW p, StartsAt(p, a), p[Len(p)] = 0
      PROVE  Reverse(p)[1] = 0 /\ Reverse(p)[Len(Reverse(p))] = a
  <2>1. Len(p) \in Nat /\ Len(p) >= 1 /\ p[1] = a
    BY <1>5, Lists DEF StartsAt
  <2>2. Reverse(p) = [i \in 1..Len(p) |-> p[(Len(p) - i) + 1]]
    BY DEF Reverse
  <2>3. Len(Reverse(p)) = Len(p)
    BY <2>1, <2>2, ListOf
  <2>4. 1 \in 1..Len(p) /\ Len(p) \in 1..Len(p) /\ (Len(p) - 1) + 1 = Len(p) /\ (Len(p) - Len(p)) + 1 = 1
    BY <2>1
  <2> QED
    BY <1>5, <2>1, <2>2, <2>3, <2>4
<1> QED
  BY <1>1, <1>3, <1>4, <1>5 DEF StartsAt

\* A device's row in an answer names the device: as many rows as devices.
LEMMA RowsCount ==
  ASSUME NEW d, IsFiniteSet(DOMAIN d.devices)
  PROVE  Cardinality(Routing(d).nodes) = Cardinality(DOMAIN d.devices)
<1> DEFINE S == DOMAIN d.devices
           f == [a \in S |-> Row(a, d.devices[a])]
           T == {Row(a, d.devices[a]) : a \in S}
<1>1. Routing(d).nodes = T
  BY DEF Routing, Devices
<1>2. ASSUME NEW a, NEW r PROVE Row(a, r)["key"] = a
  <2>1. ASSUME NEW k PROVE Put(r, k, a)[k] = a
    BY DEF Put, Overlay, Has
  <2>2. Put(r, "key", a)["key"] = a
    BY <2>1, Zenon
  <2> QED
    BY <2>2 DEF Row
<1>3. f \in Bijection(S, T)
  <2>1. f \in [S -> T] /\ \A a \in S : f[a] = Row(a, d.devices[a])
    OBVIOUS
  <2>2. \A a, b \in S : f[a] = f[b] => a = b
    BY <1>2, <2>1
  <2>3. \A t \in T : \E a \in S : f[a] = t
    BY <2>1
  <2> HIDE DEF f, T
  <2> QED
    BY <2>1, <2>2, <2>3 DEF Bijection, Injection, Surjection, IsInjective
<1>4. ExistsBijection(S, T)
  BY <1>3 DEF ExistsBijection
<1> HIDE DEF S, T
<1>5. Cardinality(T) = Cardinality(S)
  BY <1>4, FS_Bijection DEF S
<1> QED
  BY <1>1, <1>5 DEF S, T

\* The newest n in turn are n at most.
LEMMA AnswersFit ==
  ASSUME NEW s, IsList(s), NEW n \in Nat
  PROVE  Len(Reverse(Newest(s, n))) <= n
<1> DEFINE t == Newest(s, n)
<1>1. Len(t) \in Nat /\ Len(t) <= n
  BY NewestFits
<1> HIDE DEF t
<1>2. Reverse(t) = [i \in 1..Len(t) |-> t[(Len(t) - i) + 1]]
  BY DEF Reverse
<1>3. Len(Reverse(t)) = Len(t)
  BY <1>1, <1>2, ListOf
<1> QED
  BY <1>1, <1>3 DEF t

\* The rows that satisfy a condition are no more than all.
LEMMA FewerAcks ==
  ASSUME NEW s, IsList(s)
  PROVE  Acks(s) \in Nat /\ Acks(s) <= Len(s)
<1> DEFINE S == {i \in DOMAIN s : s[i].acked}
           at == InOrder(S, <)
           w == [k \in DOMAIN at |-> s[at[k]]]
<1>1. Acks(s) = Len(w)
  BY Zenon DEF Acks, Where
<1>2. Len(s) \in Nat /\ DOMAIN s = 1..Len(s)
  BY Lists
<1> DEFINE n == Len(s)
<1>3. IsFiniteSet(1..n) /\ Cardinality(1..n) = n /\ S \in SUBSET (1..n)
  <2>1. 1 \in Int /\ n \in Int /\ n \in Nat
    BY <1>2
  <2>2. S \in SUBSET (1..n)
    BY <1>2
  <2> HIDE DEF n, S
  <2>3. IsFiniteSet(1..n) /\ Cardinality(1..n) = IF 1 > n THEN 0 ELSE n - 1 + 1
    BY <2>1, FS_Interval
  <2> QED
    BY <2>1, <2>2, <2>3
<1>0. n \in Nat /\ n = Len(s)
  BY <1>2
<1> HIDE DEF S, n
<1>4. IsFiniteSet(S) /\ Cardinality(S) <= n /\ S \in SUBSET Int
  <2>1. IsFiniteSet(S) /\ Cardinality(S) <= Cardinality(1..n)
    BY <1>3, FS_Subset
  <2> QED
    BY <1>3, <2>1
<1>5. Listed(at, Lower(S), S)
  BY <1>4, AscendingIs
<1> HIDE DEF at
<1>6. Len(at) = Cardinality(S) /\ Len(at) \in Nat /\ DOMAIN at = 1..Len(at)
  BY <1>5 DEF Listed
<1>7. Len(w) = Len(at)
  <2>1. w = [k \in 1..Len(at) |-> w[k]]
    BY <1>6
  <2> HIDE DEF w
  <2> QED
    BY <1>6, <2>1, ListOf
<1> QED
  BY <1>0, <1>1, <1>4, <1>6, <1>7

\* No device has answered more probes than it was sent.
LEMMA ProbesCount ==
  ASSUME NEW d, IsList(d.probes)
  PROVE  \A a \in DOMAIN ProbeSummary(d) : ProbeSummary(d)[a].acks <= ProbeSummary(d)[a].total
<1> TAKE a \in DOMAIN ProbeSummary(d)
<1> DEFINE s == d.probes
           S == {i \in DOMAIN s : s[i].target = a}
           at == InOrder(S, <)
           ps == [k \in DOMAIN at |-> s[at[k]]]
           last == Max({p.ts : p \in Range(ps)})
<1>1. ProbeSummary(d)[a] = [total |-> Len(ps), acks |-> Acks(ps), last |-> last]
  BY Zenon DEF ProbeSummary, Where
<1>2. Len(s) \in Nat /\ DOMAIN s = 1..Len(s)
  BY Lists
<1>3. S \in SUBSET (1..Len(s)) /\ IsFiniteSet(1..Len(s))
  BY <1>2, FS_Interval
<1> HIDE DEF S
<1>4. IsFiniteSet(S) /\ S \in SUBSET Int
  <2>1. IsFiniteSet(S)
    BY <1>3, FS_Subset
  <2> QED
    BY <1>2, <1>3, <2>1
<1>5. Listed(at, Lower(S), S)
  BY <1>4, AscendingIs
<1> HIDE DEF at
<1>6. Len(at) \in Nat /\ DOMAIN at = 1..Len(at)
  BY <1>5 DEF Listed
<1>7. IsList(ps)
  <2>1. ps = [k \in 1..Len(at) |-> ps[k]]
    BY <1>6
  <2> HIDE DEF ps
  <2> QED
    BY <1>6, <2>1, ListOf
<1> HIDE DEF ps, last
<1>8. Acks(ps) <= Len(ps)
  BY <1>7, FewerAcks
<1> QED
  BY <1>1, <1>8

\* An analysis says something.
LEMMA AnalysisSays == ASSUME NEW d, NEW a PROVE DeviceAnalysis(d, a) # {}
<1> DEFINE found == When(Neighbours(d, a) = {0}, <<Warning, "Topology risk">>)
        \cup Rejoined(d, a) \cup Unroutable(d, a) \cup Dropouts(d, a)
        \cup SignalTrend(d, a) \cup Probed(d, a)
<1>1. DeviceAnalysis(d, a) = (IF found = {} THEN {<<Info, "No pattern yet">>} ELSE found) \cup Complaints(d, a)
  BY Zenon DEF DeviceAnalysis
<1> HIDE DEF found
<1> QED
  BY <1>1

\* A finding, of one of the severities.
IsFinding(f) == \E s \in 0..4 : \E c, a, t : f = Finding(s, c, a, t)
AreFindings(S) == \A f \in S : IsFinding(f)

\* The severities.
LEMMA Severities ==
  /\ {Critical, Error, Warning, Notice, Info} \subseteq 0..4
  /\ \A n, c, e, w : Rank(n, c, e, w) \in 0..4
BY DEF Critical, Error, Warning, Notice, Info, Rank

\* Age makes a finding milder, down to the mildest.
LEMMA DecayIs ==
  ASSUME NEW f, IsFinding(f), NEW now
  PROVE  DecayByAge(f, now).sev \in 0..4
<1>1. PICK s \in 0..4 : \E c, a, t : f = Finding(s, c, a, t)
  BY DEF IsFinding
<1>2. PICK c, a, t : f = Finding(s, c, a, t)
  BY <1>1
<1>6. f.sev = s /\ \A r : [f EXCEPT !.sev = r].sev = r
  BY <1>2 DEF Finding
<1> DEFINE k == Steps(now - f.ts)
           m == Min({f.sev + k, Info})
<1>3. DecayByAge(f, now) = f \/ DecayByAge(f, now) = [f EXCEPT !.sev = m]
  BY DEF DecayByAge
<1>4. k \in 0..3
  <2> DEFINE age == now - f.ts
  <2> HIDE DEF age
  <2>1. Steps(age) \in 0..3
    BY DEF Steps
  <2> QED
    BY <2>1 DEF age
<1> HIDE DEF k
<1>5. m \in 0..4
  <2> DEFINE S == {f.sev + k, Info}
  <2>1. S \in SUBSET Nat /\ S # {} /\ Info \in S /\ Info = 4
    BY <1>6, <1>4 DEF Info
  <2>2. m = Min(S)
    OBVIOUS
  <2> HIDE DEF S, m
  <2>3. m \in S /\ m <= 4
    BY <2>1, <2>2, LowestIs
  <2> QED
    BY <2>1, <2>3
<1> HIDE DEF m
<1> QED
  BY <1>3, <1>5, <1>6

\* What the rules find are findings.
LEMMA RulesFind ==
  ASSUME NEW d, NEW our, NEW now
  PROVE  /\ AreFindings(Conflicts(d)) /\ AreFindings(ClusterFindings(d))
         /\ AreFindings(ForeignNetworks(d, our)) /\ AreFindings(Vantage(d))
         /\ AreFindings(ChannelNoise(d)) /\ AreFindings(Rejoiners(d, now))
         /\ AreFindings(Coordinator(d, now)) /\ AreFindings(Decryption(d))
         /\ AreFindings(FromHA(d)) /\ \A r : AreFindings(SilentFinding(r, now))
<1>0. \A c, a, t : /\ IsFinding(Finding(Critical, c, a, t)) /\ IsFinding(Finding(Error, c, a, t))
                   /\ IsFinding(Finding(Warning, c, a, t)) /\ IsFinding(Finding(Notice, c, a, t))
                   /\ IsFinding(Finding(Info, c, a, t))
  <2>1. \A s \in 0..4 : \A c, a, t : IsFinding(Finding(s, c, a, t))
    BY Zenon DEF IsFinding
  <2> QED
    BY <2>1, Severities
<1>1. AreFindings(Conflicts(d))
  BY <1>0, Zenon DEF Conflicts, AreFindings
<1>2. AreFindings(ClusterFindings(d))
  <2>1. ASSUME NEW c PROVE IsFinding(ClusterFinding(c))
    <3> DEFINE sev == Rank(Len(c), 20, 8, 3)
               targets == {e.target : e \in Range(c)}
               reporters == {e.reporter : e \in Range(c)} \ {0}
               ts == c[Len(c)].ts
               one == Cardinality(reporters) = 1 /\ Cardinality(targets) >= 3
               two == Cardinality(targets) = 1
               x == CHOOSE r \in reporters : TRUE
               y == CHOOSE t \in targets : TRUE
    <3>1. ClusterFinding(c) = CASE one -> Finding(sev, "Router health", x, ts)
                                [] two -> Finding(sev, "Route failure", y, ts)
                                [] OTHER -> Finding(sev, "Mesh event", Absent, ts)
      BY Zenon DEF ClusterFinding
    <3> HIDE DEF targets, reporters
    <3>2. one \in BOOLEAN /\ two \in BOOLEAN /\ sev \in 0..4
      BY Severities
    <3> HIDE DEF sev, ts, one, two, x, y
    <3>3. (one \/ two \/ ~(one \/ two)) /\ \A cat, a : IsFinding(Finding(sev, cat, a, ts))
      BY <3>2, Zenon DEF IsFinding
    <3>4. CASE one
      <4>1. CASE two
        BY <3>1, <3>3, <3>4, <4>1
      <4>2. CASE ~two
        BY <3>1, <3>3, <3>4, <4>2
      <4> QED
        BY <4>1, <4>2
    <3>5. CASE ~one
      <4>1. CASE two
        BY <3>1, <3>3, <3>5, <4>1
      <4>2. CASE ~two
        BY <3>1, <3>3, <3>5, <4>2
      <4> QED
        BY <4>1, <4>2
    <3> QED
      BY <3>4, <3>5
  <2> QED
    BY <2>1, Zenon DEF ClusterFindings, AreFindings
<1>3. AreFindings(ForeignNetworks(d, our))
  BY <1>0, Zenon DEF ForeignNetworks, AreFindings
<1>4. AreFindings(Vantage(d))
  BY <1>0, Zenon DEF Vantage, AreFindings
<1>5. AreFindings(ChannelNoise(d))
  BY <1>0, Zenon DEF ChannelNoise, AreFindings
<1>6. AreFindings(Rejoiners(d, now))
  <2> DEFINE of(a) == SelectSeq(d.incidents, LAMBDA i :
                        i.reason = "rejoin" /\ i.addr = a /\ i.ts > now - 86400)
             again == {a \in {i.addr : i \in Range(d.incidents)} : Len(of(a)) >= 2}
             S == Top(again, 20, LAMBDA x, y : Len(of(x)) > Len(of(y)))
             sev(a) == IF Len(of(a)) >= 5 THEN Warning ELSE Notice
             ts(a) == Max({i.ts : i \in Range(of(a))})
  <2>1. Rejoiners(d, now) = {Finding(sev(a), "Rejoin", a, ts(a)) : a \in S}
    BY DEF Rejoiners
  <2> HIDE DEF S, ts
  <2>2. \A a : sev(a) \in 0..4
    BY Severities
  <2> HIDE DEF sev
  <2> QED
    BY <2>1, <2>2, Zenon DEF IsFinding, AreFindings
<1>7. AreFindings(Coordinator(d, now))
  BY <1>0 DEF Coordinator, AreFindings, When
<1>8. AreFindings(Decryption(d))
  BY <1>0 DEF Decryption, AreFindings, When
<1>9. AreFindings(FromHA(d))
  BY <1>0, Zenon DEF FromHA, AreFindings
<1>10. ASSUME NEW r PROVE AreFindings(SilentFinding(r, now))
  <2> DEFINE sev(t) == IF now - t > 7200 THEN Warning ELSE Notice
             one == {Finding(sev(r[1].ts), "Silent device", Absent, r[Len(r)].ts)}
             each == {Finding(sev(x.ts), "Silent device", x.addr, x.ts) : x \in Range(r)}
  <2>1. SilentFinding(r, now) = IF Len(r) >= 3 THEN one ELSE each
    BY DEF SilentFinding
  <2>2. \A t : sev(t) \in 0..4
    BY Severities
  <2> HIDE DEF sev
  <2>3. AreFindings(one) /\ AreFindings(each)
    BY <2>2, Zenon DEF IsFinding, AreFindings
  <2> QED
    BY <2>1, <2>3
<1> QED
  BY <1>1, <1>2, <1>3, <1>4, <1>5, <1>6, <1>7, <1>8, <1>9, <1>10

\* Whatever is diagnosed has one of the severities.
LEMMA DiagnosesGraded ==
  ASSUME NEW d, NEW our, NEW now
  PROVE  \A f \in Diagnostics(d, our, now) : f.sev \in Critical..Info
<1> DEFINE silent == UNION {SilentFinding(r, now) : r \in Range(SilentRuns(d, now))}
           raw == Conflicts(d) \cup ClusterFindings(d) \cup ForeignNetworks(d, our) \cup Vantage(d)
                  \cup ChannelNoise(d) \cup Rejoiners(d, now) \cup Coordinator(d, now)
                  \cup Decryption(d) \cup FromHA(d) \cup silent
<1>1. Diagnostics(d, our, now) =
        IF raw = {} THEN {Finding(Info, "All clear", Absent, 0)} ELSE {DecayByAge(f, now) : f \in raw}
  BY Zenon DEF Diagnostics
<1>2. \A f \in raw : IsFinding(f)
  <2>1. \A f \in silent : IsFinding(f)
    BY RulesFind DEF AreFindings
  <2> HIDE DEF silent
  <2> QED
    BY <2>1, RulesFind DEF AreFindings
<1> HIDE DEF raw
<1>3. Finding(Info, "All clear", Absent, 0).sev = 4 /\ Critical = 0 /\ Info = 4
  BY DEF Finding, Critical, Info
<1>4. \A f \in raw : DecayByAge(f, now).sev \in 0..4
  BY <1>2, DecayIs
<1> SUFFICES ASSUME NEW g \in Diagnostics(d, our, now) PROVE g.sev \in 0..4
  BY <1>3
<1>5. g = Finding(Info, "All clear", Absent, 0) \/ \E f \in raw : g = DecayByAge(f, now)
  BY <1>1
<1>6. CASE g = Finding(Info, "All clear", Absent, 0)
  <2>1. g.sev = 4
    BY <1>3, <1>6, Zenon
  <2> QED
    BY <2>1
<1>7. CASE \E f \in raw : g = DecayByAge(f, now)
  BY <1>4, <1>7, Zenon
<1> QED
  BY <1>5, <1>6, <1>7

\* Views that join the store with the names.
LEMMA ViewsHold ==
  ASSUME NEW d, NEW our
  PROVE  /\ LatestEdges(d) \subseteq DOMAIN d.links
         /\ \A ch : MonitorChannel(d, our, ch, 0) \in {0} \cup 11..26
         /\ \A ch : NetworkLabel(d, our, ch, our) = d.pans[our].label
         /\ \A ch, now, pan :
              AirtimeLabel(d, our, ch, now, pan) # Airtime(d, 3600, now).pans[pan].label
              => ch > 0 /\ pan # our
         /\ \A r : ~Enrich(d, r, our, 0).foreign
<1>1. LatestEdges(d) \subseteq DOMAIN d.links
  BY DEF LatestEdges
<1>2. ASSUME NEW ch PROVE MonitorChannel(d, our, ch, 0) \in {0} \cup 11..26
  <2> DEFINE foreign == SelectSeq(Networks(d), LAMBDA p : p # our /\ d.pans[p].ch \in 11..26)
             c == IF 0 # 0 THEN 0 ELSE IF ch > 0 THEN ch
                  ELSE IF foreign = <<>> THEN 0 ELSE d.pans[foreign[1]].ch
  <2>1. MonitorChannel(d, our, ch, 0) = IF c \in 11..26 THEN c ELSE 0
    BY DEF MonitorChannel
  <2> HIDE DEF c
  <2> QED
    BY <2>1
<1>3. ASSUME NEW ch PROVE NetworkLabel(d, our, ch, our) = d.pans[our].label
  BY DEF NetworkLabel
<1>4. ASSUME NEW ch, NEW now, NEW pan,
             AirtimeLabel(d, our, ch, now, pan) # Airtime(d, 3600, now).pans[pan].label
      PROVE  ch > 0 /\ pan # our
  <2> DEFINE p == Airtime(d, 3600, now).pans[pan]
             m == Min(p.channels) = ch
  <2>1. AirtimeLabel(d, our, ch, now, pan) =
          IF pan # our /\ ch > 0 /\ p.label = "" /\ m THEN HueLabel ELSE p.label
    BY DEF AirtimeLabel
  <2>2. AirtimeLabel(d, our, ch, now, pan) # p.label
    BY <1>4
  <2> HIDE DEF p, m
  <2> QED
    BY <2>1, <2>2
<1>5. ASSUME NEW r PROVE ~Enrich(d, r, our, 0).foreign
  <2>1. Hex(0) = 0
    BY DEF Hex
  <2> DEFINE f == our # 0 /\ Hex(0) # 0 /\ d.devices[0].pan \notin {Absent, our}
  <2>2. Enrich(d, r, our, 0).foreign = f
    BY DEF Enrich
  <2> QED
    BY <2>1, <2>2
<1> QED
  BY <1>1, <1>2, <1>3, <1>4, <1>5

\* What holds of the tables makes every answer of the API well formed.
LEMMA AnswersHold == HostInv /\ Books(db) /\ Logs(db) => AnswersOK
<1> SUFFICES ASSUME HostInv, Books(db), Logs(db) PROVE AnswersOK
  OBVIOUS
<1>1. IsFiniteSet(DOMAIN db.devices) /\ IsList(db.incidents)
  BY DEF HostInv, Known, StoreInv, AreDevices
<1>2. IsList(db.packets) /\ IsList(db.probes) /\ IsFiniteSet(DOMAIN db.links) /\ IsList(db.ed)
  BY DEF Logs, Books
<1>3. Cardinality(Routing(db).nodes) = Cardinality(DOMAIN db.devices)
  BY <1>1, RowsCount
<1>4. Len(Incidents(db, 2)) <= 2 /\ Len(Packets(db, 2)) <= 2 /\ Len(Spectrum(db)) <= 2000
  BY <1>1, <1>2, AnswersFit DEF Incidents, Packets, Spectrum
<1>5. \A f \in Diagnostics(db, ours, clock) : f.sev \in Critical..Info
  BY DiagnosesGraded
<1>6. \A a \in DOMAIN ProbeSummary(db) : ProbeSummary(db)[a].acks <= ProbeSummary(db)[a].total
  BY <1>2, ProbesCount
<1>7. \A a : \A p \in Traceroute(db, reg, a) : p[1] = 0 /\ p[Len(p)] = a
  BY <1>2, RoutesLead
<1>8. \A a : DeviceAnalysis(db, a) # {}
  BY AnalysisSays
<1>9. LatestEdges(db) \subseteq DOMAIN db.links
  BY ViewsHold
<1>10. ASSUME NEW ch \in {0, 15}
       PROVE  /\ MonitorChannel(db, ours, ch, 0) \in {0} \cup 11..26
              /\ NetworkLabel(db, ours, ch, ours) = db.pans[ours].label
              /\ \A pan :
                   AirtimeLabel(db, ours, ch, clock, pan) # Airtime(db, 3600, clock).pans[pan].label
                   => ch # 0 /\ pan # ours
  <2>1. \A d, our : \A c : MonitorChannel(d, our, c, 0) \in {0} \cup 11..26
    BY ViewsHold
  <2>2. \A d, our : \A c : NetworkLabel(d, our, c, our) = d.pans[our].label
    BY ViewsHold
  <2>3. \A d, our : \A c, now, pan :
          AirtimeLabel(d, our, c, now, pan) # Airtime(d, 3600, now).pans[pan].label => c > 0 /\ pan # our
    BY ViewsHold
  <2>4. ASSUME NEW pan,
               AirtimeLabel(db, ours, ch, clock, pan) # Airtime(db, 3600, clock).pans[pan].label
        PROVE  ch # 0 /\ pan # ours
    <3>1. ch > 0 /\ pan # ours
      BY <2>3, <2>4
    <3> QED
      BY <3>1
  <2> QED
    BY <2>1, <2>2, <2>4
<1>11. ~Enrich(db, reg, ours, 0).foreign
  <2>1. \A d, our : \A r : ~Enrich(d, r, our, 0).foreign
    BY ViewsHold
  <2> QED
    BY <2>1
<1>12. \A a : a = 0 => ~Enrich(db, reg, ours, a).foreign
  BY <1>11, Zenon
<1>13. NetworksOK
  BY <1>10 DEF NetworksOK
<1>14. DevicesOK
  BY <1>7, <1>8, <1>12 DEF DevicesOK
<1>15. ListsOK
  BY <1>3, <1>4, <1>5, <1>9 DEF ListsOK
<1>16. ProbesOK
  BY <1>6, Zenon DEF ProbesOK
<1> QED
  BY <1>13, <1>14, <1>15, <1>16 DEF AnswersOK

\* Every answer of the API is well formed and bounded, whatever was received,
\* pruned, purged or restarted, and the tables are of their types.
THEOREM StoreTyped == HostSpec => []StoreTypeOK
<1>1. HostSpec => []HostInv
  BY HostInvInit, HostInvStep, PTL DEF HostSpec
<1>2. HostInit => Logs(db)
  BY EmptyLogs DEF HostInit
<1>3. HostInv /\ Books(db) /\ Logs(db) => StoreTypeOK
  BY BooksMean, AnswersHold DEF StoreTypeOK
<1> QED
  BY <1>1, <1>2, <1>3, BooksInit, BooksStep, LogsStep, PTL DEF HostSpec

-------------------------------------------------------------------------------
(* The system.                                                                 *)

\* A step of the system is a step of each part, or leaves it alone.
LEMMA PartsStep ==
  [SystemNext]_systemVars =>
    /\ [HostStep]_namedVars /\ [ShellNext]_shellVars /\ [ChipNext]_chipVars
    /\ [SettingsNext]_settingsVars /\ [JobsNext]_jobVars /\ [SdrNext]_sdrVars
    /\ [WireNext]_wireVars
BY DEF SystemNext, systemVars

\* Whatever parts move between its steps, each part behaves as it does alone.
LEMMA PartsAlone ==
  SystemSpec => /\ HostSpec /\ ShellSpec /\ ChipSpec /\ SettingsSpec
                /\ JobsSpec /\ SdrSpec /\ WireSpec
<1>1. SystemInit => /\ HostInit /\ SourcesInit /\ ShellInit /\ ChipInit
                    /\ SettingsInit /\ JobsInit /\ SdrInit /\ WireInit
  BY DEF SystemInit
<1> QED
  BY <1>1, PartsStep, PTL
     DEF SystemSpec, HostSpec, ShellSpec, ChipSpec, SettingsSpec, JobsSpec, SdrSpec,
         WireSpec

\* What is kept in two places agrees while all the parts move: the tables of the
\* store, store and registry, the flags on the chip and what it told.
THEOREM TablesStayAgreed == SystemSpec => []TablesAgree
<1>1. FailuresAgree /\ ExtsAgree /\ SilencesAgree => TablesAgree
  BY DEF TablesAgree
<1> QED
  BY <1>1, PartsAlone, FailuresCount, AddressesAgree, ChipCorrect, PTL

\* The state of every part has its type, and what the parts keep stays bounded,
\* while all the parts move, wherever the checksum is good enough.
THEOREM SystemTyped == SystemSpec /\ []NoForgery => []HostTypeOK
<1>1. StoreTypeOK /\ NamesTypeOK /\ WireTypeOK /\ JobsTypeOK /\ SdrTypeOK
      /\ SettingsTypeOK /\ ShellTypeOK /\ ChipTypeOK /\ NoForgery => HostTypeOK
  BY DEF HostTypeOK
<1> QED
  BY <1>1, PartsAlone, StoreTyped, OnePollerStays, WireTyped, JobsTyped, SdrTyped,
     SettingsTyped, ShellTyped, ChipTyped, PTL
===============================================================================
