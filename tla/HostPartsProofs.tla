---------------------------- MODULE HostPartsProofs ----------------------------
(* Proofs about the parts of the host that run for themselves (the shell around  *)
(* it, the incident engine of the standalone build, settings, radio jobs, traces *)
(* and the decoder of the serial stream), each for itself.                       *)
EXTENDS ChipIncidents, DesktopShell, SettingsFile, RadioJobs, SdrStore, WireStream,
        RadioCommandsProofs, WellFoundedInduction, FiniteSetTheorems,
        SequenceTheorems, TLAPS

-------------------------------------------------------------------------------
(* The lowest and the highest member of a set of numbers.                      *)

\* A set of natural numbers has a lowest member.
LEMMA LowestIs ==
  ASSUME NEW S \in SUBSET Nat, S # {}
  PROVE  Min(S) \in S /\ \A y \in S : Min(S) <= y
<1>1. PICK m \in S : \A k \in S : <<k, m>> \notin OpToRel(<, Nat)
  BY WFMin, NatLessThanWellFounded, Zenon
<1>2. \A k \in S : m <= k
  <2>1. m \in Nat /\ \A k \in S : k \in Nat
    OBVIOUS
  <2>2. \A k \in S : ~ (k < m)
    BY <1>1, <2>1, Zenon DEF OpToRel
  <2> QED
    BY <2>1, <2>2
<1> QED
  BY <1>2 DEF Min

\* A finite set of integers has a highest and a lowest member.
LEMMA HighestOf ==
  ASSUME NEW S \in SUBSET Int, IsFiniteSet(S), S # {}
  PROVE  Max(S) \in S /\ \A y \in S : Max(S) >= y
<1> DEFINE above(x) == {y \in S : y > x}
           T == {above(x) : x \in S}
<1>1. T \subseteq FiniteSubsetsOf(S) /\ T # {}
  <2>1. \A x \in S : above(x) \subseteq S /\ IsFiniteSet(above(x))
    BY FS_Subset
  <2> QED
    BY <2>1 DEF FiniteSubsetsOf
<1>2. PICK U \in T : \A V \in T : <<V, U>> \notin StrictSubsetOrdering(S)
  <2> HIDE DEF T
  <2> QED
    BY <1>1, FS_StrictSubsetOrderingWellFounded, WFMin, Zenon
<1>3. PICK x \in S : U = above(x)
  BY <1>2
<1>4. \A y \in S : x >= y
  <2>1. SUFFICES ASSUME NEW y \in S, y > x PROVE FALSE
    OBVIOUS
  <2>2. above(y) \subseteq above(x) /\ y \in above(x) /\ y \notin above(y)
    <3>1. ~ (y > y) /\ \A z \in S : z > y => z > x
      BY <2>1
    <3> QED
      BY <2>1, <3>1
  <2>3. <<above(y), U>> \in StrictSubsetOrdering(S)
    BY <1>3, <2>2 DEF StrictSubsetOrdering
  <2> QED
    BY <1>2, <2>3
<1> QED
  BY <1>4 DEF Max

\* The lowest member, as the modules' CHOOSE finds it.
LEMMA LowestOf ==
  ASSUME NEW S \in SUBSET Int, IsFiniteSet(S), S # {}
  PROVE  Min(S) \in S /\ \A y \in S : Min(S) <= y
<1> DEFINE below(x) == {y \in S : y < x}
           T == {below(x) : x \in S}
<1>1. T \subseteq FiniteSubsetsOf(S) /\ T # {}
  <2>1. \A x \in S : below(x) \subseteq S /\ IsFiniteSet(below(x))
    BY FS_Subset
  <2> QED
    BY <2>1 DEF FiniteSubsetsOf
<1>2. PICK U \in T : \A V \in T : <<V, U>> \notin StrictSubsetOrdering(S)
  <2> HIDE DEF T
  <2> QED
    BY <1>1, FS_StrictSubsetOrderingWellFounded, WFMin, Zenon
<1>3. PICK x \in S : U = below(x)
  BY <1>2
<1>4. \A y \in S : x <= y
  <2>1. SUFFICES ASSUME NEW y \in S, y < x PROVE FALSE
    OBVIOUS
  <2>2. below(y) \subseteq below(x) /\ y \in below(x) /\ y \notin below(y)
    <3>1. ~ (y < y) /\ \A z \in S : z < y => z < x
      BY <2>1
    <3> QED
      BY <2>1, <3>1
  <2>3. <<below(y), U>> \in StrictSubsetOrdering(S)
    BY <1>3, <2>2 DEF StrictSubsetOrdering
  <2> QED
    BY <1>2, <2>3
<1> QED
  BY <1>4 DEF Min

-------------------------------------------------------------------------------
(* Sequences and finite sets in order.                                         *)

\* A sequence, of whatever it holds.
IsList(s) == s \in Seq(Range(s))

\* What is used of a sequence.
LEMMA Lists ==
  /\ IsList(<<>>) /\ \A s, S : s \in Seq(S) => IsList(s)
  /\ \A s : IsList(s) => Len(s) \in Nat /\ DOMAIN s = 1..Len(s)
<1>1. IsList(<<>>)
  BY DEF IsList
<1>2. ASSUME NEW S, NEW s \in Seq(S) PROVE IsList(s)
  <2>1. Len(s) \in Nat /\ DOMAIN s = 1..Len(s) /\ s = [i \in 1..Len(s) |-> s[i]]
    OBVIOUS
  <2>2. \A i \in 1..Len(s) : s[i] \in Range(s)
    BY <2>1 DEF Range
  <2> QED
    BY <2>1, <2>2 DEF IsList
<1>3. ASSUME NEW s, IsList(s) PROVE Len(s) \in Nat /\ DOMAIN s = 1..Len(s)
  BY <1>3 DEF IsList
<1> QED
  BY <1>1, <1>2, <1>3

LEMMA Appended ==
  ASSUME NEW s, IsList(s), NEW x
  PROVE  /\ IsList(Append(s, x)) /\ Len(Append(s, x)) = Len(s) + 1
         /\ \A i \in 1..Len(s) : Append(s, x)[i] = s[i]
         /\ Append(s, x)[Len(s) + 1] = x
<1>1. s \in Seq(Range(s) \cup {x}) /\ x \in Range(s) \cup {x}
  BY Lists DEF IsList, Range
<1>2. /\ Append(s, x) \in Seq(Range(s) \cup {x}) /\ Len(Append(s, x)) = Len(s) + 1
      /\ \A i \in 1..Len(s) : Append(s, x)[i] = s[i]
      /\ Append(s, x)[Len(s) + 1] = x
  <2> HIDE DEF Range
  <2> DEFINE S == Range(s) \cup {x}
  <2>1. s \in Seq(S) /\ x \in S
    BY <1>1
  <2> HIDE DEF S
  <2>2. Append(s, x) \in Seq(S) /\ Len(Append(s, x)) = Len(s) + 1
    BY <2>1, AppendProperties
  <2>3. (\A i \in 1..Len(s) : Append(s, x)[i] = s[i]) /\ Append(s, x)[Len(s) + 1] = x
    BY <2>1, AppendProperties
  <2> QED
    BY <2>2, <2>3 DEF S
<1>3. IsList(Append(s, x))
  BY <1>2, Lists, Zenon
<1> QED
  BY <1>2, <1>3

\* R orders S: of two members one comes first, and what comes before comes before.
Orders(R, S) ==
  /\ \A x \in S : <<x, x>> \notin R
  /\ \A x, y \in S : x # y => <<x, y>> \in R \/ <<y, x>> \in R
  /\ \A x, y, z \in S : <<x, y>> \in R /\ <<y, z>> \in R => <<x, z>> \in R
\* The rows f lists in the order R.
Listed(f, R, S) ==
  /\ Len(f) = Cardinality(S) /\ Len(f) \in Nat /\ DOMAIN f = 1..Len(f)
  /\ f = [k \in 1..Len(f) |-> f[k]]
  /\ \A k \in 1..Len(f) : f[k] \in S
  /\ \A x \in S : \E k \in 1..Len(f) : f[k] = x
  /\ \A k, l \in 1..Len(f) : k < l => <<f[k], f[l]>> \in R
Ahead(x, R, S) == {y \in S : <<y, x>> \in R}

\* Every place is some member's: that of as many as come before it.
LEMMA RankedIs ==
  ASSUME NEW S, IsFiniteSet(S), NEW R, Orders(R, S)
  PROVE  /\ \A k \in 1..Cardinality(S) : \E x \in S : Cardinality(Ahead(x, R, S)) = k - 1
         /\ \A f : /\ f = [k \in 1..Cardinality(S) |-> f[k]]
                   /\ \A k \in 1..Cardinality(S) :
                        f[k] \in S /\ Cardinality(Ahead(f[k], R, S)) = k - 1
                   => Listed(f, R, S)
<1> DEFINE n == Cardinality(S)
           rank == [x \in S |-> Cardinality(Ahead(x, R, S)) + 1]
<1>1. n \in Nat /\ IsFiniteSet(1..n) /\ Cardinality(1..n) = n
  <2>1. n \in Nat
    BY FS_CardinalityType
  <2> QED
    BY <2>1, FS_Interval
<1>2. ASSUME NEW x \in S
      PROVE  IsFiniteSet(Ahead(x, R, S)) /\ Cardinality(Ahead(x, R, S)) \in Nat /\ rank[x] \in 1..n
  <2> DEFINE b == Ahead(x, R, S)
  <2>1. b \in SUBSET S /\ x \notin b /\ rank[x] = Cardinality(b) + 1
    BY DEF Ahead, Orders
  <2> HIDE DEF b, rank
  <2>2. IsFiniteSet(b) /\ Cardinality(b) <= n /\ Cardinality(b) # n /\ Cardinality(b) \in Nat
    BY <2>1, FS_Subset, FS_CardinalityType
  <2> QED
    BY <1>1, <2>1, <2>2 DEF b
<1>3. ASSUME NEW x \in S, NEW y \in S, <<x, y>> \in R PROVE rank[x] < rank[y]
  <2>1. Ahead(x, R, S) \subseteq Ahead(y, R, S) /\ x \in Ahead(y, R, S) /\ x \notin Ahead(x, R, S)
    BY <1>3 DEF Ahead, Orders
  <2>2. Cardinality(Ahead(x, R, S)) <= Cardinality(Ahead(y, R, S))
        /\ Cardinality(Ahead(x, R, S)) # Cardinality(Ahead(y, R, S))
    BY <1>2, <2>1, FS_Subset
  <2> QED
    BY <1>2, <2>2
<1>4. rank \in [S -> 1..n]
  BY <1>2
<1>5. \A x \in S : rank[x] = Cardinality(Ahead(x, R, S)) + 1
  OBVIOUS
<1> HIDE DEF rank
<1>6. \A x, y \in S : rank[x] = rank[y] => x = y
  <2> SUFFICES ASSUME NEW x \in S, NEW y \in S, x # y, rank[x] = rank[y] PROVE FALSE
    OBVIOUS
  <2>1. <<x, y>> \in R \/ <<y, x>> \in R
    BY DEF Orders
  <2>2. rank[x] \in 1..n /\ rank[y] \in 1..n
    BY <1>4
  <2> QED
    BY <1>3, <2>1, <2>2
<1>7. rank \in Surjection(S, 1..n)
  <2>1. rank \in Injection(S, 1..n)
    BY <1>4, <1>6 DEF Injection, IsInjective
  <2> QED
    BY <1>1, <2>1, FS_Injection
<1>8. ASSUME NEW k \in 1..n PROVE \E x \in S : Cardinality(Ahead(x, R, S)) = k - 1
  <2>1. PICK x \in S : rank[x] = k
    BY <1>7 DEF Surjection
  <2> QED
    BY <1>2, <1>5, <2>1
<1>9. ASSUME NEW f, f = [k \in 1..n |-> f[k]],
             \A k \in 1..n : f[k] \in S /\ Cardinality(Ahead(f[k], R, S)) = k - 1
      PROVE  Listed(f, R, S)
  <2>1. \A k \in 1..n : f[k] \in S /\ rank[f[k]] = k
    BY <1>2, <1>5, <1>9
  <2>2. DOMAIN f = 1..n /\ Len(f) = n
    BY <1>1, <1>9
  <2>3. \A x \in S : \E k \in 1..n : f[k] = x
    <3> TAKE x \in S
    <3>1. rank[x] \in 1..n
      BY <1>4
    <3>2. f[rank[x]] = x
      BY <1>6, <2>1, <3>1
    <3> QED
      BY <3>1, <3>2
  <2>4. \A k, l \in 1..n : k < l => <<f[k], f[l]>> \in R
    <3> TAKE k, l \in 1..n
    <3> HAVE k < l
    <3>1. f[k] \in S /\ f[l] \in S /\ rank[f[k]] = k /\ rank[f[l]] = l
      BY <2>1
    <3>2. f[k] # f[l] /\ <<f[l], f[k]>> \notin R
      BY <1>3, <3>1
    <3> QED
      BY <3>1, <3>2 DEF Orders
  <2> QED
    BY <1>1, <1>9, <2>1, <2>2, <2>3, <2>4 DEF Listed
<1> QED
  BY <1>8, <1>9

\* Numbers from low to high.
Lower(S) == {p \in S \X S : p[1] < p[2]}
\* Numbers are listed in their order.
LEMMA AscendingIs ==
  ASSUME NEW S \in SUBSET Int, IsFiniteSet(S)
  PROVE  Listed(InOrder(S, <), Lower(S), S)
<1> DEFINE R == Lower(S)
           n == Cardinality(S)
           f == InOrder(S, <)
<1>1. Orders(R, S)
  BY DEF Orders, Lower
<1>2. \A x \in S : {y \in S : y < x} = Ahead(x, R, S)
  BY DEF Ahead, Lower
<1>3. f = [k \in 1..n |-> f[k]]
  BY SMTT(30) DEF InOrder
<1>4. \A k \in 1..n : f[k] = CHOOSE x \in S : Cardinality({y \in S : y < x}) = k - 1
  BY DEF InOrder
<1> HIDE DEF f, R
<1>5. \A k \in 1..n : f[k] \in S /\ Cardinality(Ahead(f[k], R, S)) = k - 1
  <2> TAKE k \in 1..n
  <2>1. \E x \in S : Cardinality({y \in S : y < x}) = k - 1
    BY <1>1, <1>2, RankedIs
  <2>2. f[k] \in S /\ Cardinality({y \in S : y < f[k]}) = k - 1
    BY <1>4, <2>1
  <2> QED
    BY <1>2, <2>2
<1>6. Listed(f, R, S)
  BY <1>1, <1>3, <1>5, RankedIs
<1> QED
  BY <1>6 DEF f, R

-------------------------------------------------------------------------------
(* The desktop shell leaves no host behind (HostGoesWithShell of DesktopShell),*)
(* for behaviours of any length.                                               *)

ShellSpec == ShellInit /\ [][ShellNext]_shellVars

\* The shell is gone only by a signal that came early, without a host, or after
\* stop was done with it; stop is done only with a host that has ended; and no
\* host is started once one was.
ShellInv ==
  /\ ShellTypeOK
  /\ window = "before" => child = "none"
  /\ halt = "done" => child = "exited"
  /\ window = "gone" => early \/ child = "none" \/ halt = "done"

LEMMA ShellInvInit == ShellInit => ShellInv
BY DEF ShellInit, ShellInv, ShellTypeOK

\* One step for each action of the shell.
LEMMA ShellInvStep == ShellInv /\ [ShellNext]_shellVars => ShellInv'
<1> SUFFICES ASSUME ShellInv, [ShellNext]_shellVars PROVE ShellInv'
  OBVIOUS
<1> USE DEF ShellInv, ShellTypeOK
<1>1. CASE StartServer  BY <1>1 DEF StartServer
<1>2. CASE Notify       BY <1>2 DEF Notify
<1>3. CASE Startup      BY <1>3 DEF Startup
<1>4. CASE WaitReady    BY <1>4 DEF WaitReady
<1>5. CASE HostServes   BY <1>5 DEF HostServes
<1>6. CASE HostEnds     BY <1>6 DEF HostEnds, Running
<1>7. CASE Quit         BY <1>7 DEF Quit
<1>8. CASE SignalShell  BY <1>8 DEF SignalShell
<1>9. CASE Stop1        BY <1>9 DEF Stop1, AfterTerm, Running
<1>10. CASE Gone        BY <1>10 DEF Gone
<1>11. CASE Tell        BY <1>11 DEF Tell
<1>12. CASE UNCHANGED shellVars  BY <1>12 DEF shellVars
<1> QED
  BY <1>1, <1>2, <1>3, <1>4, <1>5, <1>6, <1>7, <1>8, <1>9, <1>10, <1>11, <1>12 DEF ShellNext

\* However window, signals, crash dialog and a slow or crashed host interleave,
\* the host has ended when the application is gone (stop in cmd/zbsniff-desktop).
THEOREM ShellCorrect == ShellSpec => []HostGoesWithShell
<1>1. ShellInv => HostGoesWithShell
  BY DEF ShellInv, HostGoesWithShell, Running
<1> QED
  BY ShellInvInit, ShellInvStep, <1>1, PTL DEF ShellSpec

\* The shell's parts are in one of their states each.
THEOREM ShellTyped == ShellSpec => []ShellTypeOK
<1>1. ShellInv => ShellTypeOK
  BY DEF ShellInv
<1> QED
  BY ShellInvInit, ShellInvStep, <1>1, PTL DEF ShellSpec

-------------------------------------------------------------------------------
(* What the two tasks of the incident engine tell agrees with the flags they   *)
(* keep (SilencesAgree of ChipIncidents), for any number of devices, table     *)
(* size and threshold, without a lock between the tasks.                       *)

ChipSpec == ChipInit /\ [][ChipNext]_chipVars

Device == [addr : Chips, last : Nat, count : Nat, down : BOOLEAN]
Followed(a) == \E i \in DOMAIN devs : devs[i].addr = a

ChipTypes ==
  /\ devs \in Seq(Device) /\ time \in Nat /\ flash \in Nat /\ told \in [Chips -> Int]
  /\ look \in [at : Nat, step : {"look", "flag", "log"}, by : Nat]
  /\ noting \in Chips \cup {-1}

\* An entry that is about to be flagged is not flagged: only the main task does.
Unflagged == look.at # 0 /\ look.step = "flag" => ~devs[look.at].down
\* Nothing was told, nor is about to be, of an address that has no entry.
Untold == \A a \in Chips : ~Followed(a) => told[a] = 0 /\ noting # a

ChipInv == ChipTypes /\ ChipTypeOK /\ Unflagged /\ Untold /\ SilencesAgree

-------------------------------------------------------------------------------
\* The entry of an address is one that bears it, and is missing only if none does.
LEMMA EntryBears ==
  ASSUME NEW a, devs \in Seq(Device)
  PROVE  \/ Entry(a) \in DOMAIN devs /\ devs[Entry(a)].addr = a
         \/ Entry(a) = 0 /\ ~Followed(a)
BY DEF Entry, Followed

\* An address is no mark for "none".
LEMMA ChipIsAddress == ASSUME NEW a \in Chips PROVE a # -1
BY ChipAssumption DEF ChipAssumption

\* The table's bound is a number.
LEMMA BoundIsNat == MaxDevs \in Nat
BY ChipAssumption DEF ChipAssumption

\* An entry that is heard stays one and is not down.
LEMMA HeardIsUp ==
  ASSUME NEW d \in Device, NEW t \in Nat
  PROVE  LET h == [d EXCEPT !.last = t, !.count = IF @ < ChipFrames THEN @ + 1 ELSE @, !.down = FALSE]
         IN h \in Device /\ h.addr = d.addr /\ ~h.down
<1> DEFINE c == IF d.count < ChipFrames THEN d.count + 1 ELSE d.count
           h == [d EXCEPT !.last = t, !.count = c, !.down = FALSE]
<1>1. d.addr \in Chips /\ d.count \in Nat
  BY DEF Device
<1>2. c \in Nat
  BY <1>1
<1> HIDE DEF c
<1>3. h \in Device /\ h.addr = d.addr /\ ~h.down
  BY <1>1, <1>2 DEF Device
<1> QED
  BY <1>3 DEF c

LEMMA ChipInvInit == ChipInit => ChipInv
<1> SUFFICES ASSUME ChipInit PROVE ChipInv
  OBVIOUS
<1>1. devs = <<>> /\ devs \in Seq(Device) /\ Len(devs) = 0 /\ DOMAIN devs = {}
  BY DEF ChipInit
<1>2. look.at = 0 /\ look.step = "look" /\ look.by = 0 /\ noting = -1
  BY DEF ChipInit, Idle
<1>3. ChipTypes
  BY <1>1 DEF ChipInit, Idle, ChipTypes
<1>4. ChipTypeOK /\ Unflagged /\ SilencesAgree
  BY <1>1, <1>2, BoundIsNat DEF ChipTypeOK, Unflagged, SilencesAgree
<1>5. Untold
  BY <1>2, ChipIsAddress DEF ChipInit, Untold
<1> QED
  BY <1>3, <1>4, <1>5 DEF ChipInv

-------------------------------------------------------------------------------
\* A frame of a device that has an entry: its silence is over, and told to be.
LEMMA NoteKnown ==
  ASSUME ChipInv, NEW a \in Chips, NoteFrame(a), Entry(a) # 0
  PROVE  ChipInv'
<1> DEFINE i == Entry(a)
           heard == [devs[i] EXCEPT !.last = time,
                       !.count = IF @ < ChipFrames THEN @ + 1 ELSE @, !.down = FALSE]
<1>1. devs \in Seq(Device) /\ ChipTypes
  BY DEF ChipInv, ChipTypes
<1>2. i \in DOMAIN devs /\ devs[i].addr = a /\ i <= Len(devs)
  BY <1>1, EntryBears
<1>3. /\ devs' = [devs EXCEPT ![i] = heard]
      /\ noting = -1 /\ noting' = IF devs[i].down THEN a ELSE -1
      /\ UNCHANGED <<time, flash, told, look>>
  BY <1>2, <1>1 DEF NoteFrame
<1>4. devs[i] \in Device
  BY <1>1, <1>2
<1>5. heard \in Device /\ heard.addr = a /\ ~heard.down
  BY <1>1, <1>2, <1>4, HeardIsUp DEF ChipTypes
<1> HIDE DEF heard, i
<1>6. /\ devs' \in Seq(Device) /\ Len(devs') = Len(devs) /\ DOMAIN devs' = DOMAIN devs
      /\ devs'[i] = heard /\ \A j \in DOMAIN devs : j # i => devs'[j] = devs[j]
  BY <1>1, <1>2, <1>3, <1>5
<1>7. \A j \in DOMAIN devs : devs'[j].addr = devs[j].addr
  BY <1>2, <1>5, <1>6
<1>8. ChipTypes'
  BY <1>1, <1>3, <1>6 DEF ChipTypes
<1>9. ChipTypeOK'
  BY <1>3, <1>6, <1>7 DEF ChipInv, ChipTypeOK
<1>10. Unflagged'
  BY <1>3, <1>5, <1>6 DEF ChipInv, ChipTypeOK, Unflagged
<1>11. Untold'
  BY <1>2, <1>3, <1>6, <1>7 DEF ChipInv, Untold, Followed
<1>12. SilencesAgree'
  <2> SUFFICES ASSUME NEW j \in DOMAIN devs
               PROVE (IF devs'[j].down THEN 1 ELSE 0)
                       = told[devs[j].addr] + (IF look.at = j /\ look.step = "log" THEN 1 ELSE 0)
                         - (IF noting' = devs[j].addr THEN 1 ELSE 0)
    BY <1>3, <1>6, <1>7 DEF SilencesAgree
  <2>1. devs[j].addr \in Chips /\ told[devs[j].addr] \in Int /\ devs[j].addr # -1
    <3>1. devs[j] \in Device
      BY <1>1
    <3> QED
      BY <1>1, <3>1, ChipIsAddress DEF ChipTypes, Device
  <2>2. (IF devs[j].down THEN 1 ELSE 0)
           = told[devs[j].addr] + (IF look.at = j /\ look.step = "log" THEN 1 ELSE 0)
    BY <1>3, <2>1 DEF ChipInv, SilencesAgree
  <2>3. j # i => devs[j].addr # a
    BY <1>2 DEF ChipInv, ChipTypeOK
  <2> QED
    BY <1>2, <1>3, <1>5, <1>6, <2>1, <2>2, <2>3
<1> QED
  BY <1>8, <1>9, <1>10, <1>11, <1>12 DEF ChipInv

\* A frame of a device that gets an entry.
LEMMA NoteNew ==
  ASSUME ChipInv, NEW a \in Chips, NoteFrame(a), Entry(a) = 0
  PROVE  ChipInv'
<1> DEFINE n == Len(devs) + 1
           heard == [Fresh(a) EXCEPT !.last = time,
                       !.count = IF @ < ChipFrames THEN @ + 1 ELSE @, !.down = FALSE]
<1>1. devs \in Seq(Device) /\ ChipTypes /\ Len(devs) \in Nat
  BY DEF ChipInv, ChipTypes
<1>2. ~Followed(a)
  BY <1>1, EntryBears
<1>3. /\ Len(devs) < MaxDevs
      /\ devs' = Append(devs, heard) /\ noting = -1 /\ noting' = -1
      /\ UNCHANGED <<time, flash, told, look>>
  BY <1>1, ChipAssumption DEF NoteFrame, Fresh, ChipAssumption
<1>4. heard \in Device /\ heard.addr = a /\ ~heard.down
  <2>1. Fresh(a) \in Device /\ Fresh(a).addr = a
    BY DEF Fresh, Device
  <2> QED
    BY <1>1, <2>1, HeardIsUp DEF ChipTypes
<1> HIDE DEF heard
<1>5. /\ devs' \in Seq(Device) /\ Len(devs') = n /\ devs'[n] = heard
      /\ \A j \in DOMAIN devs : devs'[j] = devs[j]
      /\ \A j \in DOMAIN devs' : j \in DOMAIN devs \/ j = n
      /\ n \notin DOMAIN devs /\ n \in DOMAIN devs'
      /\ \A j \in DOMAIN devs : j \in DOMAIN devs'
  BY <1>1, <1>3, <1>4
<1> HIDE DEF n
<1>6. ChipTypes'
  BY <1>1, <1>3, <1>5 DEF ChipTypes
<1>7. ChipTypeOK'
  <2>1. Len(devs') <= MaxDevs /\ look' = look /\ look.at \in 0..Len(devs')
    BY <1>1, <1>3, <1>5, BoundIsNat DEF ChipInv, ChipTypeOK, n
  <2>2. \A j, k \in DOMAIN devs' : devs'[j].addr = devs'[k].addr => j = k
    BY <1>2, <1>4, <1>5 DEF ChipInv, ChipTypeOK, Followed
  <2> QED
    BY <2>1, <2>2 DEF ChipInv, ChipTypeOK
<1>8. look.at # 0 => look.at \in DOMAIN devs
  BY <1>1 DEF ChipInv, ChipTypeOK
<1>9. Unflagged'
  BY <1>3, <1>5, <1>8 DEF ChipInv, Unflagged
<1>10. Untold'
  BY <1>3, <1>5 DEF ChipInv, Untold, Followed
<1>11. SilencesAgree'
  <2> SUFFICES ASSUME NEW j \in DOMAIN devs'
               PROVE (IF devs'[j].down THEN 1 ELSE 0)
                       = told[devs'[j].addr] + (IF look.at = j /\ look.step = "log" THEN 1 ELSE 0)
                         - (IF -1 = devs'[j].addr THEN 1 ELSE 0)
    BY <1>3 DEF SilencesAgree
  <2>1. CASE j \in DOMAIN devs
    BY <2>1, <1>3, <1>5 DEF ChipInv, SilencesAgree
  <2>2. CASE j = n
    <3>1. told[a] = 0 /\ a # -1 /\ look.at # n /\ n # 0
      BY <1>1, <1>2, <1>5, <1>8, ChipIsAddress DEF ChipInv, Untold, n
    <3> QED
      BY <2>2, <3>1, <1>4, <1>5
  <2> QED
    BY <2>1, <2>2, <1>5
<1> QED
  BY <1>6, <1>7, <1>9, <1>10, <1>11 DEF ChipInv

-------------------------------------------------------------------------------
\* What the main task's place says, for the steps that move it.
LEMMA AtEntry ==
  ASSUME ChipInv
  PROVE  /\ devs \in Seq(Device) /\ Len(devs) \in Nat /\ DOMAIN devs = 1..Len(devs)
         /\ look.at \in 0..Len(devs) /\ (look.at # 0 => look.at \in DOMAIN devs)
         /\ look = [at |-> look.at, step |-> look.step, by |-> look.by]
         /\ look.at \in Nat /\ look.by \in Nat /\ look.step \in {"look", "flag", "log"}
         /\ \A i \in DOMAIN devs : devs[i].addr \in Chips /\ told[devs[i].addr] \in Int
<1>1. devs \in Seq(Device) /\ Len(devs) \in Nat /\ DOMAIN devs = 1..Len(devs)
  BY DEF ChipInv, ChipTypes
<1>2. \A i \in DOMAIN devs : devs[i] \in Device
  BY <1>1
<1> QED
  BY <1>1, <1>2 DEF ChipInv, ChipTypes, ChipTypeOK, Device

\* Going on to the next entry, or to rest, leaves nothing half told.
LEMMA GoesOn ==
  ASSUME ChipInv, look.at # 0, Onward
  PROVE  /\ look' \in [at : Nat, step : {"look", "flag", "log"}, by : Nat]
         /\ look'.at \in 0..Len(devs) /\ look'.step = "look"
<1>1. CASE look.at = Len(devs)
  BY <1>1, AtEntry DEF Onward, Idle
<1>2. CASE look.at # Len(devs)
  <2>1. look' = [at |-> look.at + 1, step |-> "look", by |-> look.by]
    BY <1>2, AtEntry DEF Onward
  <2> QED
    BY <1>2, <2>1, AtEntry
<1> QED
  BY <1>1, <1>2

\* The poll task logs the recovery it noted.
LEMMA RecoveryStep == ASSUME ChipInv, LogRecovery PROVE ChipInv'
<1>1. /\ noting \in Chips /\ noting' = -1 /\ told' = [told EXCEPT ![noting] = @ - 1]
      /\ told \in [Chips -> Int] /\ flash' = flash + 1 /\ flash \in Nat
      /\ UNCHANGED <<devs, time, look>>
  BY DEF LogRecovery, Tally, ChipInv, ChipTypes
<1>2. ChipTypes' /\ ChipTypeOK' /\ Unflagged'
  BY <1>1 DEF ChipInv, ChipTypes, ChipTypeOK, Unflagged
<1>3. Untold'
  BY <1>1, ChipIsAddress DEF ChipInv, Untold, Followed
<1>4. SilencesAgree'
  <2> SUFFICES ASSUME NEW j \in DOMAIN devs
               PROVE (IF devs[j].down THEN 1 ELSE 0)
                       = told'[devs[j].addr] + (IF look.at = j /\ look.step = "log" THEN 1 ELSE 0)
                         - (IF -1 = devs[j].addr THEN 1 ELSE 0)
    BY <1>1 DEF SilencesAgree
  <2>1. devs[j].addr \in Chips /\ told[devs[j].addr] \in Int /\ devs[j].addr # -1
    BY AtEntry, ChipIsAddress
  <2>2. (IF devs[j].down THEN 1 ELSE 0)
           = told[devs[j].addr] + (IF look.at = j /\ look.step = "log" THEN 1 ELSE 0)
             - (IF noting = devs[j].addr THEN 1 ELSE 0)
    BY DEF ChipInv, SilencesAgree
  <2> QED
    BY <1>1, <2>1, <2>2
<1> QED
  BY <1>2, <1>3, <1>4 DEF ChipInv

LEMMA TimeStep == ASSUME ChipInv, TimePasses PROVE ChipInv'
<1>1. time' = time + 1 /\ UNCHANGED <<devs, flash, told, look, noting>>
  BY DEF TimePasses
<1> QED
  BY <1>1 DEF ChipInv, ChipTypes, ChipTypeOK, Unflagged, Untold, Followed, SilencesAgree

LEMMA TickStep == ASSUME ChipInv, TickStarts PROVE ChipInv'
<1>1. /\ look = Idle /\ devs # <<>> /\ look' = [at |-> 1, step |-> "look", by |-> time]
      /\ UNCHANGED <<devs, time, flash, told, noting>>
  BY DEF TickStarts
<1>2. 1 \in 0..Len(devs)
  BY <1>1, AtEntry
<1>3. ChipTypes' /\ ChipTypeOK' /\ Unflagged' /\ Untold'
  BY <1>1, <1>2 DEF ChipInv, ChipTypes, ChipTypeOK, Unflagged, Untold, Followed
<1>4. SilencesAgree'
  BY <1>1 DEF ChipInv, SilencesAgree, Idle
<1> QED
  BY <1>3, <1>4 DEF ChipInv

\* The main task looks at an entry.
LEMMA LookStep == ASSUME ChipInv, LookAt PROVE ChipInv'
<1>1. /\ look.at # 0 /\ look.step = "look" /\ UNCHANGED <<devs, time, flash, told, noting>>
  BY DEF LookAt, At
<1>2. CASE Suspect(devs[look.at])
  <2>1. look' = [at |-> look.at, step |-> "flag", by |-> look.by]
    BY <1>2, AtEntry DEF LookAt
  <2>2. ChipTypes' /\ ChipTypeOK' /\ Untold'
    BY <1>1, <2>1, AtEntry DEF ChipInv, ChipTypes, ChipTypeOK, Untold, Followed
  <2>3. Unflagged'
    BY <1>1, <1>2, <2>1 DEF Unflagged, Suspect
  <2>4. SilencesAgree'
    BY <1>1, <2>1 DEF ChipInv, SilencesAgree
  <2> QED
    BY <2>2, <2>3, <2>4 DEF ChipInv
<1>3. CASE ~Suspect(devs[look.at])
  <2>1. /\ look' \in [at : Nat, step : {"look", "flag", "log"}, by : Nat]
        /\ look'.at \in 0..Len(devs) /\ look'.step = "look"
    BY <1>1, <1>3, GoesOn DEF LookAt
  <2>2. ChipTypes' /\ ChipTypeOK' /\ Untold' /\ Unflagged'
    BY <1>1, <2>1 DEF ChipInv, ChipTypes, ChipTypeOK, Untold, Followed, Unflagged
  <2>3. SilencesAgree'
    BY <1>1, <2>1 DEF ChipInv, SilencesAgree
  <2> QED
    BY <2>2, <2>3 DEF ChipInv
<1> QED
  BY <1>2, <1>3

\* It raises the flag, which the poll task may have touched since.
LEMMA FlagStep == ASSUME ChipInv, Flag PROVE ChipInv'
<1> DEFINE n == look.at
           flagged == [devs[n] EXCEPT !.down = TRUE]
<1>1. /\ n \in DOMAIN devs /\ n # 0 /\ look.step = "flag"
      /\ look' = [at |-> n, step |-> "log", by |-> look.by]
      /\ devs' = [devs EXCEPT ![n] = flagged] /\ UNCHANGED <<time, flash, told, noting>>
  BY AtEntry DEF Flag, At
<1>2. devs[n] \in Device
  BY <1>1, AtEntry
<1>3. flagged \in Device /\ flagged.addr = devs[n].addr /\ flagged.down
  BY <1>2 DEF Device
<1>4. ~devs[n].down
  BY <1>1 DEF ChipInv, Unflagged
<1> HIDE DEF flagged
<1>5. /\ devs' \in Seq(Device) /\ Len(devs') = Len(devs) /\ DOMAIN devs' = DOMAIN devs
      /\ devs'[n] = flagged /\ \A j \in DOMAIN devs : j # n => devs'[j] = devs[j]
  BY <1>1, <1>3, AtEntry
<1>6. \A j \in DOMAIN devs : devs'[j].addr = devs[j].addr
  BY <1>3, <1>5
<1>7. n \in Nat /\ look.by \in Nat /\ n \in 0..Len(devs)
  BY AtEntry
<1> HIDE DEF n
<1>8. look' \in [at : Nat, step : {"look", "flag", "log"}, by : Nat] /\ look'.at = n /\ look'.step = "log"
  BY <1>1, <1>7
<1>9. ChipTypes' /\ Unflagged'
  BY <1>1, <1>5, <1>8 DEF ChipInv, ChipTypes, Unflagged
<1>10. ChipTypeOK'
  BY <1>5, <1>6, <1>7, <1>8 DEF ChipInv, ChipTypeOK
<1>11. Untold'
  BY <1>1, <1>5, <1>6 DEF ChipInv, Untold, Followed
<1>12. SilencesAgree'
  <2> SUFFICES ASSUME NEW j \in DOMAIN devs
               PROVE (IF devs'[j].down THEN 1 ELSE 0)
                       = told[devs[j].addr] + (IF n = j THEN 1 ELSE 0)
                         - (IF noting = devs[j].addr THEN 1 ELSE 0)
    BY <1>1, <1>5, <1>6, <1>8 DEF SilencesAgree
  <2>1. (IF devs[j].down THEN 1 ELSE 0)
           = told[devs[j].addr] - (IF noting = devs[j].addr THEN 1 ELSE 0)
    BY <1>1, AtEntry DEF ChipInv, SilencesAgree
  <2>2. told[devs[j].addr] \in Int
    BY AtEntry
  <2> QED
    BY <1>3, <1>4, <1>5, <2>1, <2>2
<1> QED
  BY <1>9, <1>10, <1>11, <1>12 DEF ChipInv

\* It logs the silence and goes on.
LEMMA SilenceStep == ASSUME ChipInv, LogSilence PROVE ChipInv'
<1> DEFINE n == look.at
           b == devs[n].addr
<1>1. /\ n # 0 /\ n \in DOMAIN devs /\ look.step = "log" /\ b \in Chips
      /\ told' = [told EXCEPT ![b] = @ + 1] /\ told \in [Chips -> Int]
      /\ flash' = (IF flash > LogCap THEN 0 ELSE flash) + 1 /\ UNCHANGED <<devs, time, noting>>
  BY AtEntry DEF LogSilence, At, Tally, ChipInv, ChipTypes
<1>2. /\ look' \in [at : Nat, step : {"look", "flag", "log"}, by : Nat]
      /\ look'.at \in 0..Len(devs) /\ look'.step = "look"
  BY <1>1, GoesOn DEF LogSilence
<1>3. ChipTypes'
  BY <1>1, <1>2 DEF ChipInv, ChipTypes
<1>4. ChipTypeOK' /\ Unflagged'
  BY <1>1, <1>2 DEF ChipInv, ChipTypeOK, Unflagged
<1>5. Untold'
  BY <1>1 DEF ChipInv, Untold, Followed
<1>6. SilencesAgree'
  <2> SUFFICES ASSUME NEW j \in DOMAIN devs
               PROVE (IF devs[j].down THEN 1 ELSE 0)
                       = told'[devs[j].addr] - (IF noting = devs[j].addr THEN 1 ELSE 0)
    <3>1. \A j \in DOMAIN devs : told'[devs[j].addr] \in Int
      BY <1>1, AtEntry
    <3> QED
      BY <1>1, <1>2, <3>1 DEF SilencesAgree
  <2>1. (IF devs[j].down THEN 1 ELSE 0)
           = told[devs[j].addr] + (IF n = j THEN 1 ELSE 0)
             - (IF noting = devs[j].addr THEN 1 ELSE 0)
    BY <1>1 DEF ChipInv, SilencesAgree
  <2>2. devs[j].addr \in Chips /\ told[devs[j].addr] \in Int
    BY AtEntry
  <2>3. j # n => devs[j].addr # b
    BY <1>1 DEF ChipInv, ChipTypeOK
  <2> QED
    BY <1>1, <2>1, <2>2, <2>3
<1> QED
  BY <1>3, <1>4, <1>5, <1>6 DEF ChipInv

-------------------------------------------------------------------------------
\* One step for each action of the two tasks.
LEMMA ChipInvStep == ChipInv /\ [ChipNext]_chipVars => ChipInv'
<1> SUFFICES ASSUME ChipInv, [ChipNext]_chipVars PROVE ChipInv'
  OBVIOUS
<1>1. ASSUME NEW a \in Chips, NoteFrame(a) PROVE ChipInv'
  BY <1>1, NoteKnown, NoteNew
<1>2. CASE LogRecovery  BY <1>2, RecoveryStep
<1>3. CASE TimePasses   BY <1>3, TimeStep
<1>4. CASE TickStarts   BY <1>4, TickStep
<1>5. CASE LookAt       BY <1>5, LookStep
<1>6. CASE Flag         BY <1>6, FlagStep
<1>7. CASE LogSilence   BY <1>7, SilenceStep
<1>8. CASE UNCHANGED chipVars
  BY <1>8 DEF chipVars, ChipInv, ChipTypes, ChipTypeOK, Unflagged, Untold, Followed, SilencesAgree
<1> QED
  BY <1>1, <1>2, <1>3, <1>4, <1>5, <1>6, <1>7, <1>8 DEF ChipNext

\* However the poll task interrupts the main task (standalone/incidents.c), the
\* flag of a device and what was told of it agree.
THEOREM ChipCorrect == ChipSpec => []SilencesAgree
<1>1. ChipInv => SilencesAgree
  BY DEF ChipInv
<1> QED
  BY ChipInvInit, ChipInvStep, <1>1, PTL DEF ChipSpec

\* The table and the flags of the engine on the chip keep their shape and bounds.
THEOREM ChipTyped == ChipSpec => []ChipTypeOK
<1>1. ChipInv => ChipTypeOK
  BY DEF ChipInv
<1> QED
  BY ChipInvInit, ChipInvStep, <1>1, PTL DEF ChipSpec

-------------------------------------------------------------------------------
(* Stopping the host at any point of a save, or of the sealing of the secrets, *)
(* loses no setting (SettingsSurvive of SettingsFile).                         *)

SettingsSpec == SettingsInit /\ [][SettingsNext]_settingsVars

SomeChannel == {0, 15, Backup0.channel}
SomePan     == {0, 100, 300, Backup0.pan}
SomePref    == {"", "dark", Quoted, Unquoted}
Config == [hue : {"", "hue"}, channel : SomeChannel,
           key : Hexes \cup {"", Malformed}, backup : BOOLEAN,
           pan : SomePan, pref : SomePref]
OnFile(n) == [hue : [by : 0..n, of : {"", "hue"}], channel : SomeChannel,
              key : [by : 0..n, of : Hexes \cup {"", Malformed}], backup : BOOLEAN,
              pan : SomePan, pref : SomePref]
Flags   == [key : Hexes \cup {""}, backup : BOOLEAN]
InForce == [key : Hexes \cup {""}, pan : SomePan]

\* What the file may hold: secrets sealed by a key there was, channels from flags,
\* requests or the backup.
SettingsTypes ==
  /\ runs \in BOOLEAN /\ harmed \in BOOLEAN /\ edits \in Nat
  /\ sidecar \in Nat /\ seal \in {Unsealed, sidecar}
  /\ conf \in Config /\ kept \in Config /\ file \in OnFile(sidecar) /\ force \in InForce

\* Channel and PAN of a backup in use were filled in.
Filled(c) ==
  /\ c.channel = 0 => Backup0.channel = 0
  /\ c.pan = 0 => Backup0.pan = 0

\* The process works on what was saved last.
InMemory == runs => conf = kept
\* What was saved last is in the file, under the key there is or under none.
OnDisk == ~harmed => \E k \in {Unsealed, sidecar} : file = Written(kept, k)
BackupTaken == kept.backup => Filled(kept)
PanInForce == force.pan = kept.pan

\* Inductive: memory and disk say the same, and the backup was filled in before
\* anything was saved.
SettingsInv == SettingsTypes /\ InMemory /\ OnDisk /\ BackupTaken /\ PanInForce

LEMMA BackupKey == Backup0.key \in Hexes
BY SettingsAssumption DEF SettingsAssumption

\* Save writes a file of the right form.
LEMMA WrittenTyped ==
  ASSUME NEW c \in Config, NEW n \in Nat, NEW k \in {Unsealed, n}
  PROVE  Written(c, k) \in OnFile(n)
<1>0. k \in 0..n /\ Unsealed \in 0..n
  BY DEF Unsealed
<1>1. Encrypt(k, c.hue) \in [by : 0..n, of : {"", "hue"}]
  <2>1. c.hue \in {"", "hue"}
    BY DEF Config
  <2> QED
    BY <1>0, <2>1 DEF Encrypt
<1>2. Encrypt(k, c.key) \in [by : 0..n, of : Hexes \cup {"", Malformed}]
  <2>1. c.key \in Hexes \cup {"", Malformed}
    BY DEF Config
  <2> QED
    BY <1>0, <2>1 DEF Encrypt
<1>3. AsText(c.pref) \in SomePref
  BY DEF AsText, Config, SomePref
<1> QED
  BY <1>1, <1>2, <1>3 DEF Written, OnFile, Config

\* Load reads a configuration from any such file.
LEMMA ReadTyped ==
  ASSUME NEW n \in Nat, NEW f \in OnFile(n), NEW k
  PROVE  ReadBack(f, k) \in Config
<1>1. Decrypt(k, f.hue) \in {"", "hue"}
  BY DEF Decrypt, OnFile
<1>2. Decrypt(k, f.key) \in Hexes \cup {"", Malformed}
  BY DEF Decrypt, OnFile
<1> QED
  BY <1>1, <1>2 DEF ReadBack, OnFile, Config

\* What is written under a key is read back under it, but for the quotes.
LEMMA RoundTrip ==
  ASSUME NEW c \in Config, NEW k, NEW l, k \in {Unsealed, l}
  PROVE  ReadBack(Written(c, k), l) = [c EXCEPT !.pref = AsText(@)]
<1>1. Decrypt(l, Encrypt(k, c.hue)) = c.hue
  BY DEF Encrypt, Decrypt
<1>2. Decrypt(l, Encrypt(k, c.key)) = c.key
  BY DEF Encrypt, Decrypt
<1> QED
  BY <1>1, <1>2 DEF Written, ReadBack, Config

LEMMA SettingsInvInit == SettingsInit => SettingsInv
<1> SUFFICES ASSUME SettingsInit PROVE SettingsInv
  OBVIOUS
<1>1. Blank \in Config
  BY DEF Blank, Config, SomeChannel, SomePan, SomePref
<1>2. file = Written(kept, Unsealed) /\ kept = Blank /\ conf = Blank /\ sidecar = 0
      /\ Unsealed \in {Unsealed, sidecar}
  BY DEF SettingsInit, Unsealed
<1>3. file \in OnFile(sidecar)
  BY <1>1, <1>2, WrittenTyped
<1>f. force = [key |-> "", pan |-> 0]
  BY DEF SettingsInit
<1>4. SettingsTypes
  <2>1. force \in InForce
    BY <1>f DEF InForce, SomePan
  <2>2. runs = FALSE /\ harmed = FALSE /\ edits = 0 /\ seal = Unsealed
    BY DEF SettingsInit
  <2> QED
    BY <1>1, <1>2, <1>3, <2>1, <2>2 DEF SettingsTypes
<1>5. ~kept.backup /\ force.pan = kept.pan
  <2>1. Blank.backup = FALSE /\ Blank.pan = 0
    BY DEF Blank
  <2> QED
    BY <1>2, <1>f, <2>1
<1> QED
  BY <1>2, <1>4, <1>5 DEF SettingsInv, InMemory, OnDisk, BackupTaken, PanInForce, SettingsInit

\* The key file at a start: read, made, or replaced.
LEMMA LoadKeyFacts ==
  ASSUME SettingsTypes, NEW readable \in BOOLEAN, NEW writable \in BOOLEAN, LoadKey(readable, writable)
  PROVE  /\ sidecar' \in Nat /\ seal' \in {Unsealed, sidecar'} /\ harmed' \in BOOLEAN
         /\ sidecar' >= sidecar
         /\ ~harmed' => ~harmed
         /\ ~harmed' => \A k \in {Unsealed, sidecar} : k \in {Unsealed, seal'}
<1> DEFINE fresh == readable /\ sidecar # Unsealed
<1>1. sidecar \in Nat /\ harmed \in BOOLEAN
  BY DEF SettingsTypes
<1>2. harmed' = (harmed \/ (sidecar # Unsealed /\ ~readable))
  BY DEF LoadKey
<1>3. harmed' \in BOOLEAN /\ (~harmed' => ~harmed /\ (fresh \/ sidecar = Unsealed))
  BY <1>1, <1>2
<1>4. seal' = IF fresh THEN sidecar ELSE IF writable THEN sidecar + 1 ELSE Unsealed
  BY DEF LoadKey
<1>5. sidecar' = IF seal' = Unsealed THEN sidecar ELSE seal'
  BY DEF LoadKey
<1>6. /\ sidecar' \in Nat /\ seal' \in {Unsealed, sidecar'} /\ sidecar' >= sidecar
      /\ fresh => seal' = sidecar
  BY <1>1, <1>4, <1>5 DEF Unsealed
<1> QED
  BY <1>3, <1>6

\* A file keeps its type when the key file is replaced.
LEMMA OnFileGrows ==
  ASSUME NEW n \in Nat, NEW m \in Nat, n <= m
  PROVE  OnFile(n) \subseteq OnFile(m)
<1>1. 0..n \subseteq 0..m
  OBVIOUS
<1> QED
  BY <1>1 DEF OnFile

\* A request saves what it changed.
LEMMA ChangeKeeps ==
  ASSUME SettingsInv, NEW c \in Config, NEW f \in InForce, Change(c, f),
         c.backup => Filled(c), f.pan = c.pan
  PROVE  SettingsInv'
<1>1. file' \in OnFile(sidecar)
  BY WrittenTyped DEF SettingsInv, SettingsTypes, Change, Save
<1>2. SettingsTypes'
  BY <1>1 DEF SettingsInv, SettingsTypes, Change, Save, Edit
<1>3. OnDisk'
  BY DEF OnDisk, SettingsInv, SettingsTypes, Change, Save
<1>4. InMemory' /\ BackupTaken' /\ PanInForce'
  BY DEF InMemory, BackupTaken, PanInForce, Change, Save, Filled
<1> QED
  BY <1>2, <1>3, <1>4 DEF SettingsInv

\* What a start makes of the file is a configuration whose backup was taken over.
LEMMA StartKeeps ==
  ASSUME SettingsInv, NEW flags \in Flags,
         NEW readable \in BOOLEAN, NEW writable \in BOOLEAN, StartHost(flags, readable, writable)
  PROVE  SettingsInv'
<1> DEFINE c == ReadBack(file, seal')
           backed == c.backup \/ flags.backup
           info == IF backed THEN Backup0 ELSE [key |-> "", channel |-> 0, pan |-> 0]
           hex == IF flags.key # "" THEN flags.key ELSE c.key
           channel == IF c.channel # 0 THEN c.channel ELSE info.channel
           pan == HomePan(c, info)
           new == [c EXCEPT !.channel = channel, !.pan = pan, !.key = hex, !.backup = backed]
<1>1. SettingsTypes /\ LoadKey(readable, writable) /\ ~runs /\ edits' = edits + 1
  BY DEF SettingsInv, StartHost, Edit
<1>2. /\ sidecar' \in Nat /\ seal' \in {Unsealed, sidecar'} /\ harmed' \in BOOLEAN
      /\ sidecar' >= sidecar /\ (~harmed' => ~harmed)
      /\ ~harmed' => \A k \in {Unsealed, sidecar} : k \in {Unsealed, seal'}
  BY <1>1, LoadKeyFacts
<1>3. file \in OnFile(sidecar) /\ sidecar \in Nat /\ edits \in Nat
  BY <1>1 DEF SettingsTypes
<1>4. c \in Config
  BY <1>3, ReadTyped
<1>5. /\ backed \in BOOLEAN /\ channel \in SomeChannel /\ pan \in SomePan
      /\ backed => (channel = 0 => Backup0.channel = 0) /\ (pan = 0 => Backup0.pan = 0)
  <2> HIDE DEF c
  <2>1. c.channel \in SomeChannel /\ c.pan \in SomePan
        /\ c.backup \in BOOLEAN
    BY <1>4 DEF Config
  <2>2. CASE backed
    BY <2>1, <2>2 DEF HomePan, SomeChannel, SomePan, Flags
  <2>3. CASE ~backed
    BY <2>1, <2>3 DEF HomePan, SomeChannel, SomePan, Flags
  <2> QED
    BY <2>2, <2>3
<1>t. backed \in BOOLEAN /\ channel \in SomeChannel /\ pan \in SomePan
  BY <1>5
<1>6. hex \in Hexes \cup {"", Malformed}
  BY <1>4 DEF Config, Flags
<1>7. CASE hex \in Hexes \cup {""}
  <2>1. runs' = TRUE /\ conf' = new /\ kept' = new /\ file' = Written(new, seal')
    BY <1>7 DEF StartHost, Save
  <2>f. force' = [key |-> IF hex # "" THEN hex ELSE info.key, pan |-> pan]
    BY <1>7 DEF StartHost
  <2>2. new \in Config /\ new.pan = pan /\ new.channel = channel /\ new.backup = backed
    <3> HIDE DEF c, backed, info, hex, channel, pan
    <3> QED
      BY <1>4, <1>t, <1>6 DEF Config
  <2>3. file' \in OnFile(sidecar')
    BY <1>2, <2>1, <2>2, WrittenTyped
  <2>4. force' \in InForce /\ force'.pan = pan
    <3>1. info.key \in Hexes \cup {""}
      <4>1. CASE backed
        BY <4>1, BackupKey
      <4>2. CASE ~backed
        BY <4>2
      <4> QED
        BY <4>1, <4>2
    <3>2. (IF hex # "" THEN hex ELSE info.key) \in Hexes \cup {""}
      BY <1>7, <3>1
    <3> HIDE DEF hex, pan, info
    <3> QED
      BY <1>t, <2>f, <3>2 DEF InForce
  <2> HIDE DEF c, backed, info, hex, channel, pan, new
  <2>5. SettingsTypes'
    BY <1>1, <1>2, <1>3, <2>1, <2>2, <2>3, <2>4 DEF SettingsTypes
  <2>6. OnDisk'
    BY <1>2, <2>1 DEF OnDisk
  <2>7. InMemory' /\ BackupTaken' /\ PanInForce'
    BY <1>5, <2>1, <2>2, <2>4 DEF InMemory, BackupTaken, PanInForce, Filled
  <2> QED
    BY <2>5, <2>6, <2>7 DEF SettingsInv
<1>8. CASE ~(hex \in Hexes \cup {""})
  <2>1. UNCHANGED <<runs, conf, file, force, kept>>
    BY <1>8 DEF StartHost
  <2> HIDE DEF c, backed, info, hex, channel, pan, new
  <2>2. file' \in OnFile(sidecar')
    BY <1>2, <1>3, <2>1, OnFileGrows
  <2>3. SettingsTypes'
    <3>1. runs' \in BOOLEAN /\ edits' \in Nat /\ conf' \in Config /\ kept' \in Config /\ force' \in InForce
      BY <1>1, <2>1 DEF SettingsTypes
    <3> QED
      BY <1>2, <2>2, <3>1 DEF SettingsTypes
  <2>4. OnDisk'
    <3>1. SUFFICES ASSUME ~harmed' PROVE \E k \in {Unsealed, sidecar'} : file' = Written(kept', k)
      BY DEF OnDisk
    <3>2. PICK k \in {Unsealed, sidecar} : file = Written(kept, k)
      BY <1>2, <3>1 DEF SettingsInv, OnDisk
    <3>3. k \in {Unsealed, sidecar'}
      BY <1>2, <3>1, <3>2
    <3> QED
      BY <2>1, <3>2, <3>3
  <2>5. InMemory' /\ BackupTaken' /\ PanInForce'
    BY <2>1 DEF SettingsInv, InMemory, BackupTaken, PanInForce
  <2> QED
    BY <2>3, <2>4, <2>5 DEF SettingsInv
<1> QED
  BY <1>7, <1>8

\* A save cut short leaves a file of the right form.
LEMMA TruncatedTyped ==
  ASSUME NEW n \in Nat, NEW f \in OnFile(n), NEW m
  PROVE  Truncated(f, m) \in OnFile(n)
<1> DEFINE w == Written(Blank, Unsealed)
<1>1. w \in OnFile(n)
  <2>1. Blank \in Config /\ Unsealed \in {Unsealed, n}
    BY DEF Blank, Config, SomeChannel, SomePan, SomePref
  <2> QED
    BY <2>1, WrittenTyped
<1> HIDE DEF w
<1> DEFINE t == [x \in DOMAIN f |-> IF Line[x] <= m THEN f[x] ELSE w[x]]
<1>2. Truncated(f, m) = t
  BY DEF Truncated, w
<1>3. t \in OnFile(n)
  BY <1>1 DEF OnFile
<1> QED
  BY <1>2, <1>3

\* Starts, requests, crashes in a save and restarts keep the invariant.
LEMMA SettingsInvStep == SettingsInv /\ [SettingsNext]_settingsVars => SettingsInv'
<1> SUFFICES ASSUME SettingsInv, [SettingsNext]_settingsVars PROVE SettingsInv'
  OBVIOUS
<1>t. SettingsTypes /\ BackupTaken /\ PanInForce
  BY DEF SettingsInv
<1>c. runs => conf = kept /\ conf \in Config /\ force \in InForce /\ force.pan = conf.pan
              /\ (conf.backup => Filled(conf))
  BY <1>t DEF SettingsInv, SettingsTypes, InMemory, BackupTaken, PanInForce
<1>1. ASSUME NEW k \in Hexes \cup {""}, NEW backup \in BOOLEAN, NEW readable \in BOOLEAN,
             NEW writable \in BOOLEAN, StartHost([key |-> k, backup |-> backup], readable, writable)
      PROVE  SettingsInv'
  <2>1. [key |-> k, backup |-> backup] \in Flags
    BY DEF Flags
  <2> QED
    BY <1>1, <2>1, StartKeeps
<1>2. ASSUME NEW k \in Hexes \cup {"", Malformed}, SetKey(k) PROVE SettingsInv'
  <2>1. PICK now \in (IF k = Malformed THEN {force.key, ""} ELSE {k}) :
          Change([conf EXCEPT !.key = k], [force EXCEPT !.key = now])
    BY <1>2 DEF SetKey
  <2> DEFINE c == [conf EXCEPT !.key = k]
             f == [force EXCEPT !.key = now]
  <2>2. runs
    BY <2>1 DEF Change
  <2>3. now \in Hexes \cup {""}
    BY <1>c, <2>1, <2>2 DEF InForce
  <2>4. c \in Config /\ c.pan = conf.pan /\ c.backup = conf.backup /\ c.channel = conf.channel
    BY <1>c, <2>2 DEF Config
  <2>5. f \in InForce /\ f.pan = force.pan
    BY <1>c, <2>2, <2>3 DEF InForce
  <2> HIDE DEF c, f
  <2>6. c.backup => Filled(c)
    BY <1>c, <2>2, <2>4 DEF Filled
  <2>7. Change(c, f)
    BY <2>1 DEF c, f
  <2> QED
    BY <1>c, <2>2, <2>4, <2>5, <2>6, <2>7, ChangeKeeps
<1>3. ASSUME NEW p \in {100, 300}, HomeNetwork(p) PROVE SettingsInv'
  <2> DEFINE c == [conf EXCEPT !.pan = p]
             f == [force EXCEPT !.pan = p]
  <2>2. runs /\ Change(c, f)
    BY <1>3 DEF HomeNetwork, Change
  <2>3. p \in SomePan /\ p # 0
    BY DEF SomePan
  <2>4. c \in Config /\ c.pan = p /\ c.backup = conf.backup /\ c.channel = conf.channel
    BY <1>c, <2>2, <2>3 DEF Config
  <2>5. f \in InForce /\ f.pan = p
    BY <1>c, <2>2, <2>3 DEF InForce
  <2> HIDE DEF c, f
  <2>6. c.backup => Filled(c)
    BY <1>c, <2>2, <2>3, <2>4 DEF Filled
  <2> QED
    BY <2>2, <2>4, <2>5, <2>6, ChangeKeeps
<1>4. CASE SaveChannel(15)
  <2> DEFINE c == [conf EXCEPT !.channel = 15]
  <2>2. runs /\ Change(c, force)
    BY <1>4 DEF SaveChannel, Change
  <2>3. 15 \in SomeChannel
    BY DEF SomeChannel
  <2>4. c \in Config /\ c.channel = 15 /\ c.pan = conf.pan /\ c.backup = conf.backup
    BY <1>c, <2>2, <2>3 DEF Config
  <2> HIDE DEF c
  <2>6. c.backup => Filled(c)
    BY <1>c, <2>2, <2>4 DEF Filled
  <2> QED
    BY <1>c, <2>2, <2>4, <2>6, ChangeKeeps
<1>5. ASSUME NEW v \in {"", "dark", Quoted}, SavePref(v) PROVE SettingsInv'
  <2> DEFINE c == [conf EXCEPT !.pref = v]
  <2>2. runs /\ Change(c, force)
    BY <1>5 DEF SavePref, Change
  <2>3. v \in SomePref
    BY DEF SomePref
  <2>4. c \in Config /\ c.channel = conf.channel /\ c.pan = conf.pan /\ c.backup = conf.backup
    BY <1>c, <2>2, <2>3 DEF Config
  <2> HIDE DEF c
  <2>6. c.backup => Filled(c)
    BY <1>c, <2>2, <2>4 DEF Filled
  <2> QED
    BY <1>c, <2>2, <2>4, <2>6, ChangeKeeps
<1>6. ASSUME HuePair("hue") \/ HueForget PROVE SettingsInv'
  <2>1. PICK h \in {"", "hue"} : Change([conf EXCEPT !.hue = h], force)
    BY <1>6 DEF HuePair, HueForget
  <2> DEFINE c == [conf EXCEPT !.hue = h]
  <2>2. runs /\ Change(c, force)
    BY <2>1 DEF Change
  <2>4. c \in Config /\ c.channel = conf.channel /\ c.pan = conf.pan /\ c.backup = conf.backup
    BY <1>c, <2>2 DEF Config
  <2> HIDE DEF c
  <2>6. c.backup => Filled(c)
    BY <1>c, <2>2, <2>4 DEF Filled
  <2> QED
    BY <1>c, <2>2, <2>4, <2>6, ChangeKeeps
<1>7. CASE ResetSettings
  <2> DEFINE c == [Blank EXCEPT !.pan = conf.pan]
  <2>2. runs /\ Change(c, force)
    BY <1>7 DEF ResetSettings, Change
  <2>3. Blank \in Config /\ Blank.backup = FALSE
    BY DEF Blank, Config, SomeChannel, SomePan, SomePref
  <2>4. conf.pan \in SomePan
    BY <1>c, <2>2 DEF Config
  <2>5. c \in Config /\ c.pan = conf.pan /\ c.backup = FALSE
    BY <2>3, <2>4 DEF Config
  <2> HIDE DEF c
  <2> QED
    BY <1>c, <2>2, <2>5, ChangeKeeps
<1>8. CASE QuitHost
  BY <1>8 DEF QuitHost, SettingsInv, SettingsTypes, InMemory, OnDisk, BackupTaken, PanInForce
<1>9. ASSUME NEW n, DieSaving(n) PROVE SettingsInv'
  <2>1. /\ runs' = FALSE /\ harmed' = TRUE /\ file' = Truncated(file, n)
        /\ UNCHANGED <<conf, seal, sidecar, force, kept, edits>>
    BY <1>9 DEF DieSaving
  <2>2. file' \in OnFile(sidecar)
    BY <1>t, <2>1, TruncatedTyped DEF SettingsTypes
  <2>3. SettingsTypes'
    BY <1>t, <2>1, <2>2 DEF SettingsTypes
  <2>4. InMemory' /\ OnDisk' /\ BackupTaken' /\ PanInForce'
    BY <1>t, <2>1 DEF InMemory, OnDisk, BackupTaken, PanInForce
  <2> QED
    BY <2>3, <2>4 DEF SettingsInv
<1>10. CASE UNCHANGED settingsVars
  BY <1>10 DEF settingsVars, SettingsInv, SettingsTypes, InMemory, OnDisk, BackupTaken, PanInForce
<1> QED
  BY <1>1, <1>2, <1>3, <1>4, <1>5, <1>6, <1>7, <1>8, <1>9, <1>10 DEF SettingsNext

\* A start without flags saves again what it read, with nothing filled in that
\* was not before.
LEMMA StartSurvives ==
  ASSUME SettingsInv, RestartHost, runs', ~harmed
  PROVE  /\ conf' = [kept EXCEPT !.pref = conf'.pref]
         /\ kept.pref # Quoted => conf'.pref = kept.pref
         /\ force.pan # 0 => force'.pan = force.pan
<1> DEFINE c == ReadBack(file, seal')
           backed == c.backup \/ NoFlags.backup
           info == IF backed THEN Backup0 ELSE [key |-> "", channel |-> 0, pan |-> 0]
           hex == IF NoFlags.key # "" THEN NoFlags.key ELSE c.key
           channel == IF c.channel # 0 THEN c.channel ELSE info.channel
           pan == HomePan(c, info)
           new == [c EXCEPT !.channel = channel, !.pan = pan, !.key = hex, !.backup = backed]
<1>1. SettingsTypes /\ LoadKey(TRUE, TRUE) /\ ~runs
  BY DEF SettingsInv, RestartHost, StartHost
<1>2. ~harmed'
  BY <1>1 DEF LoadKey
<1>3. \A k \in {Unsealed, sidecar} : k \in {Unsealed, seal'}
  BY <1>1, <1>2, LoadKeyFacts
<1>4. PICK k \in {Unsealed, sidecar} : file = Written(kept, k)
  BY DEF SettingsInv, OnDisk
<1>5. kept \in Config /\ force.pan = kept.pan /\ (kept.backup => Filled(kept))
  BY DEF SettingsInv, SettingsTypes, PanInForce, BackupTaken
<1>6. c = [kept EXCEPT !.pref = AsText(@)]
  BY <1>3, <1>4, <1>5, RoundTrip
<1>7. conf' = new /\ force'.pan = pan
  <2>1. hex \in Hexes \cup {""}
    BY <1>1 DEF RestartHost, StartHost
  <2>2. conf' = new
    BY <2>1 DEF RestartHost, StartHost, Save
  <2>3. force' = [key |-> IF hex # "" THEN hex ELSE info.key, pan |-> pan]
    BY <2>1 DEF RestartHost, StartHost
  <2> HIDE DEF c, backed, info, hex, channel, pan, new
  <2> QED
    BY <2>2, <2>3
<1>8. new = c /\ pan = kept.pan
  <2>1. /\ c.channel = kept.channel /\ c.pan = kept.pan /\ c.backup = kept.backup
        /\ kept.backup \in BOOLEAN
    <3> HIDE DEF c
    <3> QED
      BY <1>5, <1>6 DEF Config
  <2>2. hex = c.key /\ backed = c.backup
    <3> HIDE DEF c
    <3> QED
      BY <2>1 DEF NoFlags
  <2>3. channel = c.channel /\ pan = c.pan
    <3> HIDE DEF c
    <3>1. CASE backed
      BY <1>5, <2>1, <2>2, <3>1 DEF Filled, HomePan
    <3>2. CASE ~backed
      BY <2>1, <3>2 DEF HomePan
    <3> QED
      BY <3>1, <3>2
  <2>4. c \in Config
    <3>1. AsText(kept.pref) \in SomePref
      BY <1>5 DEF Config, SomePref, AsText
    <3> HIDE DEF c
    <3> QED
      BY <1>5, <1>6, <3>1 DEF Config
  <2> HIDE DEF c, backed, info, hex, channel, pan
  <2> QED
    BY <2>1, <2>2, <2>3, <2>4 DEF Config
<1> HIDE DEF c, backed, info, hex, channel, pan, new
<1>9. conf'.pref = AsText(kept.pref)
  BY <1>5, <1>6, <1>7, <1>8 DEF Config
<1>10. conf' = [kept EXCEPT !.pref = conf'.pref]
  BY <1>6, <1>7, <1>8, <1>9
<1> QED
  BY <1>5, <1>7, <1>8, <1>9, <1>10 DEF AsText

\* A start without flags finds every setting as it was last saved, whatever the
\* starts before were given and whatever key file they had, for any ZHA backup,
\* any set of keys and any number of starts and requests (Load and Save of
\* config.go, loadOrCreateKey of secret.go, main).
THEOREM SettingsKept == SettingsSpec => SettingsSurvive
<1>1. SettingsInv /\ [SettingsNext]_settingsVars =>
        [RestartHost /\ runs' /\ ~harmed =>
           /\ conf' = [kept EXCEPT !.pref = conf'.pref]
           /\ kept.pref # Quoted => conf'.pref = kept.pref
           /\ force.pan # 0 => force'.pan = force.pan]_settingsVars
  BY StartSurvives
<1> QED
  BY <1>1, SettingsInvInit, SettingsInvStep, PTL DEF SettingsSpec, SettingsSurvive

\* A secret in the file is sealed by a key file there was.
LEMMA SettingsTypesMean == SettingsInv => SettingsTypeOK
<1> SUFFICES ASSUME SettingsTypes PROVE SettingsTypeOK
  BY DEF SettingsInv
<1>1. file.hue.by \in 0..sidecar /\ file.key.by \in 0..sidecar
  BY DEF SettingsTypes, OnFile
<1>2. force.key \in Hexes \cup {""} /\ conf.key \in Hexes \cup {"", Malformed}
  BY DEF SettingsTypes, InForce, Config
<1>3. sidecar \in Nat /\ runs \in BOOLEAN /\ harmed \in BOOLEAN /\ seal \in {Unsealed, sidecar}
  BY DEF SettingsTypes
<1>4. \A n \in 0..sidecar : n <= sidecar
  BY <1>3
<1>5. file.hue.by <= sidecar /\ file.key.by <= sidecar
  BY <1>1, <1>4
<1> QED
  BY <1>2, <1>3, <1>5, Zenon DEF SettingsTypeOK

\* Whatever is saved, started or cut short, the settings have their types.
THEOREM SettingsTyped == SettingsSpec => []SettingsTypeOK
<1>1. SettingsInit => SettingsInv
  BY SettingsInvInit
<1>2. SettingsInv /\ [SettingsNext]_settingsVars => SettingsInv'
  BY SettingsInvStep
<1> QED
  BY <1>1, <1>2, SettingsTypesMean, PTL DEF SettingsSpec

-------------------------------------------------------------------------------
(* However surveys and snapshots overlap on a radio, it is given back as the   *)
(* configuration wants it (BorrowedComesBack of RadioJobs), for any radios and *)
(* any number of requests and jobs.                                            *)

JobsSpec == JobsInit /\ [][JobsNext]_jobVars

LEMMA RadioIds == 0 \in Ids /\ Ids \subseteq Nat /\ IsFiniteSet(Ids)
BY JobsAssumption DEF JobsAssumption

\* The radio an allocation picks is one there is.
LEMMA FirstIsRadio ==
  ASSUME NEW choices, DOMAIN choices \subseteq Nat, \A k \in DOMAIN choices : choices[k] \subseteq Ids
  PROVE  FirstOf(choices) \in Ids \cup {Nobody}
<1> DEFINE some == {k \in DOMAIN choices : choices[k] # {}}
<1>1. CASE some = {}
  BY <1>1 DEF FirstOf
<1>2. CASE some # {}
  <2>1. Min(some) \in some
    BY <1>2, LowestIs
  <2>2. choices[Min(some)] \in SUBSET Nat /\ choices[Min(some)] # {} /\ choices[Min(some)] \subseteq Ids
    BY <2>1, RadioIds
  <2>3. Min(choices[Min(some)]) \in Ids
    BY <2>2, LowestIs
  <2> QED
    BY <1>2, <2>3 DEF FirstOf
<1> QED
  BY <1>1, <1>2

LEMMA AllocateIsRadio == \A fn : Allocate(fn) \in Ids \cup {Nobody}
<1> SUFFICES ASSUME NEW fn PROVE Allocate(fn) \in Ids \cup {Nobody}
  OBVIOUS
<1>1. CASE Seen = {}
  BY <1>1, RadioIds DEF Allocate, Everyone
<1>2. CASE Seen # {}
  <2> DEFINE choices == <<{r \in Seen : role[r] = Dedicated[fn]},
                 {r \in Seen : Free(r) /\ ~InterferesWith(fn, r)},
                 {r \in Seen : Free(r)},
                 {r \in Seen : fn = "probe" /\ Capturing(r)}>>
  <2>1. Seen \subseteq Ids
    BY DEF Seen
  <2>2. DOMAIN choices = 1..4
    OBVIOUS
  <2>3. \A k \in DOMAIN choices : choices[k] \subseteq Ids
    BY <2>1
  <2>4. FirstOf(choices) \in Ids \cup {Nobody}
    <3> HIDE DEF choices
    <3> QED
      BY <2>2, <2>3, FirstIsRadio
  <2> QED
    BY <1>2, <2>4 DEF Allocate
<1> QED
  BY <1>1, <1>2

LEMMA AllocateSdrIsRadio == AllocateSdr \in Ids \cup {Nobody}
<1> DEFINE able == Seen \cap SdrIds
           choices == <<{r \in able : role[r] = "sdr"},
               {r \in able : role[r] = "spectrum"},
               {r \in able : Free(r) /\ view[r].mode = "sdr"},
               {r \in able : Free(r) /\ (view[r].stopped \/ view[r].mode \in {"idle", "unknown"})},
               {r \in able : Free(r)}>>
<1>1. able \subseteq Ids
  BY DEF Seen
<1>2. DOMAIN choices = 1..5
  OBVIOUS
<1>3. \A k \in DOMAIN choices : choices[k] \subseteq Ids
  BY <1>1
<1>4. FirstOf(choices) \in Ids \cup {Nobody}
  <2> HIDE DEF choices
  <2> QED
    BY <1>2, <1>3, FirstIsRadio
<1> QED
  BY <1>4 DEF AllocateSdr

LEMMA SpareIsRadio == SpareRadio \in Ids \cup {Nobody}
<1> DEFINE fit(r) == /\ role[r] \notin {"sniffer", "tester", "hopper"}
                     /\ r # 0 \/ role[r] \in {"idle", "any", "monitor"}
                     /\ r # 0 \/ Cardinality(Seen) > 1
           choices == <<{r \in Seen : fit(r)}>>
<1>1. Seen \subseteq Ids
  BY DEF Seen
<1>2. DOMAIN choices = 1..1
  OBVIOUS
<1>3. \A k \in DOMAIN choices : choices[k] \subseteq Ids
  BY <1>1
<1>4. FirstOf(choices) \in Ids \cup {Nobody}
  <2> HIDE DEF choices
  <2> QED
    BY <1>2, <1>3, FirstIsRadio
<1>5. SpareRadio = FirstOf(choices)
  BY Zenon DEF SpareRadio
<1> QED
  BY <1>4, <1>5, Zenon

-------------------------------------------------------------------------------
\* Whichever radio a list of steps names.
To == Nat \cup {Nobody} \cup {Nth(S, k) : S \in SUBSET Ids, k \in Nat}
Entries == ({"channel"} \X Channels) \cup ({"hop"} \X Dwells)
Step == [do : {"command"}, to : To, what : Commands]
        \cup [do : {"deliver"}, to : Ids, what : Seq(Commands)]
        \cup [do : {"start", "restore"}, to : Ids, what : {Unset}]
        \cup [do : {"stopped"}, to : Ids \cup {Nobody}, what : BOOLEAN]
        \cup [do : {"save"}, to : {Nobody}, what : Entries]
\* A call in hand: what it still has to do.
Call == [job : BOOLEAN, todo : Seq(Step)]

JobsTypes ==
  /\ radio \in [Ids -> Settings] /\ cfg \in [channel : Channels \cup {Unset}, hop : Dwells]
  /\ status \in Channels \cup {Unset} /\ clean \subseteq Ids /\ calls \in Seq(Call)
  /\ role \in [Ids -> Roles \cup {"tester", "any"}]

\* A job only makes radios listen, and ends by restoring one.
Listening == {SetHop(d) : d \in Dwells} \cup {SetChannel(c) : c \in Channels}
             \cup {SetMode("capture"), Start}
JobStep(t, k) ==
  \/ t[k].do = "command" /\ t[k].what \in Listening
  \/ t[k].do = "deliver" /\ t[k].what \in Seq(Listening)
  \/ t[k].do = "restore" /\ k = Len(t)
JobTodo(t) == \A k \in DOMAIN t : JobStep(t, k)

\* The commands a step stands for, before it is known whom they reach.
Sent(s) == CASE s.do = "command" -> {s.what}
             [] s.do = "deliver" -> {s.what[k] : k \in DOMAIN s.what}
             [] OTHER -> {}
Right(c, g) == /\ c.op = "set_hop" => c.arg = g.hop
               /\ c.op = "set_channel" /\ g.channel # Unset => c.arg = g.channel

\* A list will still restore radio r; sends it only what configuration g wants; sets
\* what op sets.
Pending(t, r) == \E k \in DOMAIN t : t[k].do = "restore" /\ t[k].to = r
Good(t, r, g) == \A k \in DOMAIN t : t[k].to = r => \A c \in Sent(t[k]) : Right(c, g)
Sets(t, r, op) == \E k \in DOMAIN t : t[k].to = r /\ \E c \in Sent(t[k]) : c.op = op
Mends(t, r, op) == Pending(t, r) \/ Sets(t, r, op)
Mended(r, op) == \E i \in DOMAIN calls : Mends(calls[i].todo, r, op)

\* What a restored radio has of the settings.
Ops == {"set_mode", "start", "set_hop", "set_channel"}
Wanted(s, op, g) == CASE op = "set_mode"    -> s.mode = "capture"
                      [] op = "start"       -> s.running = TRUE
                      [] op = "set_hop"     -> s.dwell = g.hop
                      [] op = "set_channel" -> s.channel = g.channel

JobsAlone == \A i \in DOMAIN calls : calls[i].job => JobTodo(calls[i].todo)
Unsaved == clean # {} => \A i \in DOMAIN calls : ~Saves(calls[i].todo)
Borrowed == \A r \in clean : \A i \in DOMAIN calls :
  /\ r \in Targets(calls[i].todo) => calls[i].job
  /\ Pending(calls[i].todo, r) \/ Good(calls[i].todo, r, cfg)
Repaired == \A r \in clean : cfg.channel # Unset =>
  \A op \in Ops : Wanted(radio[r], op, cfg) \/ Mended(r, op)

\* Inductive: whatever a clean radio lacks, a job that is on it still mends.
JobsInv == JobsTypes /\ JobsAlone /\ Unsaved /\ Borrowed /\ Repaired

-------------------------------------------------------------------------------
LEMMA ListeningIsCommands == Listening \subseteq Commands
<1>1. "capture" \in Modes
  BY DEF Modes
<1> QED
  BY <1>1 DEF Listening, Commands

LEMMA RadiosAreNamed == Ids \subseteq To /\ Nobody \notin Ids
BY RadioIds DEF To, Nobody

\* Two lists, one after the other.
LEMMA StepsJoined ==
  ASSUME NEW a \in Seq(Step), NEW b \in Seq(Step)
  PROVE  /\ a \o b \in Seq(Step)
         /\ Targets(a \o b) = Targets(a) \cup Targets(b)
         /\ Saves(a \o b) <=> Saves(a) \/ Saves(b)
         /\ \A r : /\ Pending(a \o b, r) <=> Pending(a, r) \/ Pending(b, r)
                   /\ \A g : Good(a \o b, r, g) <=> Good(a, r, g) /\ Good(b, r, g)
                   /\ \A op : Sets(a \o b, r, op) <=> Sets(a, r, op) \/ Sets(b, r, op)
<1> DEFINE t == a \o b
<1>1. /\ t \in Seq(Step)
      /\ \A k \in DOMAIN a : k \in DOMAIN t /\ t[k] = a[k]
      /\ \A k \in DOMAIN b : Len(a) + k \in DOMAIN t /\ t[Len(a) + k] = b[k]
      /\ \A k \in DOMAIN t : k \in DOMAIN a \/ (k - Len(a) \in DOMAIN b /\ t[k] = b[k - Len(a)])
  OBVIOUS
<1>2. \A k \in DOMAIN t : \/ \E m \in DOMAIN a : t[k] = a[m]
                          \/ \E m \in DOMAIN b : t[k] = b[m]
  BY <1>1
<1>3. /\ \A m \in DOMAIN a : \E k \in DOMAIN t : t[k] = a[m]
      /\ \A m \in DOMAIN b : \E k \in DOMAIN t : t[k] = b[m]
  BY <1>1
<1> HIDE DEF t
<1>4. Targets(t) = Targets(a) \cup Targets(b)
  <2>1. \A x : (\E k \in DOMAIN t : x = t[k].to)
               <=> (\E m \in DOMAIN a : x = a[m].to) \/ (\E m \in DOMAIN b : x = b[m].to)
    BY <1>2, <1>3
  <2> QED
    BY <2>1 DEF Targets
<1>5. Saves(t) <=> Saves(a) \/ Saves(b)
  BY <1>2, <1>3, ZenonT(30) DEF Saves
<1>6. \A r : Pending(t, r) <=> Pending(a, r) \/ Pending(b, r)
  BY <1>2, <1>3 DEF Pending
<1>7. \A r, g : Good(t, r, g) <=> Good(a, r, g) /\ Good(b, r, g)
  BY <1>2, <1>3, ZenonT(30) DEF Good
<1>8. \A r, op : Sets(t, r, op) <=> Sets(a, r, op) \/ Sets(b, r, op)
  BY <1>2, <1>3, ZenonT(30) DEF Sets
<1> QED
  BY <1>1, <1>4, <1>5, <1>6, <1>7, <1>8 DEF t

\* A list of one step.
LEMMA OneStep ==
  ASSUME NEW s \in Step
  PROVE  /\ <<s>> \in Seq(Step) /\ Targets(<<s>>) = {s.to} \ {Nobody}
         /\ Saves(<<s>>) <=> s.do = "save"
         /\ \A r : /\ Pending(<<s>>, r) <=> s.do = "restore" /\ s.to = r
                   /\ \A g : Good(<<s>>, r, g) <=> (s.to = r => \A c \in Sent(s) : Right(c, g))
                   /\ \A op : Sets(<<s>>, r, op) <=> s.to = r /\ \E c \in Sent(s) : c.op = op
<1> DEFINE t == <<s>>
<1>1. t \in Seq(Step) /\ DOMAIN t = {1} /\ t[1] = s
  OBVIOUS
<1> HIDE DEF t
<1>2. Targets(t) = {s.to} \ {Nobody} /\ (Saves(t) <=> s.do = "save")
  BY <1>1 DEF Targets, Saves
<1>3. \A r : /\ Pending(t, r) <=> s.do = "restore" /\ s.to = r
             /\ \A g : Good(t, r, g) <=> (s.to = r => \A c \in Sent(s) : Right(c, g))
             /\ \A op : Sets(t, r, op) <=> s.to = r /\ \E c \in Sent(s) : c.op = op
  BY <1>1 DEF Pending, Good, Sets
<1> QED
  BY <1>1, <1>2, <1>3 DEF t

\* A list is its first step and the rest.
LEMMA Parted ==
  ASSUME NEW t \in Seq(Step), t # <<>>
  PROVE  /\ Head(t) \in Step /\ Tail(t) \in Seq(Step) /\ t = <<Head(t)>> \o Tail(t)
         /\ Len(t) \in Nat /\ Len(Tail(t)) = Len(t) - 1 /\ 1 \in DOMAIN t /\ t[1] = Head(t)
         /\ \A k \in DOMAIN Tail(t) : Tail(t)[k] = t[k + 1] /\ k + 1 \in DOMAIN t
OBVIOUS

\* Whoever is sent commands, they are all a list of them holds.
LEMMA SendToTyped ==
  ASSUME NEW q \in To, NEW cmds \in Seq(Commands)
  PROVE  LET u == SendTo(q, cmds)
         IN /\ u \in Seq(Step) /\ Targets(u) \subseteq {q} /\ ~Saves(u)
            /\ \A k \in DOMAIN u : u[k].do = "command" /\ k \in DOMAIN cmds /\ u[k].what = cmds[k]
            /\ \A r : /\ ~Pending(u, r)
                      /\ \A g : Good(u, r, g) <=> (q = r => \A k \in DOMAIN cmds : Right(cmds[k], g))
                      /\ \A op : Sets(u, r, op) <=> q = r /\ \E k \in DOMAIN cmds : cmds[k].op = op
<1> DEFINE u == SendTo(q, cmds)
           f(k) == [do |-> "command", to |-> q, what |-> cmds[k]]
<1>1. DOMAIN cmds = 1..Len(cmds) /\ Len(cmds) \in Nat /\ \A k \in DOMAIN cmds : cmds[k] \in Commands
  OBVIOUS
<1>2. \A k \in DOMAIN cmds : f(k) \in Step
  BY <1>1 DEF Step
<1>3. u = [k \in DOMAIN cmds |-> f(k)]
  BY DEF SendTo
<1>4. \A k : f(k).do = "command" /\ f(k).to = q /\ f(k).what = cmds[k]
  OBVIOUS
<1> HIDE DEF f, u
<1>5. u \in Seq(Step) /\ DOMAIN u = DOMAIN cmds
  BY <1>1, <1>2, <1>3
<1>6. \A k \in DOMAIN cmds : u[k].do = "command" /\ u[k].to = q /\ u[k].what = cmds[k]
  BY <1>3, <1>4
<1>7. \A k \in DOMAIN cmds : Sent(u[k]) = {cmds[k]}
  BY <1>6 DEF Sent
<1>8. Targets(u) \subseteq {q} /\ ~Saves(u) /\ \A r : ~Pending(u, r)
  BY <1>5, <1>6 DEF Targets, Saves, Pending
<1>9. \A r, g : Good(u, r, g) <=> (q = r => \A k \in DOMAIN cmds : Right(cmds[k], g))
  BY <1>5, <1>6, <1>7 DEF Good
<1>10. \A r : \A op : Sets(u, r, op) <=> q = r /\ \E k \in DOMAIN cmds : cmds[k].op = op
  BY <1>5, <1>6, <1>7 DEF Sets
<1> QED
  BY <1>5, <1>6, <1>8, <1>9, <1>10 DEF u

\* A job's list: it delivers, then restores.
LEMMA JobBuilt ==
  ASSUME NEW r \in Ids, NEW a \in Seq(Step),
         \A k \in DOMAIN a : a[k].do = "deliver" /\ a[k].to = r /\ a[k].what \in Seq(Listening)
  PROVE  LET t == a \o Restore(r)
         IN t \in Seq(Step) /\ JobTodo(t) /\ Pending(t, r) /\ Targets(t) = {r} /\ ~Saves(t)
<1> DEFINE s == [do |-> "restore", to |-> r, what |-> Unset]
           t == a \o Restore(r)
<1>1. Restore(r) = <<s>> /\ s \in Step /\ s.to = r /\ s.do = "restore"
  BY DEF Restore, Step
<1> HIDE DEF s
<1>2. /\ t \in Seq(Step) /\ Len(t) = Len(a) + 1 /\ t[Len(t)] = s
      /\ \A k \in DOMAIN t : k = Len(t) \/ (k \in DOMAIN a /\ t[k] = a[k])
  BY <1>1
<1> HIDE DEF t
<1>3. JobTodo(t)
  BY <1>1, <1>2 DEF JobTodo, JobStep
<1>4. Pending(<<s>>, r) /\ Targets(<<s>>) = {r} /\ ~Saves(<<s>>) /\ <<s>> \in Seq(Step)
  BY <1>1, OneStep, RadiosAreNamed
<1>5. Targets(a) \subseteq {r} /\ ~Saves(a)
  BY DEF Targets, Saves
<1>6. Pending(t, r) /\ Targets(t) = {r} /\ ~Saves(t)
  <2> DEFINE one == <<s>>
  <2>1. t = a \o one
    BY <1>1 DEF t
  <2>2. Pending(one, r) /\ Targets(one) = {r} /\ ~Saves(one) /\ one \in Seq(Step)
    BY <1>4
  <2> HIDE DEF one
  <2>3. /\ Targets(a \o one) = Targets(a) \cup Targets(one)
        /\ Saves(a \o one) <=> Saves(a) \/ Saves(one)
        /\ Pending(a \o one, r) <=> Pending(a, r) \/ Pending(one, r)
    BY <2>2, StepsJoined
  <2> QED
    BY <1>5, <2>1, <2>2, <2>3
<1> QED
  BY <1>2, <1>3, <1>6 DEF t

\* A restore sends frames that make the radio listen.
LEMMA RestoreListens == JobsTypes => RestoreFrames \in Seq(Listening)
<1> SUFFICES ASSUME JobsTypes PROVE RestoreFrames \in Seq(Listening)
  OBVIOUS
<1> DEFINE tune == IF IntendedChannel = Unset THEN <<>> ELSE <<SetChannel(IntendedChannel)>>
<1>1. cfg.hop \in Dwells /\ IntendedChannel \in Channels \cup {Unset}
  BY DEF JobsTypes, IntendedChannel
<1>2. tune \in Seq(Listening)
  <2>1. IntendedChannel # Unset => SetChannel(IntendedChannel) \in Listening
    BY <1>1 DEF Listening
  <2> QED
    BY <2>1
<1>3. /\ SetHop(cfg.hop) \in Listening /\ SetMode("capture") \in Listening /\ Start \in Listening
  BY <1>1 DEF Listening
<1>4. RestoreFrames = <<SetHop(cfg.hop)>> \o tune \o <<SetMode("capture"), Start>>
  BY DEF RestoreFrames, Listen
<1> HIDE DEF tune
<1> QED
  BY <1>2, <1>3, <1>4

\* Restoring sets the dwell and the channel as configured, and listens.
LEMMA RestoreSets ==
  ASSUME JobsTypes
  PROVE  /\ \A k \in DOMAIN RestoreFrames : Right(RestoreFrames[k], cfg)
         /\ cfg.channel # Unset =>
              \A op \in Ops : \E k \in DOMAIN RestoreFrames : RestoreFrames[k].op = op
<1> DEFINE cmds == RestoreFrames
           tune == IF IntendedChannel = Unset THEN <<>> ELSE <<SetChannel(IntendedChannel)>>
           n == Len(tune)
<1>1. cfg.hop \in Dwells /\ cfg.channel \in Channels \cup {Unset} /\ status \in Channels \cup {Unset}
  BY DEF JobsTypes
<1>2. IntendedChannel \in Channels \cup {Unset} /\ (cfg.channel # Unset => IntendedChannel = cfg.channel)
  BY <1>1 DEF IntendedChannel
<1>3. /\ n \in {0, 1} /\ tune \in Seq(Listening)
      /\ n = 1 => tune[1] = SetChannel(IntendedChannel)
      /\ cfg.channel # Unset => n = 1
  <2>1. CASE IntendedChannel = Unset
    BY <1>2, <2>1
  <2>2. CASE IntendedChannel # Unset
    <3>1. SetChannel(IntendedChannel) \in Listening
      BY <1>2, <2>2 DEF Listening
    <3> QED
      BY <2>2, <3>1
  <2> QED
    BY <2>1, <2>2
<1>4. /\ SetHop(cfg.hop) \in Listening /\ SetMode("capture") \in Listening /\ Start \in Listening
  BY <1>1 DEF Listening
<1>5. /\ cmds \in Seq(Listening) /\ Len(cmds) = n + 3
      /\ cmds[1] = SetHop(cfg.hop) /\ (n = 1 => cmds[2] = SetChannel(IntendedChannel))
      /\ cmds[n + 2] = SetMode("capture") /\ cmds[n + 3] = Start
  <2>1. cmds = <<SetHop(cfg.hop)>> \o tune \o <<SetMode("capture"), Start>>
    BY DEF RestoreFrames, Listen
  <2> HIDE DEF tune, cmds
  <2> QED
    BY <1>3, <1>4, <2>1
<1> HIDE DEF tune, cmds
<1>7. n \in {0, 1}
  BY <1>3
<1> HIDE DEF n
<1>8. DOMAIN cmds = 1..(n + 3)
  BY <1>5, <1>7
<1>ops. /\ SetHop(cfg.hop).op = "set_hop" /\ SetHop(cfg.hop).arg = cfg.hop
        /\ SetMode("capture").op = "set_mode" /\ Start.op = "start"
        /\ SetChannel(IntendedChannel).op = "set_channel"
        /\ SetChannel(IntendedChannel).arg = IntendedChannel
  BY DEF SetHop, SetMode, Start, SetChannel
<1>10. ASSUME NEW k \in DOMAIN cmds PROVE Right(cmds[k], cfg)
  <2>1. \/ k = 1 \/ (n = 1 /\ k = 2) \/ k = n + 2 \/ k = n + 3
    BY <1>7, <1>8
  <2> QED
    BY <1>2, <1>5, <1>ops, <2>1 DEF Right
<1>11. ASSUME cfg.channel # Unset, NEW op \in Ops
       PROVE  \E k \in DOMAIN cmds : cmds[k].op = op
  <2>1. n = 1
    BY <1>3, <1>11 DEF n
  <2>2. 1 \in DOMAIN cmds /\ 2 \in DOMAIN cmds /\ 3 \in DOMAIN cmds /\ 4 \in DOMAIN cmds
    BY <1>8, <2>1
  <2>3. /\ cmds[1].op = "set_hop" /\ cmds[2].op = "set_channel"
        /\ cmds[3].op = "set_mode" /\ cmds[4].op = "start"
    BY <1>5, <1>ops, <2>1
  <2> QED
    BY <2>2, <2>3 DEF Ops
<1> QED
  BY <1>10, <1>11 DEF cmds

-------------------------------------------------------------------------------
LEMMA JobsInvInit == JobsInit => JobsInv
<1> SUFFICES ASSUME JobsInit PROVE JobsInv
  OBVIOUS
<1>1. [mode |-> "capture", running |-> TRUE, dwell |-> 0, channel |-> Home] \in Settings
  BY DEF Settings, Modes, Dwells, Channels
<1>2. JobsTypes
  <2>1. radio \in [Ids -> Settings]
    BY <1>1 DEF JobsInit
  <2>2. cfg \in [channel : Channels \cup {Unset}, hop : Dwells]
    BY DEF JobsInit, Channels, Dwells
  <2>3. status \in Channels \cup {Unset} /\ clean \subseteq Ids /\ calls \in Seq(Call)
    BY DEF JobsInit
  <2>4. role \in [Ids -> Roles \cup {"tester", "any"}]
    BY JobsAssumption DEF JobsInit, JobsAssumption
  <2> QED
    BY <2>1, <2>2, <2>3, <2>4 DEF JobsTypes
<1>3. calls = <<>> /\ clean = {}
  BY DEF JobsInit
<1> QED
  BY <1>2, <1>3 DEF JobsInv, JobsAlone, Unsaved, Borrowed, Repaired

\* What the configuration and the calls say of a radio does not change with the rest.
LEMMA JobsFrame ==
  ASSUME JobsInv, UNCHANGED <<radio, cfg, calls, clean, role>>, status' \in Channels \cup {Unset}
  PROVE  JobsInv'
<1>1. JobsTypes'
  BY DEF JobsInv, JobsTypes
<1>2. JobsAlone' /\ Unsaved'
  BY DEF JobsInv, JobsAlone, Unsaved
<1>3. Borrowed'
  BY DEF JobsInv, Borrowed
<1>4. Repaired'
  BY DEF JobsInv, Repaired, Mended
<1> QED
  BY <1>1, <1>2, <1>3, <1>4 DEF JobsInv

\* A request takes the radios it names out of clean, or all of them if it saves;
\* a job adds its own, once nothing else is under way that could disturb it.
LEMMA BeginKeeps ==
  ASSUME JobsInv, NEW todo \in Seq(Step), NEW isJob \in BOOLEAN, Begins(isJob, todo),
         UNCHANGED <<radio, cfg>>, status' \in Channels \cup {Unset},
         role' \in [Ids -> Roles \cup {"tester", "any"}],
         isJob => /\ JobTodo(todo) /\ ~Saves(todo)
                  /\ \E r \in Ids : Targets(todo) = {r} /\ Pending(todo, r)
  PROVE  JobsInv'
<1> DEFINE n == Len(calls)
           new == [job |-> isJob, todo |-> todo]
<1>t. JobsTypes /\ JobsAlone /\ Unsaved /\ Borrowed /\ Repaired
  BY DEF JobsInv
<1>1. /\ calls' = Append(calls, new)
      /\ clean' = IF ~isJob THEN clean \ (IF Saves(todo) THEN Ids ELSE Targets(todo))
                  ELSE clean \cup {r \in Targets(todo) : /\ ~Busy(r)
                                 /\ \A i \in DOMAIN calls : calls[i].job \/ calls[i].todo = <<>>}
  BY DEF Begins
<1>2. new \in Call /\ calls \in Seq(Call)
  BY <1>t DEF Call, JobsTypes
<1>3. /\ DOMAIN calls = 1..n /\ n \in Nat /\ DOMAIN calls' = 1..(n + 1)
      /\ \A i \in DOMAIN calls : calls'[i] = calls[i]
      /\ calls'[n + 1] = new /\ calls' \in Seq(Call)
  <2> HIDE DEF new
  <2> QED
    BY <1>1, <1>2
<1>4. calls'[n + 1].job = isJob /\ calls'[n + 1].todo = todo
  BY <1>3
<1>5. \A i \in DOMAIN calls' : i = n + 1 \/ i \in DOMAIN calls
  BY <1>3
<1>6. isJob => Targets(todo) \subseteq Ids
  OBVIOUS
<1>7. JobsTypes'
  <2>1. clean' \subseteq Ids
    BY <1>1, <1>6, <1>t DEF JobsTypes
  <2> QED
    BY <1>1, <1>3, <1>t, <2>1 DEF JobsTypes
<1>8. JobsAlone'
  BY <1>3, <1>4, <1>5, <1>t DEF JobsAlone
<1>9. clean' # {} => ~Saves(todo) /\ \A i \in DOMAIN calls : ~Saves(calls[i].todo)
  <2>1. CASE clean # {} /\ isJob
    BY <1>t, <2>1 DEF Unsaved
  <2>2. CASE clean # {} /\ ~isJob
    BY <1>1, <1>t, <2>2 DEF Unsaved, JobsTypes
  <2>3. CASE clean = {} /\ isJob
    <3>1. SUFFICES ASSUME NEW i \in DOMAIN calls, calls[i].job \/ calls[i].todo = <<>>
                   PROVE  ~Saves(calls[i].todo)
      BY <1>1, <2>3
    <3>2. CASE calls[i].job
      BY <1>t, <3>2 DEF JobsAlone, JobTodo, JobStep, Saves
    <3>3. CASE calls[i].todo = <<>>
      BY <3>3 DEF Saves
    <3> QED
      BY <3>1, <3>2, <3>3
  <2>4. CASE clean = {} /\ ~isJob
    BY <1>1, <2>4
  <2> QED
    BY <2>1, <2>2, <2>3, <2>4
<1>10. Unsaved'
  BY <1>3, <1>4, <1>5, <1>9 DEF Unsaved
<1>11. ASSUME NEW r \in clean'
       PROVE  \/ r \in clean /\ r \notin Targets(todo)
              \/ r \in clean /\ isJob /\ Pending(todo, r)
              \/ isJob /\ Pending(todo, r) /\ ~Busy(r)
  <2>1. CASE isJob
    BY <1>1, <1>11, <2>1
  <2>2. CASE ~isJob
    BY <1>1, <1>9, <1>11, <2>2
  <2> QED
    BY <2>1, <2>2
<1>idle. \A t \in Seq(Step), r \in Ids : r \notin Targets(t) => \A g : Good(t, r, g)
  BY RadiosAreNamed DEF Targets, Good
<1>12. Borrowed'
  <2>1. SUFFICES ASSUME NEW r \in clean', NEW i \in DOMAIN calls'
                 PROVE  /\ r \in Targets(calls'[i].todo) => calls'[i].job
                        /\ Pending(calls'[i].todo, r) \/ Good(calls'[i].todo, r, cfg)
    BY DEF Borrowed
  <2>r. r \in Ids
    BY <1>7, <2>1 DEF JobsTypes
  <2>2. CASE i = n + 1
    <3>1. CASE r \notin Targets(todo)
      <4>1. Good(todo, r, cfg)
        BY <1>idle, <2>r, <3>1
      <4> QED
        BY <1>4, <2>2, <3>1, <4>1
    <3>2. CASE r \in Targets(todo)
      BY <1>4, <1>11, <2>2, <3>2
    <3> QED
      BY <3>1, <3>2
  <2>3. CASE i \in DOMAIN calls
    <3>1. calls'[i] = calls[i] /\ calls[i].todo \in Seq(Step)
      <4>1. calls[i] \in Call
        BY <1>2, <2>3
      <4> QED
        BY <1>3, <2>3, <4>1 DEF Call
    <3>2. CASE r \in clean
      BY <1>t, <2>3, <3>1, <3>2 DEF Borrowed
    <3>3. CASE r \notin clean
      <4>1. r \notin Targets(calls[i].todo)
        BY <1>11, <2>3, <3>3 DEF Busy
      <4>2. Good(calls[i].todo, r, cfg)
        BY <1>idle, <2>r, <3>1, <4>1
      <4> QED
        BY <3>1, <4>1, <4>2
    <3> QED
      BY <3>2, <3>3
  <2> QED
    BY <1>5, <2>2, <2>3
<1>13. Repaired'
  <2>1. SUFFICES ASSUME NEW r \in clean', cfg.channel # Unset, NEW op \in Ops
                 PROVE  Wanted(radio[r], op, cfg) \/ Mended(r, op)'
    BY DEF Repaired, Wanted
  <2>2. Mended(r, op) => Mended(r, op)'
    BY <1>3 DEF Mended
  <2>3. CASE r \in clean
    BY <1>t, <2>1, <2>2, <2>3 DEF Repaired
  <2>4. CASE r \notin clean
    <3>1. Pending(calls'[n + 1].todo, r) /\ n + 1 \in DOMAIN calls'
      BY <1>3, <1>4, <1>11, <2>4
    <3>2. Mended(r, op)'
      BY <3>1 DEF Mended, Mends
    <3> QED
      BY <3>2
  <2> QED
    BY <2>3, <2>4
<1> QED
  BY <1>7, <1>8, <1>10, <1>12, <1>13 DEF JobsInv

-------------------------------------------------------------------------------
\* What a command of a job does to a setting.
LEMMA JobCommand ==
  ASSUME NEW s \in Settings, NEW what \in Listening
  PROVE  /\ Exec(s, what) \in Settings
         /\ what.op \in {"set_mode", "start", "set_hop", "set_channel"}
         /\ Exec(s, what).mode = IF what.op = "set_mode" THEN "capture" ELSE s.mode
         /\ Exec(s, what).running = IF what.op = "start" THEN TRUE ELSE s.running
         /\ Exec(s, what).dwell = IF what.op = "set_hop" THEN what.arg ELSE s.dwell
         /\ Exec(s, what).channel = IF what.op = "set_channel" THEN what.arg ELSE s.channel
<1>1. CASE \E d \in Dwells : what = SetHop(d)
  <2>1. PICK d \in Dwells : what = SetHop(d)
    BY <1>1
  <2>2. what.op = "set_hop" /\ what.arg = d
    BY <2>1 DEF SetHop
  <2> QED
    BY <2>1, <2>2, HopSet
<1>2. CASE \E c \in Channels : what = SetChannel(c)
  <2>1. PICK c \in Channels : what = SetChannel(c)
    BY <1>2
  <2>2. what.op = "set_channel" /\ what.arg = c
    BY <2>1 DEF SetChannel
  <2> QED
    BY <2>1, <2>2, ChannelSet
<1>3. CASE what = SetMode("capture")
  <2>1. what.op = "set_mode" /\ "capture" \in Modes
    BY <1>3 DEF SetMode, Modes
  <2> QED
    BY <1>3, <2>1, ModeSet
<1>4. CASE what = Start
  <2>1. what.op = "start"
    BY <1>4 DEF Start
  <2> QED
    BY <1>4, <2>1, Started
<1> QED
  BY <1>1, <1>2, <1>3, <1>4 DEF Listening

\* A right one mends what it sets and spoils nothing.
LEMMA JobCommandMends ==
  ASSUME NEW s \in Settings, NEW what \in Listening, NEW g, g.channel # Unset, Right(what, g)
  PROVE  \A op \in Ops : Wanted(s, op, g) \/ what.op = op => Wanted(Exec(s, what), op, g)
<1> DEFINE e == Exec(s, what)
<1>1. /\ what.op \in Ops
      /\ e.mode = IF what.op = "set_mode" THEN "capture" ELSE s.mode
      /\ e.running = IF what.op = "start" THEN TRUE ELSE s.running
      /\ e.dwell = IF what.op = "set_hop" THEN what.arg ELSE s.dwell
      /\ e.channel = IF what.op = "set_channel" THEN what.arg ELSE s.channel
  BY JobCommand DEF Ops
<1> HIDE DEF e
<1>2. /\ what.op = "set_hop" => what.arg = g.hop
      /\ what.op = "set_channel" => what.arg = g.channel
  BY DEF Right
<1>3. ASSUME NEW op \in Ops, Wanted(s, op, g) \/ what.op = op
      PROVE  Wanted(e, op, g)
  <2>1. CASE op = "set_mode"
    BY <1>1, <1>3, <2>1 DEF Wanted
  <2>2. CASE op = "start"
    BY <1>1, <1>3, <2>2 DEF Wanted
  <2>3. CASE op = "set_hop"
    BY <1>1, <1>2, <1>3, <2>3 DEF Wanted
  <2>4. CASE op = "set_channel"
    BY <1>1, <1>2, <1>3, <2>4 DEF Wanted
  <2> QED
    BY <2>1, <2>2, <2>3, <2>4 DEF Ops
<1> QED
  BY <1>3 DEF e

\* Lists of a job.
LEMMA JobJoined ==
  ASSUME NEW a \in Seq(Step), NEW b \in Seq(Step), JobTodo(b),
         \A k \in DOMAIN a : \/ a[k].do = "command" /\ a[k].what \in Listening
                             \/ a[k].do = "deliver" /\ a[k].what \in Seq(Listening)
  PROVE  JobTodo(a \o b)
<1> DEFINE t == a \o b
<1>1. /\ Len(t) = Len(a) + Len(b)
      /\ \A k \in DOMAIN t : \/ k \in DOMAIN a /\ t[k] = a[k]
                             \/ k - Len(a) \in DOMAIN b /\ t[k] = b[k - Len(a)]
  OBVIOUS
<1> HIDE DEF t
<1>2. ASSUME NEW k \in DOMAIN t PROVE JobStep(t, k)
  <2>1. CASE k \in DOMAIN a /\ t[k] = a[k]
    BY <2>1 DEF JobStep
  <2>2. CASE k - Len(a) \in DOMAIN b /\ t[k] = b[k - Len(a)]
    <3>1. JobStep(b, k - Len(a))
      BY <2>2 DEF JobTodo
    <3>2. k - Len(a) = Len(b) => k = Len(t)
      <4>1. Len(a) \in Nat /\ Len(b) \in Nat /\ k - Len(a) \in Nat /\ DOMAIN t \subseteq Int
        BY <2>2 DEF t
      <4> QED
        BY <1>1, <1>2, <4>1
    <3> QED
      BY <2>2, <3>1, <3>2 DEF JobStep
  <2> QED
    BY <1>1, <1>2, <2>1, <2>2
<1> QED
  BY <1>2 DEF JobTodo, t

LEMMA JobTail ==
  ASSUME NEW t \in Seq(Step), t # <<>>, JobTodo(t)
  PROVE  JobTodo(Tail(t)) /\ JobStep(t, 1) /\ (Head(t).do = "restore" => Tail(t) = <<>>)
<1>1. JobStep(t, 1) /\ (Head(t).do = "restore" => Tail(t) = <<>>)
  <2>1. JobStep(t, 1)
    BY Parted DEF JobTodo
  <2>2. Head(t).do = "restore" => Len(t) = 1
    BY <2>1, Parted DEF JobStep
  <2>3. Len(t) = 1 => Tail(t) = <<>>
    <3> DEFINE u == Tail(t)
    <3>1. u \in Seq(Step) /\ Len(u) = Len(t) - 1
      BY Parted
    <3> HIDE DEF u
    <3>2. Len(t) = 1 => u = <<>>
      BY <3>1
    <3> QED
      BY <3>2 DEF u
  <2> QED
    BY <2>1, <2>2, <2>3
<1>2. ASSUME NEW k \in DOMAIN Tail(t) PROVE JobStep(Tail(t), k)
  <2>1. Tail(t)[k] = t[k + 1] /\ k + 1 \in DOMAIN t /\ Len(Tail(t)) = Len(t) - 1 /\ Len(t) \in Nat
    BY <1>2, Parted
  <2>2. JobStep(t, k + 1)
    BY <2>1 DEF JobTodo
  <2>3. k + 1 = Len(t) => k = Len(Tail(t))
    BY <1>2, <2>1
  <2> QED
    BY <2>1, <2>2, <2>3 DEF JobStep
<1> QED
  BY <1>1, <1>2 DEF JobTodo

\* The list t of call i is replaced by u: what u no longer mends of a clean radio,
\* the step has set right.
LEMMA ReplaceKeeps ==
  ASSUME JobsInv, NEW i \in DOMAIN calls, NEW u \in Seq(Step), NEW t, t = calls[i].todo,
         calls' = [calls EXCEPT ![i].todo = u], UNCHANGED <<cfg, role, status>>,
         radio' \in [Ids -> Settings], clean' \subseteq clean,
         calls[i].job => JobTodo(u), Saves(u) => Saves(t),
         \A r \in clean' : /\ r \in Targets(u) => calls[i].job
                           /\ Pending(u, r) \/ Good(u, r, cfg),
         cfg.channel # Unset => \A r \in clean', op \in Ops :
           Wanted(radio[r], op, cfg) \/ Mends(t, r, op) => Wanted(radio'[r], op, cfg) \/ Mends(u, r, op)
  PROVE  JobsInv'
<1>t. JobsTypes /\ JobsAlone /\ Unsaved /\ Borrowed /\ Repaired
  BY DEF JobsInv
<1>1. calls \in Seq(Call)
  BY <1>t DEF JobsTypes
<1>2. calls[i] \in Call
  BY <1>1
<1>3. [calls[i] EXCEPT !.todo = u] \in Call
  BY <1>2 DEF Call
<1>4. calls' = [calls EXCEPT ![i] = [calls[i] EXCEPT !.todo = u]]
  OBVIOUS
<1>5. /\ [calls[i] EXCEPT !.todo = u].todo = u
      /\ [calls[i] EXCEPT !.todo = u].job = calls[i].job
  BY <1>2 DEF Call
<1>6. /\ calls' \in Seq(Call) /\ DOMAIN calls' = DOMAIN calls
      /\ calls'[i] = [calls[i] EXCEPT !.todo = u]
      /\ \A j \in DOMAIN calls : j # i => calls'[j] = calls[j]
  BY <1>1, <1>3, <1>4
<1>i. calls'[i].todo = u /\ calls'[i].job = calls[i].job
  BY <1>5, <1>6
<1>7. JobsTypes'
  BY <1>t, <1>6 DEF JobsTypes
<1>8. JobsAlone'
  BY <1>t, <1>i, <1>6 DEF JobsAlone
<1>9. Unsaved'
  BY <1>t, <1>i, <1>6 DEF Unsaved
<1>10. Borrowed'
  <2>1. SUFFICES ASSUME NEW r \in clean', NEW j \in DOMAIN calls'
                 PROVE  /\ r \in Targets(calls'[j].todo) => calls'[j].job
                        /\ Pending(calls'[j].todo, r) \/ Good(calls'[j].todo, r, cfg)
    BY DEF Borrowed
  <2>2. CASE j = i
    BY <1>i, <2>1, <2>2
  <2>3. CASE j # i
    BY <1>t, <1>6, <2>1, <2>3 DEF Borrowed
  <2> QED
    BY <2>2, <2>3
<1>11. Repaired'
  <2>1. SUFFICES ASSUME NEW r \in clean', cfg.channel # Unset, NEW op \in Ops
                 PROVE  Wanted(radio'[r], op, cfg) \/ Mended(r, op)'
    BY DEF Repaired
  <2>2. Mends(u, r, op) => Mended(r, op)'
    BY <1>i, <1>6 DEF Mended
  <2>3. Wanted(radio[r], op, cfg) \/ Mended(r, op)
    BY <1>t, <2>1 DEF Repaired
  <2>4. CASE Wanted(radio[r], op, cfg) \/ Mends(t, r, op)
    BY <2>1, <2>2, <2>4
  <2>5. CASE Mended(r, op) /\ ~Mends(t, r, op)
    <3>1. PICK j \in DOMAIN calls : Mends(calls[j].todo, r, op)
      BY <2>5 DEF Mended
    <3>2. j # i /\ j \in DOMAIN calls' /\ calls'[j] = calls[j]
      BY <1>6, <2>5, <3>1
    <3> QED
      BY <3>1, <3>2 DEF Mended
  <2> QED
    BY <2>3, <2>4, <2>5
<1> QED
  BY <1>7, <1>8, <1>9, <1>10, <1>11 DEF JobsInv

\* One frame sent or lost, one send, save or restore of one call.
LEMMA AdvanceKeeps ==
  ASSUME JobsInv, NEW i \in DOMAIN calls, Advance(i)
  PROVE  JobsInv'
<1> DEFINE t == calls[i].todo
           s == Head(t)
           rest == Tail(t)
           q == Reaches(s.to)
           cmds == IF s.do = "deliver" THEN s.what ELSE IF q = 0 THEN Listen ELSE <<Start>>
           off == IF q = s.to THEN clean ELSE Misses(s.to, rest) \ {q}
<1>t. JobsTypes /\ JobsAlone /\ Unsaved /\ Borrowed /\ Repaired
  BY DEF JobsInv
<1>1. t # <<>> /\ UNCHANGED <<role, status>>
  BY DEF Advance
<1>2. t \in Seq(Step)
  <2>1. calls[i] \in Call
    BY <1>t DEF JobsTypes
  <2> QED
    BY <2>1 DEF Call
<1>d. \/ /\ s.do = "command" /\ calls' = [calls EXCEPT ![i].todo = rest]
         /\ radio' = [radio EXCEPT ![s.to] = Exec(@, s.what)] /\ UNCHANGED <<cfg, clean>>
      \/ /\ s.do = "command" /\ calls' = [calls EXCEPT ![i].todo = rest]
         /\ clean' = Misses(s.to, rest) /\ UNCHANGED <<cfg, radio>>
      \/ /\ s.do \in {"deliver", "start"} /\ calls' = [calls EXCEPT ![i].todo = SendTo(q, cmds) \o rest]
         /\ clean' = off /\ UNCHANGED <<cfg, radio>>
      \/ /\ s.do = "restore" /\ calls' = [calls EXCEPT ![i].todo = Deliver(s.to, RestoreFrames) \o rest]
         /\ UNCHANGED <<cfg, radio, clean>>
      \/ /\ s.do = "save" /\ calls' = [calls EXCEPT ![i].todo = rest]
         /\ cfg' = [cfg EXCEPT ![s.what[1]] = s.what[2]] /\ UNCHANGED <<radio, clean>>
      \/ /\ s.do = "stopped" /\ calls' = [calls EXCEPT ![i].todo = rest]
         /\ UNCHANGED <<cfg, radio, clean>>
  BY DEF Advance
<1>3. t = calls[i].todo /\ (calls[i].job => JobTodo(t))
      /\ \A r \in clean : /\ r \in Targets(t) => calls[i].job
                          /\ Pending(t, r) \/ Good(t, r, cfg)
  BY <1>t DEF JobsAlone, Borrowed
<1>4. rest \in Seq(Step) /\ s \in Step /\ t = <<s>> \o rest /\ t[1] = s
  BY <1>1, <1>2, Parted
<1>j. calls[i].job => JobTodo(rest) /\ JobStep(t, 1) /\ (s.do = "restore" => rest = <<>>)
  BY <1>1, <1>2, <1>3, JobTail
<1>r. \A r \in clean : r \in Ids /\ r # Nobody
  BY <1>t, RadiosAreNamed DEF JobsTypes
<1>q. s.do \in {"deliver", "start"} => q \in Ids
  <2>1. s.do \in {"deliver", "start"} => s.to \in Ids
    BY <1>4 DEF Step
  <2> QED
    BY <2>1, RadioIds DEF Reaches, Everyone
<1>o. \A r \in off : r \in clean /\ (q = s.to \/ (r # q /\ (r = s.to => Pending(rest, r))))
  BY DEF Misses, Pending
<1> HIDE DEF t, s, rest, q, off
<1>5. /\ Targets(t) = ({s.to} \ {Nobody}) \cup Targets(rest)
      /\ Saves(t) <=> s.do = "save" \/ Saves(rest)
      /\ \A r : /\ Pending(t, r) <=> (s.do = "restore" /\ s.to = r) \/ Pending(rest, r)
                /\ \A g : Good(t, r, g) <=> /\ s.to = r => \A c \in Sent(s) : Right(c, g)
                                            /\ Good(rest, r, g)
                /\ \A op : Sets(t, r, op) <=> \/ s.to = r /\ \E c \in Sent(s) : c.op = op
                                              \/ Sets(rest, r, op)
  <2> DEFINE one == <<s>>
  <2>1. /\ one \in Seq(Step) /\ Targets(one) = {s.to} \ {Nobody} /\ (Saves(one) <=> s.do = "save")
        /\ \A r : /\ Pending(one, r) <=> s.do = "restore" /\ s.to = r
                  /\ \A g : Good(one, r, g) <=> (s.to = r => \A c \in Sent(s) : Right(c, g))
                  /\ \A op : Sets(one, r, op) <=> s.to = r /\ \E c \in Sent(s) : c.op = op
    BY <1>4, OneStep
  <2> HIDE DEF one
  <2>2. t = one \o rest
    BY <1>4 DEF one
  <2>3. /\ Targets(one \o rest) = Targets(one) \cup Targets(rest)
        /\ Saves(one \o rest) <=> Saves(one) \/ Saves(rest)
        /\ \A r : /\ Pending(one \o rest, r) <=> Pending(one, r) \/ Pending(rest, r)
                  /\ \A g : Good(one \o rest, r, g) <=> Good(one, r, g) /\ Good(rest, r, g)
                  /\ \A op : Sets(one \o rest, r, op) <=> Sets(one, r, op) \/ Sets(rest, r, op)
    BY <1>4, <2>1, StepsJoined
  <2>4. /\ Targets(t) = Targets(one) \cup Targets(rest)
        /\ Saves(t) <=> Saves(one) \/ Saves(rest)
        /\ \A r : /\ Pending(t, r) <=> Pending(one, r) \/ Pending(rest, r)
                  /\ \A g : Good(t, r, g) <=> Good(one, r, g) /\ Good(rest, r, g)
                  /\ \A op : Sets(t, r, op) <=> Sets(one, r, op) \/ Sets(rest, r, op)
    BY <2>2, <2>3
  <2> QED
    BY ONLY <2>1, <2>4
\* A radio the first step is not for is as well served by the rest.
<1>6. \A r \in clean : s.to # r =>
        /\ r \in Targets(rest) => calls[i].job
        /\ Pending(rest, r) \/ Good(rest, r, cfg)
        /\ \A op : Mends(t, r, op) <=> Mends(rest, r, op)
  BY <1>3, <1>5 DEF Mends
<1>p. JobsTypes => radio \in [Ids -> Settings]
  BY DEF JobsTypes
<1>7. CASE /\ s.do = "command" /\ calls' = [calls EXCEPT ![i].todo = rest]
           /\ radio' = [radio EXCEPT ![s.to] = Exec(@, s.what)] /\ UNCHANGED <<cfg, clean>>
  <2>1. Sent(s) = {s.what} /\ s.what \in Commands
    BY <1>4, <1>7 DEF Sent, Step
  <2>2. radio' \in [Ids -> Settings]
    BY <1>p, <1>t, <1>7, <2>1, ExecTyped
  <2>3. ASSUME NEW r \in clean, s.to = r
        PROVE  /\ calls[i].job /\ s.what \in Listening
               /\ Pending(rest, r) \/ (Good(rest, r, cfg) /\ Right(s.what, cfg))
    <3>1. r \in Targets(t)
      BY <1>5, <1>r, <2>3
    <3>2. calls[i].job /\ s.what \in Listening
      BY <1>3, <1>4, <1>7, <1>j, <3>1 DEF JobStep
    <3> QED
      BY <1>3, <1>5, <1>7, <2>1, <2>3, <3>2
  <2>4. ASSUME NEW r \in clean
        PROVE  /\ r \in Targets(rest) => calls[i].job
               /\ Pending(rest, r) \/ Good(rest, r, cfg)
    BY <1>6, <2>3, <2>4
  <2>5. ASSUME cfg.channel # Unset, NEW r \in clean, NEW op \in Ops,
               Wanted(radio[r], op, cfg) \/ Mends(t, r, op)
        PROVE  Wanted(radio'[r], op, cfg) \/ Mends(rest, r, op)
    <3>1. CASE s.to # r
      <4>1. radio'[r] = radio[r]
        BY <1>p, <1>t, <1>7, <1>r, <2>5, <3>1
      <4> QED
        BY <1>6, <2>5, <3>1, <4>1
    <3>2. CASE s.to = r /\ Pending(rest, r)
      BY <3>2 DEF Mends
    <3>3. CASE s.to = r /\ ~Pending(rest, r)
      <4>1. s.what \in Listening /\ Right(s.what, cfg)
        BY <2>3, <2>5, <3>3
      <4>2. radio'[r] = Exec(radio[r], s.what) /\ radio[r] \in Settings
        BY <1>p, <1>t, <1>7, <1>r, <2>5, <3>3
      <4>3. Mends(t, r, op) => s.what.op = op \/ Mends(rest, r, op)
        BY <1>5, <1>7, <2>1 DEF Mends
      <4> DEFINE w == s.what
      <4> HIDE DEF w
      <4>4. Wanted(radio[r], op, cfg) \/ w.op = op => Wanted(Exec(radio[r], w), op, cfg)
        BY <2>5, <4>1, <4>2, JobCommandMends DEF w
      <4> QED
        BY <2>5, <4>2, <4>3, <4>4 DEF w
    <3> QED
      BY <3>1, <3>2, <3>3
  <2> QED
    BY <1>1, <1>3, <1>4, <1>5, <1>7, <1>j, <2>2, <2>4, <2>5, ReplaceKeeps
<1>8. CASE /\ s.do = "command" /\ calls' = [calls EXCEPT ![i].todo = rest]
           /\ clean' = Misses(s.to, rest) /\ UNCHANGED <<cfg, radio>>
  <2>1. \A r \in clean' : r \in clean /\ (r = s.to => Pending(rest, r))
    BY <1>8 DEF Misses, Pending
  <2>2. ASSUME NEW r \in clean'
        PROVE  /\ r \in Targets(rest) => calls[i].job
               /\ Pending(rest, r) \/ Good(rest, r, cfg)
               /\ \A op : Mends(t, r, op) => Mends(rest, r, op)
    <3>1. r \in Targets(rest) => calls[i].job
      BY <1>3, <1>5, <2>1, <2>2
    <3> QED
      BY <1>6, <2>1, <2>2, <3>1 DEF Mends
  <2>3. radio' \in [Ids -> Settings] /\ clean' \subseteq clean
    BY <1>p, <1>t, <1>8, <2>1
  <2>4. cfg.channel # Unset => \A r \in clean', op \in Ops :
          Wanted(radio[r], op, cfg) \/ Mends(t, r, op) => Wanted(radio'[r], op, cfg) \/ Mends(rest, r, op)
    BY <1>8, <2>2
  <2>5. /\ calls' = [calls EXCEPT ![i].todo = rest] /\ UNCHANGED <<cfg, role, status>>
        /\ (calls[i].job => JobTodo(rest)) /\ (Saves(rest) => Saves(t))
    BY <1>1, <1>5, <1>8, <1>j
  <2> QED
    BY <1>3, <1>4, <2>2, <2>3, <2>4, <2>5, ReplaceKeeps
<1>9. CASE /\ s.do \in {"deliver", "start"}
           /\ calls' = [calls EXCEPT ![i].todo = SendTo(q, cmds) \o rest]
           /\ clean' = off /\ UNCHANGED <<cfg, radio>>
  <2> DEFINE a == SendTo(q, cmds)
             u == a \o rest
  <2>1. cmds \in Seq(Commands) /\ (s.do = "deliver" => cmds = s.what)
    <3>1. s.do = "deliver" => s.what \in Seq(Commands)
      BY <1>4 DEF Step
    <3>2. Listen \in Seq(Commands) /\ <<Start>> \in Seq(Commands)
      <4>1. SetMode("capture") \in Commands /\ Start \in Commands
        BY DEF Commands, Modes
      <4> QED
        BY <4>1 DEF Listen
    <3> QED
      BY <1>9, <3>1, <3>2
  <2>2. s.do = "start" => Sent(s) = {}
    BY DEF Sent
  <2>3. s.do = "deliver" => Sent(s) = {cmds[k] : k \in DOMAIN cmds}
    BY <2>1 DEF Sent
  <2> HIDE DEF cmds
  <2>4. /\ a \in Seq(Step) /\ Targets(a) \subseteq {q} /\ ~Saves(a)
        /\ \A k \in DOMAIN a : a[k].do = "command" /\ k \in DOMAIN cmds /\ a[k].what = cmds[k]
        /\ \A r : /\ ~Pending(a, r)
                  /\ \A g : Good(a, r, g) <=> (q = r => \A k \in DOMAIN cmds : Right(cmds[k], g))
                  /\ \A op : Sets(a, r, op) <=> q = r /\ \E k \in DOMAIN cmds : cmds[k].op = op
    BY <1>9, <1>q, <2>1, SendToTyped, RadiosAreNamed
  <2>5. calls[i].job => s.do = "deliver" /\ \A k \in DOMAIN a : a[k].do = "command" /\ a[k].what \in Listening
    <3>1. calls[i].job => s.do = "deliver" /\ s.what \in Seq(Listening)
      BY <1>4, <1>9, <1>j DEF JobStep
    <3> QED
      BY <2>1, <2>4, <3>1
  <2> HIDE DEF a
  <2>6. /\ u \in Seq(Step) /\ Targets(u) = Targets(a) \cup Targets(rest)
        /\ Saves(u) <=> Saves(a) \/ Saves(rest)
        /\ \A r : /\ Pending(u, r) <=> Pending(a, r) \/ Pending(rest, r)
                  /\ \A g : Good(u, r, g) <=> Good(a, r, g) /\ Good(rest, r, g)
                  /\ \A op : Sets(u, r, op) <=> Sets(a, r, op) \/ Sets(rest, r, op)
    BY <1>4, <2>4, StepsJoined
  <2>7. calls[i].job => JobTodo(u)
    BY <1>4, <1>j, <2>4, <2>5, JobJoined
  <2> HIDE DEF u
  <2>8. ASSUME NEW r \in clean'
        PROVE  /\ r \in clean /\ (r \in Targets(u) => calls[i].job)
               /\ Pending(u, r) \/ Good(u, r, cfg)
               /\ \A op : Mends(t, r, op) => Mends(u, r, op)
    <3>1. r \in clean /\ (q = s.to \/ (r # q /\ (r = s.to => Pending(rest, r))))
      BY <1>9, <1>o, <2>8
    <3>2. CASE r # q
      <4>1. /\ r \in Targets(u) <=> r \in Targets(rest)
            /\ \A op : Sets(u, r, op) <=> Sets(rest, r, op)
            /\ Good(u, r, cfg) <=> Good(rest, r, cfg)
            /\ Pending(u, r) <=> Pending(rest, r)
        BY <2>4, <2>6, <3>2
      <4>2. r \in Targets(rest) => calls[i].job
        BY <1>3, <1>5, <3>1
      <4>3. CASE r # s.to
        BY <1>6, <3>1, <4>1, <4>2, <4>3 DEF Mends
      <4>4. CASE Pending(rest, r)
        BY <3>1, <4>1, <4>2, <4>4 DEF Mends
      <4> QED
        BY <3>1, <3>2, <4>3, <4>4
    <3>3. CASE r = q
      <4>1. s.to = r /\ r \in Targets(t)
        BY <1>5, <1>r, <3>1, <3>3
      <4>2. calls[i].job /\ s.do = "deliver"
        BY <1>3, <2>5, <3>1, <4>1
      <4>3. /\ \A op : Sets(u, r, op) <=> Sets(t, r, op)
            /\ Good(u, r, cfg) <=> Good(t, r, cfg)
            /\ Pending(u, r) <=> Pending(t, r)
        BY <1>5, <2>3, <2>4, <2>6, <3>3, <4>1, <4>2
      <4> QED
        BY <1>3, <3>1, <4>2, <4>3 DEF Mends
    <3> QED
      BY <3>2, <3>3
  <2>9. radio' \in [Ids -> Settings] /\ clean' \subseteq clean
    BY <1>p, <1>t, <1>9, <2>8
  <2>10. cfg.channel # Unset => \A r \in clean', op \in Ops :
          Wanted(radio[r], op, cfg) \/ Mends(t, r, op) => Wanted(radio'[r], op, cfg) \/ Mends(u, r, op)
    BY <1>9, <2>8
  <2>11. calls' = [calls EXCEPT ![i].todo = u] /\ (Saves(u) => Saves(t))
    BY <1>5, <1>9, <2>4, <2>6 DEF u, a
  <2> QED
    BY <1>1, <1>3, <1>9, <2>6, <2>7, <2>8, <2>9, <2>10, <2>11, ReplaceKeeps
<1>10. CASE /\ s.do = "restore"
            /\ calls' = [calls EXCEPT ![i].todo = Deliver(s.to, RestoreFrames) \o rest]
            /\ UNCHANGED <<cfg, radio, clean>>
  <2> DEFINE d == [do |-> "deliver", to |-> s.to, what |-> RestoreFrames]
             one == <<d>>
             u == one \o rest
  <2>1. RestoreFrames \in Seq(Listening)
    BY <1>t, RestoreListens
  <2>2. /\ d \in Step /\ d.do = "deliver" /\ d.to = s.to /\ d.what = RestoreFrames
        /\ Sent(d) = {RestoreFrames[k] : k \in DOMAIN RestoreFrames}
    <3>1. s.to \in Ids
      BY <1>4, <1>10 DEF Step
    <3>2. RestoreFrames \in Seq(Commands)
      BY <2>1, ListeningIsCommands
    <3> QED
      BY <3>1, <3>2 DEF Step, Sent
  <2>3. /\ \A c \in Sent(d) : Right(c, cfg)
        /\ cfg.channel # Unset => \A op \in Ops : \E c \in Sent(d) : c.op = op
    BY <1>t, <2>2, RestoreSets
  <2>u. calls' = [calls EXCEPT ![i].todo = u]
    BY <1>10 DEF Deliver
  <2> HIDE DEF d
  <2>4. /\ one \in Seq(Step) /\ Targets(one) = {s.to} \ {Nobody} /\ ~Saves(one)
        /\ one[1] = d /\ DOMAIN one = {1}
        /\ \A r : /\ Good(one, r, cfg)
                  /\ cfg.channel # Unset => \A op \in Ops : s.to = r => Sets(one, r, op)
    <3>1. one[1] = d /\ DOMAIN one = {1}
      OBVIOUS
    <3>2. /\ one \in Seq(Step) /\ Targets(one) = {d.to} \ {Nobody} /\ (Saves(one) <=> d.do = "save")
          /\ \A r : /\ \A g : Good(one, r, g) <=> (d.to = r => \A c \in Sent(d) : Right(c, g))
                    /\ \A op : Sets(one, r, op) <=> d.to = r /\ \E c \in Sent(d) : c.op = op
      <4>1. /\ <<d>> \in Seq(Step) /\ Targets(<<d>>) = {d.to} \ {Nobody}
            /\ Saves(<<d>>) <=> d.do = "save"
            /\ \A r : /\ Pending(<<d>>, r) <=> d.do = "restore" /\ d.to = r
                      /\ \A g : Good(<<d>>, r, g) <=> (d.to = r => \A c \in Sent(d) : Right(c, g))
                      /\ \A op : Sets(<<d>>, r, op) <=> d.to = r /\ \E c \in Sent(d) : c.op = op
        <5>1. d \in Step
          BY <2>2
        <5> QED
          BY ONLY <5>1, OneStep
      <4>2. one = <<d>>
        OBVIOUS
      <4> HIDE DEF one
      <4> QED
        BY ONLY <4>1, <4>2
    <3> HIDE DEF one
    <3>3. one \in Seq(Step) /\ Targets(one) = {s.to} \ {Nobody} /\ ~Saves(one)
      BY <2>2, <3>2
    <3>4. \A r : /\ Good(one, r, cfg)
                /\ \A op : s.to = r /\ (\E c \in Sent(d) : c.op = op) => Sets(one, r, op)
      BY <2>2, <2>3, <3>2
    <3> QED
      BY <2>3, <3>1, <3>3, <3>4
  <2>5. calls[i].job => JobTodo(u)
    <3>1. \A k \in DOMAIN one : one[k].do = "deliver" /\ one[k].what \in Seq(Listening)
      BY <2>1, <2>2, <2>4
    <3> HIDE DEF one
    <3> QED
      BY <1>4, <1>j, <2>4, <3>1, JobJoined
  <2> HIDE DEF one
  <2>6. /\ u \in Seq(Step) /\ Targets(u) = Targets(one) \cup Targets(rest)
        /\ Saves(u) <=> Saves(one) \/ Saves(rest)
        /\ \A r : /\ Pending(u, r) <=> Pending(one, r) \/ Pending(rest, r)
                  /\ \A g : Good(u, r, g) <=> Good(one, r, g) /\ Good(rest, r, g)
                  /\ \A op : Sets(u, r, op) <=> Sets(one, r, op) \/ Sets(rest, r, op)
    BY <1>4, <2>4, StepsJoined
  <2> HIDE DEF u
  <2>7. ASSUME NEW r \in clean
        PROVE  /\ r \in Targets(u) => calls[i].job
               /\ Pending(u, r) \/ Good(u, r, cfg)
               /\ cfg.channel # Unset => \A op \in Ops : Mends(t, r, op) => Mends(u, r, op)
    <3>1. r \in Targets(u) => calls[i].job
      BY <1>3, <1>5, <2>4, <2>6, <2>7
    <3>2. CASE s.to # r
      BY <1>6, <2>4, <2>6, <2>7, <3>1, <3>2 DEF Mends
    <3>3. CASE s.to = r
      <4>1. rest = <<>>
        BY <1>3, <1>5, <1>10, <1>j, <1>r, <2>7, <3>3
      <4>2. Good(rest, r, cfg)
        BY <4>1 DEF Good
      <4> QED
        BY <2>4, <2>6, <3>1, <3>3, <4>2 DEF Mends
    <3> QED
      BY <3>2, <3>3
  <2>8. radio' \in [Ids -> Settings] /\ (Saves(u) => Saves(t)) /\ clean' \subseteq clean
    BY <1>p, <1>t, <1>5, <1>10, <2>4, <2>6
  <2>9. cfg.channel # Unset => \A r \in clean', op \in Ops :
          Wanted(radio[r], op, cfg) \/ Mends(t, r, op) => Wanted(radio'[r], op, cfg) \/ Mends(u, r, op)
    BY <1>10, <2>7
  <2> QED
    BY <1>1, <1>3, <1>10, <2>u, <2>5, <2>6, <2>7, <2>8, <2>9, ReplaceKeeps
<1>11. CASE /\ s.do = "save" /\ calls' = [calls EXCEPT ![i].todo = rest]
            /\ cfg' = [cfg EXCEPT ![s.what[1]] = s.what[2]] /\ UNCHANGED <<radio, clean>>
  <2>1. clean = {}
    BY <1>t, <1>3, <1>5, <1>11 DEF Unsaved
  <2>2. cfg' \in [channel : Channels \cup {Unset}, hop : Dwells]
    <3>1. s.what \in Entries
      BY <1>4, <1>11 DEF Step
    <3>2. \/ s.what[1] = "channel" /\ s.what[2] \in Channels
          \/ s.what[1] = "hop" /\ s.what[2] \in Dwells
      BY <3>1 DEF Entries
    <3> QED
      BY <1>t, <1>11, <3>2 DEF JobsTypes
  <2>3. calls \in Seq(Call) /\ calls[i] \in Call
    BY <1>t DEF JobsTypes
  <2>4. /\ calls' \in Seq(Call) /\ DOMAIN calls' = DOMAIN calls
        /\ \A j \in DOMAIN calls : calls'[j] = IF j = i THEN [calls[i] EXCEPT !.todo = rest] ELSE calls[j]
    <3>1. [calls[i] EXCEPT !.todo = rest] \in Call
      BY <1>4, <2>3 DEF Call
    <3>2. calls' = [calls EXCEPT ![i] = [calls[i] EXCEPT !.todo = rest]]
      BY <1>11
    <3> QED
      BY <2>3, <3>1, <3>2
  <2>5. JobsAlone'
    <3>1. [calls[i] EXCEPT !.todo = rest].todo = rest /\ [calls[i] EXCEPT !.todo = rest].job = calls[i].job
      BY <2>3 DEF Call
    <3> QED
      BY <1>j, <1>t, <2>4, <3>1 DEF JobsAlone
  <2>6. JobsTypes'
    BY <1>1, <1>t, <1>11, <2>2, <2>4 DEF JobsTypes
  <2> QED
    BY <1>11, <2>1, <2>5, <2>6 DEF JobsInv, Unsaved, Borrowed, Repaired
<1>12. CASE /\ s.do = "stopped" /\ calls' = [calls EXCEPT ![i].todo = rest]
            /\ UNCHANGED <<cfg, radio, clean>>
  <2>1. ~calls[i].job
    BY <1>4, <1>12, <1>j DEF JobStep
  <2>2. \A r \in clean : s.to # r
    BY <1>3, <1>5, <1>r, <2>1
  <2>3. radio' \in [Ids -> Settings] /\ clean' \subseteq clean
    BY <1>p, <1>t, <1>12
  <2>4. cfg.channel # Unset => \A r \in clean', op \in Ops :
          Wanted(radio[r], op, cfg) \/ Mends(t, r, op) => Wanted(radio'[r], op, cfg) \/ Mends(rest, r, op)
    BY <1>6, <1>12, <2>2
  <2>5. /\ calls' = [calls EXCEPT ![i].todo = rest] /\ UNCHANGED <<cfg, role, status>>
        /\ (calls[i].job => JobTodo(rest)) /\ (Saves(rest) => Saves(t))
    BY <1>1, <1>5, <1>12, <1>j
  <2>6. \A r \in clean' : /\ r \in Targets(rest) => calls[i].job
                          /\ Pending(rest, r) \/ Good(rest, r, cfg)
    BY <1>6, <1>12, <2>2
  <2> QED
    BY <1>3, <1>4, <2>3, <2>4, <2>5, <2>6, ReplaceKeeps
<1> QED
  BY <1>d, <1>7, <1>8, <1>9, <1>10, <1>11, <1>12

-------------------------------------------------------------------------------
\* The lists that requests and jobs begin with.
LEMMA CommandsListed ==
  ASSUME NEW r \in To, NEW cmds \in Seq(Commands)
  PROVE  SendTo(r, cmds) \in Seq(Step)
BY SendToTyped

LEMMA ListenTyped == Listen \in Seq(Commands) /\ Listen \in Seq(Listening)
<1>1. SetMode("capture") \in Listening /\ Start \in Listening
  BY DEF Listening
<1>2. SetMode("capture") \in Commands /\ Start \in Commands
  BY <1>1, ListeningIsCommands
<1> QED
  BY <1>1, <1>2 DEF Listen

LEMMA SatellitesListed ==
  ASSUME NEW cmd \in Commands
  PROVE  ToSatellites(cmd) \in Seq(Step)
<1> DEFINE n == Cardinality(Seen \ {0})
<1>1. IsFiniteSet(Seen \ {0})
  <2>1. Seen \ {0} \subseteq Ids
    BY DEF Seen
  <2> QED
    BY <2>1, RadioIds, FS_Subset
<1>2. n \in Nat
  BY <1>1, FS_CardinalityType
<1>3. \A k \in 1..n : Nth(Seen \ {0}, k) \in To
  <2>1. Seen \ {0} \in SUBSET Ids
    BY DEF Seen
  <2> QED
    BY <2>1 DEF To
<1> HIDE DEF n
<1>4. \A k \in 1..n : [do |-> "command", to |-> Nth(Seen \ {0}, k), what |-> cmd] \in Step
  BY <1>3 DEF Step
<1>5. ToSatellites(cmd) = [k \in 1..n |-> [do |-> "command", to |-> Nth(Seen \ {0}, k), what |-> cmd]]
  BY DEF ToSatellites, n
<1> DEFINE f(k) == [do |-> "command", to |-> Nth(Seen \ {0}, k), what |-> cmd]
<1>6. \A k \in 1..n : f(k) \in Step
  BY <1>4
<1>7. ToSatellites(cmd) = [k \in 1..n |-> f(k)]
  BY <1>5
<1> HIDE DEF f
<1> QED
  BY <1>2, <1>6, <1>7

LEMMA SaveListed ==
  ASSUME NEW key, NEW v, <<key, v>> \in Entries
  PROVE  SaveCfg(key, v) \in Seq(Step)
<1>1. [do |-> "save", to |-> Nobody, what |-> <<key, v>>] \in Step
  BY DEF Step
<1> QED
  BY <1>1 DEF SaveCfg

LEMMA StoppedListed ==
  ASSUME NEW r \in Ids \cup {Nobody}, NEW on \in BOOLEAN
  PROVE  SetStopped(r, on) \in Seq(Step)
<1>1. [do |-> "stopped", to |-> r, what |-> on] \in Step
  BY DEF Step
<1> QED
  BY <1>1 DEF SetStopped

\* What is left to be routed when it is sent.
LEMMA DeliverListed ==
  ASSUME NEW r \in Ids, NEW cmds \in Seq(Commands)
  PROVE  Deliver(r, cmds) \in Seq(Step) /\ StartOn(r) \in Seq(Step)
<1>1. /\ [do |-> "deliver", to |-> r, what |-> cmds] \in Step
      /\ [do |-> "start", to |-> r, what |-> Unset] \in Step
  BY DEF Step
<1> QED
  BY <1>1 DEF Deliver, StartOn

\* What a job delivers.
LEMMA JobDelivers ==
  ASSUME NEW r \in Ids, NEW cmds \in Seq(Listening)
  PROVE  LET a == Deliver(r, cmds)
         IN /\ a \in Seq(Step)
            /\ \A k \in DOMAIN a : a[k].do = "deliver" /\ a[k].to = r /\ a[k].what \in Seq(Listening)
<1> DEFINE s == [do |-> "deliver", to |-> r, what |-> cmds]
<1>1. cmds \in Seq(Commands)
  BY ListeningIsCommands
<1>2. s \in Step /\ s.do = "deliver" /\ s.to = r /\ s.what = cmds
  BY <1>1 DEF Step
<1>3. Deliver(r, cmds) = <<s>>
  BY DEF Deliver
<1> HIDE DEF s
<1> QED
  BY <1>2, <1>3

LEMMA RequestBegins ==
  ASSUME JobsInv, NEW todo \in Seq(Step), Request(todo)
  PROVE  JobsInv'
<1>1. Begins(FALSE, todo) /\ UNCHANGED <<radio, cfg, status, role>>
  BY DEF Request, Begin
<1>2. status' \in Channels \cup {Unset} /\ role' \in [Ids -> Roles \cup {"tester", "any"}]
  BY <1>1 DEF JobsInv, JobsTypes
<1> QED
  BY <1>1, <1>2, BeginKeeps

LEMMA JobBegins ==
  ASSUME JobsInv, NEW r \in Ids, NEW a \in Seq(Step), Job(a \o Restore(r)),
         \A k \in DOMAIN a : a[k].do = "deliver" /\ a[k].to = r /\ a[k].what \in Seq(Listening)
  PROVE  JobsInv'
<1> DEFINE t == a \o Restore(r)
<1>1. t \in Seq(Step) /\ JobTodo(t) /\ Pending(t, r) /\ Targets(t) = {r} /\ ~Saves(t)
  BY JobBuilt
<1>2. Begins(TRUE, t) /\ UNCHANGED <<radio, cfg, status, role>>
  BY DEF Job, Begin
<1>3. status' \in Channels \cup {Unset} /\ role' \in [Ids -> Roles \cup {"tester", "any"}]
  BY <1>2 DEF JobsInv, JobsTypes
<1> HIDE DEF t
<1> QED
  BY <1>1, <1>2, <1>3, BeginKeeps

\* A survey borrows the spare radio, and its list restores it.
LEMMA SurveyKeeps == JobsInv /\ Survey => JobsInv'
<1> SUFFICES ASSUME JobsInv, Survey PROVE JobsInv'
  OBVIOUS
<1> DEFINE r == Allocate("spectrum")
           a == Deliver(r, <<SetHop(0)>>)
           b == Deliver(r, <<SetChannel(Home)>> \o Listen)
           c == Deliver(r, <<SetChannel(Foreign)>> \o Listen)
           fits(x) == /\ x \in Seq(Step)
                      /\ \A k \in DOMAIN x : x[k].do = "deliver" /\ x[k].to = r /\ x[k].what \in Seq(Listening)
<1>1. r # Nobody /\ Job(RunSurvey(r))
  BY DEF Survey, On
<1>2. r \in Ids
  BY <1>1, AllocateIsRadio
<1>3. /\ <<SetHop(0)>> \in Seq(Listening)
      /\ <<SetChannel(Home)>> \o Listen \in Seq(Listening)
      /\ <<SetChannel(Foreign)>> \o Listen \in Seq(Listening)
  <2>1. SetHop(0) \in Listening /\ SetChannel(Home) \in Listening /\ SetChannel(Foreign) \in Listening
    BY DEF Listening, Dwells, Channels
  <2> QED
    BY <2>1, ListenTyped
<1>4. RunSurvey(r) = ((a \o b) \o c) \o Restore(r)
  BY DEF RunSurvey
<1> HIDE DEF r
<1>5. fits(a) /\ fits(b) /\ fits(c)
  BY <1>2, <1>3, JobDelivers
<1> HIDE DEF a, b, c
<1>6. \A x, y : fits(x) /\ fits(y) => fits(x \o y)
  <2> SUFFICES ASSUME NEW x, NEW y, fits(x), fits(y) PROVE fits(x \o y)
    OBVIOUS
  <2>0. x \in Seq(Step) /\ y \in Seq(Step)
    OBVIOUS
  <2> DEFINE z == x \o y
  <2>1. /\ z \in Seq(Step)
        /\ \A k \in DOMAIN z : \/ k \in DOMAIN x /\ z[k] = x[k]
                               \/ k - Len(x) \in DOMAIN y /\ z[k] = y[k - Len(x)]
    BY <2>0
  <2> HIDE DEF z
  <2>2. fits(z)
    BY <2>1
  <2> QED
    BY <2>2 DEF z
<1>7. fits((a \o b) \o c)
  <2> HIDE DEF fits
  <2> QED
    BY <1>5, <1>6
<1> QED
  BY <1>1, <1>2, <1>4, <1>7, JobBegins

\* So does a monitor snapshot.
LEMMA SnapshotKeeps == JobsInv /\ MonitorSnapshot => JobsInv'
<1> SUFFICES ASSUME JobsInv, MonitorSnapshot PROVE JobsInv'
  OBVIOUS
<1> DEFINE r == Allocate("capture")
           cmds == <<SetHop(0), SetChannel(Foreign)>> \o Listen
           a == Deliver(r, cmds)
<1>1. r # Nobody /\ Job(RunMonitorSnapshot(r))
  BY DEF MonitorSnapshot, On
<1>2. r \in Ids
  BY <1>1, AllocateIsRadio
<1>3. cmds \in Seq(Listening)
  <2>1. SetHop(0) \in Listening /\ SetChannel(Foreign) \in Listening
    BY DEF Listening, Dwells, Channels
  <2> QED
    BY <2>1, ListenTyped
<1>4. RunMonitorSnapshot(r) = a \o Restore(r)
  BY DEF RunMonitorSnapshot
<1> HIDE DEF r, cmds
<1>5. /\ a \in Seq(Step)
      /\ \A k \in DOMAIN a : a[k].do = "deliver" /\ a[k].to = r /\ a[k].what \in Seq(Listening)
  BY <1>2, <1>3, JobDelivers
<1> HIDE DEF a
<1> QED
  BY <1>1, <1>2, <1>4, <1>5, JobBegins

\* Requests that name their radios.
LEMMA RequestsKeep ==
  ASSUME JobsInv
  PROVE  /\ \A c \in Channels : SetChannelAll(c) => JobsInv'
         /\ \A r \in Ids, c \in Channels : RadioChannel(r, c) => JobsInv'
         /\ StopAll => JobsInv'
         /\ \A d \in {0, 300} : HopOn(d) => JobsInv'
         /\ ResetRadio => JobsInv'
<1>o. 0 \in To /\ Everyone \in To
  BY DEF To, Everyone
<1>c. /\ \A c \in Channels : SetChannel(c) \in Commands
      /\ \A d \in Dwells : SetHop(d) \in Commands
      /\ Stop \in Commands
  BY DEF Commands
<1>1. ASSUME NEW c \in Channels, SetChannelAll(c) PROVE JobsInv'
  <2> DEFINE a == SendTo(0, <<SetChannel(c)>> \o Listen)
             b == ToSatellites(SetChannel(c))
             e == SaveCfg("channel", c)
  <2>1. a \in Seq(Step) /\ b \in Seq(Step) /\ e \in Seq(Step)
    <3>1. <<SetChannel(c)>> \o Listen \in Seq(Commands)
      BY <1>c, ListenTyped
    <3>2. <<"channel", c>> \in Entries
      BY DEF Entries
    <3> QED
      BY <1>o, <1>c, <3>1, <3>2, CommandsListed, SatellitesListed, SaveListed
  <2>2. Request(a \o b \o e)
    BY <1>1 DEF SetChannelAll
  <2> HIDE DEF a, b, e
  <2>3. a \o b \o e \in Seq(Step)
    BY <2>1
  <2> QED
    BY <2>2, <2>3, RequestBegins
<1>2. ASSUME NEW r \in Ids, NEW c \in Channels, RadioChannel(r, c) PROVE JobsInv'
  <2> DEFINE a == Deliver(r, <<SetChannel(c)>>)
             e == IF r = 0 THEN SaveCfg("channel", c) ELSE <<>>
  <2>1. a \in Seq(Step)
    <3>1. <<SetChannel(c)>> \in Seq(Commands)
      BY <1>c
    <3> QED
      BY <3>1, DeliverListed
  <2>2. e \in Seq(Step)
    <3>1. <<"channel", c>> \in Entries
      BY DEF Entries
    <3>2. SaveCfg("channel", c) \in Seq(Step)
      BY <3>1, SaveListed
    <3> QED
      BY <3>2
  <2>3. Request(a \o e)
    BY <1>2 DEF RadioChannel
  <2> HIDE DEF a, e
  <2>4. a \o e \in Seq(Step)
    BY <2>1, <2>2
  <2> QED
    BY <2>3, <2>4, RequestBegins
<1>3. ASSUME StopAll PROVE JobsInv'
  <2> DEFINE a == SendTo(0, <<Stop>>)
             b == ToSatellites(Stop)
             e == SetStopped(Nobody, TRUE)
  <2>1. a \in Seq(Step) /\ b \in Seq(Step)
    <3>1. <<Stop>> \in Seq(Commands)
      BY <1>c
    <3> QED
      BY <1>o, <1>c, <3>1, CommandsListed, SatellitesListed
  <2>2. e \in Seq(Step)
    BY StoppedListed
  <2>3. Request(a \o b \o e)
    BY <1>3 DEF StopAll
  <2> HIDE DEF a, b, e
  <2>4. a \o b \o e \in Seq(Step)
    BY <2>1, <2>2
  <2> QED
    BY <2>3, <2>4, RequestBegins
<1>4. ASSUME NEW d \in {0, 300}, HopOn(d) PROVE JobsInv'
  <2> DEFINE a == SendTo(0, <<SetHop(d)>>)
             e == SaveCfg("hop", d)
  <2>d. d \in Dwells
    BY DEF Dwells
  <2>1. a \in Seq(Step)
    <3>1. <<SetHop(d)>> \in Seq(Commands)
      BY <1>c, <2>d
    <3> QED
      BY <1>o, <3>1, CommandsListed
  <2>2. e \in Seq(Step)
    <3>1. <<"hop", d>> \in Entries
      BY <2>d DEF Entries
    <3> QED
      BY <3>1, SaveListed
  <2>3. Request(a \o e)
    BY <1>4 DEF HopOn
  <2> HIDE DEF a, e
  <2>4. a \o e \in Seq(Step)
    BY <2>1, <2>2
  <2> QED
    BY <2>3, <2>4, RequestBegins
<1>5. ASSUME ResetRadio PROVE JobsInv'
  <2>1. <<Stop>> \o Listen \in Seq(Commands)
    BY <1>c, ListenTyped
  <2>2. SendTo(0, <<Stop>> \o Listen) \in Seq(Step)
    BY <1>o, <2>1, CommandsListed
  <2> QED
    BY <1>5, <2>2, RequestBegins DEF ResetRadio
<1> QED
  BY <1>1, <1>2, <1>3, <1>4, <1>5

\* Requests that first choose a radio.
LEMMA AllocatingKeeps ==
  ASSUME JobsInv
  PROVE  /\ StartCapture => JobsInv'
         /\ \A m \in Modes : ChangeMode(m) => JobsInv'
         /\ \A r \in Ids : SdrStart(r) => JobsInv'
         /\ \A r \in Ids : SdrStop(r) => JobsInv'
         /\ MonitorSpare => JobsInv'
<1>c. /\ \A m \in Modes : SetMode(m) \in Commands
      /\ Start \in Commands /\ SdrConfig \in Commands /\ "sdr" \in Modes
  BY DEF Commands, Modes
<1>1. ASSUME StartCapture PROVE JobsInv'
  <2> DEFINE r == Allocate("capture")
             a == StartOn(r)
             e == SetStopped(IF Seen = {} THEN Nobody ELSE r, FALSE)
  <2>0. r # Nobody
    BY <1>1 DEF StartCapture, On
  <2>1. r \in Ids
    BY <2>0, AllocateIsRadio
  <2>3. Request(a \o e)
    BY <1>1 DEF StartCapture, On
  <2> HIDE DEF r
  <2>2. a \in Seq(Step) /\ e \in Seq(Step)
    <3>1. a \in Seq(Step)
      BY <1>c, <2>1, ListenTyped, DeliverListed
    <3>2. e \in Seq(Step)
      BY <2>1, StoppedListed
    <3> QED
      BY <3>1, <3>2
  <2> HIDE DEF a, e
  <2>4. a \o e \in Seq(Step)
    BY <2>2
  <2> QED
    BY <2>3, <2>4, RequestBegins
<1>2. ASSUME NEW m \in Modes, ChangeMode(m) PROVE JobsInv'
  <2> DEFINE r == CASE m = "ed" -> Allocate("spectrum") [] m = "capture" -> Allocate("capture") [] OTHER -> Everyone
             cmds == IF m = "capture" THEN Listen ELSE <<SetMode(m)>>
  <2>1. r \in Ids
    <3>1. r # Nobody
      BY <1>2 DEF ChangeMode, On
    <3> QED
      BY <3>1, AllocateIsRadio, RadioIds DEF Everyone
  <2>2. cmds \in Seq(Commands)
    BY <1>c, ListenTyped
  <2>3. Request(Deliver(r, cmds))
    BY <1>2 DEF ChangeMode, On
  <2> HIDE DEF r, cmds
  <2> QED
    BY <2>1, <2>2, <2>3, DeliverListed, RequestBegins
<1>3. ASSUME NEW r \in Ids, SdrStart(r) PROVE JobsInv'
  <2> DEFINE a == Deliver(r, <<SdrConfig, SetMode("sdr")>>)
             e == SetStopped(r, FALSE)
  <2>1. a \in Seq(Step) /\ e \in Seq(Step)
    <3>1. <<SdrConfig, SetMode("sdr")>> \in Seq(Commands)
      BY <1>c
    <3> QED
      BY <3>1, DeliverListed, StoppedListed
  <2>2. Request(a \o e)
    BY <1>3 DEF SdrStart, On
  <2> HIDE DEF a, e
  <2>3. a \o e \in Seq(Step)
    BY <2>1
  <2> QED
    BY <2>2, <2>3, RequestBegins
<1>4. ASSUME NEW r \in Ids, SdrStop(r) PROVE JobsInv'
  <2>1. Deliver(r, Listen) \in Seq(Step)
    BY ListenTyped, DeliverListed
  <2> QED
    BY <1>4, <2>1, RequestBegins DEF SdrStop
<1>5. ASSUME MonitorSpare PROVE JobsInv'
  <2> DEFINE r == SpareRadio
             todo == SendTo(r, FramesFor(r, "monitor"))
  <2>1. /\ r # Nobody /\ Begins(FALSE, todo) /\ UNCHANGED <<radio, cfg, status>>
        /\ role' = [role EXCEPT ![r] = "monitor"]
    BY <1>5 DEF MonitorSpare, On, Begin
  <2>2. r \in To
    BY SpareIsRadio, RadiosAreNamed DEF To
  <2>3. FramesFor(r, "monitor") \in Seq(Commands) /\ "monitor" \in Roles
    BY FramesTyped DEF Roles
  <2>4. todo \in Seq(Step)
    <3> HIDE DEF r
    <3> QED
      BY <2>2, <2>3, CommandsListed
  <2>5. /\ role' \in [Ids -> Roles \cup {"tester", "any"}]
        /\ status' \in Channels \cup {Unset}
    BY <2>1, <2>3 DEF JobsInv, JobsTypes
  <2> HIDE DEF todo
  <2> QED
    BY <2>1, <2>4, <2>5, BeginKeeps
<1> QED
  BY <1>1, <1>2, <1>3, <1>4, <1>5

\* A radio newly heard of is told its role, as a request tells it.
LEMMA IdentifyKeeps ==
  ASSUME JobsInv, NEW r \in Ids, Identify(r), UNCHANGED <<radio, role, cfg>>,
         status' \in Channels \cup {Unset}
  PROVE  JobsInv'
<1>1. CASE UNCHANGED <<calls, clean>>
  BY <1>1, JobsFrame
<1>2. CASE ~UNCHANGED <<calls, clean>>
  <2> DEFINE given == IF role[r] = "tester" THEN "sniffer" ELSE role[r]
             todo == SendTo(r, FramesFor(r, given))
  <2>1. Begins(FALSE, todo) /\ role[r] # "any"
    BY <1>2 DEF Identify, Free
  <2>2. given \in Roles
    <3>1. role[r] \in Roles \cup {"tester", "any"}
      BY DEF JobsInv, JobsTypes
    <3> QED
      BY <2>1, <3>1 DEF Roles
  <2> HIDE DEF given
  <2>3. FramesFor(r, given) \in Seq(Commands) /\ r \in To
    BY <2>2, FramesTyped, RadiosAreNamed
  <2>4. todo \in Seq(Step)
    BY <2>3, CommandsListed
  <2>5. role' \in [Ids -> Roles \cup {"tester", "any"}]
    BY DEF JobsInv, JobsTypes
  <2> HIDE DEF todo
  <2> QED
    BY <2>1, <2>4, <2>5, BeginKeeps
<1> QED
  BY <1>1, <1>2

\* A status or a frame changes what the tracker reports, and so does its silence.
LEMMA HeardKeeps ==
  ASSUME JobsInv, NEW r \in Ids, Report(r) \/ Heard(r) \/ Forget(r)
  PROVE  JobsInv'
<1>0. status \in Channels \cup {Unset}
  BY DEF JobsInv, JobsTypes
<1>1. CASE Report(r)
  <2>1. radio[r] \in Settings
    BY DEF JobsInv, JobsTypes
  <2>2. radio[r].channel \in Channels
    BY <2>1 DEF Settings
  <2> QED
    BY <1>1, <2>2, IdentifyKeeps DEF Report
<1>2. CASE Heard(r)
  BY <1>0, <1>2, IdentifyKeeps DEF Heard
<1>3. CASE Forget(r)
  BY <1>0, <1>3, JobsFrame DEF Forget
<1> QED
  BY <1>1, <1>2, <1>3

\* Every request, job and report keeps the invariant.
LEMMA JobsInvStep == JobsInv /\ [JobsNext]_jobVars => JobsInv'
<1> SUFFICES ASSUME JobsInv, [JobsNext]_jobVars PROVE JobsInv'
  OBVIOUS
<1>1. CASE Survey \/ MonitorSnapshot
  BY <1>1, SurveyKeeps, SnapshotKeeps
<1>2. CASE \/ StopAll \/ ResetRadio
           \/ \E c \in Channels : SetChannelAll(c) \/ \E r \in Ids : RadioChannel(r, c)
           \/ \E d \in {0, 300} : HopOn(d)
  BY <1>2, RequestsKeep
<1>3. CASE \/ MonitorSpare \/ StartCapture
           \/ \E m \in Modes : ChangeMode(m)
           \/ \E r \in Ids : SdrStart(r) \/ SdrStop(r)
  BY <1>3, AllocatingKeeps
<1>4. CASE \E r \in Ids : Report(r) \/ Heard(r) \/ Forget(r)
  BY <1>4, HeardKeeps
<1>5. CASE \E i \in DOMAIN calls : Advance(i)
  BY <1>5, AdvanceKeeps
<1>6. CASE UNCHANGED jobVars
  <2>1. status \in Channels \cup {Unset}
    BY DEF JobsInv, JobsTypes
  <2> QED
    BY <1>6, <2>1, JobsFrame DEF jobVars
<1> QED
  BY <1>1, <1>2, <1>3, <1>4, <1>5, <1>6 DEF JobsNext

\* With no job on a clean radio nothing is left to be mended.
LEMMA JobsInvMeans == JobsInv => BorrowedComesBack
<1> SUFFICES ASSUME JobsInv, NEW r \in clean, ~Busy(r), cfg.channel # Unset
             PROVE  radio[r] = [mode |-> "capture", running |-> TRUE, dwell |-> cfg.hop, channel |-> cfg.channel]
  BY DEF BorrowedComesBack
<1>0. r \in Ids /\ radio[r] \in Settings /\ r # Nobody
  BY RadiosAreNamed DEF JobsInv, JobsTypes
<1>1. \A op : ~Mended(r, op)
  <2>1. \A i \in DOMAIN calls : \A k \in DOMAIN calls[i].todo : calls[i].todo[k].to # r
    BY <1>0 DEF Busy, Targets
  <2> QED
    BY <2>1 DEF Mended, Mends, Pending, Sets
<1>2. \A op \in Ops : Wanted(radio[r], op, cfg)
  BY <1>1 DEF JobsInv, Repaired
<1>3. radio[r].mode = "capture" /\ radio[r].running = TRUE /\ radio[r].dwell = cfg.hop /\ radio[r].channel = cfg.channel
  BY <1>2 DEF Ops, Wanted
<1> QED
  BY <1>0, <1>3 DEF Settings

\* However surveys, snapshots and requests interleave, frame by frame, a radio
\* that no request took for itself since its job began is back to capturing on the
\* configured channel and hop once no job is on it (restoreCapture in server.go),
\* for any number of radios and of calls at a time, whatever frames of the jobs
\* are lost or go to the port's own radio, but those of the restore itself.
THEOREM BorrowedReturns == JobsSpec => []BorrowedComesBack
<1>1. JobsInit => JobsInv
  BY JobsInvInit
<1>2. JobsInv /\ [JobsNext]_jobVars => JobsInv'
  BY JobsInvStep
<1>3. JobsInv => BorrowedComesBack
  BY JobsInvMeans
<1> QED
  BY <1>1, <1>2, <1>3, PTL DEF JobsSpec

\* What the tracker reports of a radio, if it was heard.
Views == [mode : Modes \cup {"unknown"}, stopped : BOOLEAN]
\* What the tracker has of every radio.
ViewTyped == view \in [Ids -> {Unseen} \cup Views]

\* A report, a frame heard, a silence and a stop are all that changes it.
LEMMA ViewKept ==
  ASSUME JobsInv, ViewTyped, [JobsNext]_jobVars
  PROVE  ViewTyped'
<1>m. \A r \in Ids : LastMode(r) \in Modes \cup {"unknown"}
  BY DEF ViewTyped, Views, LastMode
<1>1. CASE \E i \in DOMAIN calls : Advance(i)
  <2>1. PICK i \in DOMAIN calls : Advance(i)
    BY <1>1
  <2> DEFINE s == Head(calls[i].todo)
             new(r) == CASE s.to = Nobody /\ view[r] # Unseen -> [view[r] EXCEPT !.stopped = s.what]
                         [] s.to = r -> [mode |-> LastMode(r), stopped |-> s.what]
                         [] OTHER -> view[r]
  <2>2. s \in Step
    <3>1. calls \in Seq(Call) /\ calls[i] \in Call
      BY DEF JobsInv, JobsTypes
    <3>2. calls[i].todo \in Seq(Step)
      BY <3>1 DEF Call
    <3>3. calls[i].todo # <<>>
      BY <2>1 DEF Advance
    <3> QED
      BY <3>2, <3>3
  <2>4. \/ view' = view
        \/ s.do = "stopped" /\ view' = [r \in Ids |-> new(r)]
    BY <2>1 DEF Advance
  <2> HIDE DEF s
  <2>3. s.do = "stopped" => s.what \in BOOLEAN
    BY <2>2 DEF Step
  <2>5. CASE s.do = "stopped" /\ view' = [r \in Ids |-> new(r)]
    <3>1. PICK w \in BOOLEAN : w = s.what
      BY <2>3, <2>5
    <3>2. ASSUME NEW r \in Ids PROVE new(r) \in {Unseen} \cup Views
      <4>1. CASE s.to = Nobody /\ view[r] # Unseen
        <5>1. view[r] \in Views
          BY <4>1 DEF ViewTyped
        <5>2. [view[r] EXCEPT !.stopped = w] \in Views
          BY <5>1 DEF Views
        <5>3. new(r) = [view[r] EXCEPT !.stopped = w]
          BY <3>1, <4>1, RadiosAreNamed
        <5> QED
          BY <5>2, <5>3
      <4>2. CASE s.to = r
        <5>1. [mode |-> LastMode(r), stopped |-> w] \in Views
          BY <1>m DEF Views
        <5>2. new(r) = [mode |-> LastMode(r), stopped |-> w]
          BY <3>1, <4>2, RadiosAreNamed
        <5> QED
          BY <5>1, <5>2
      <4>3. CASE s.to # r /\ ~(s.to = Nobody /\ view[r] # Unseen)
        BY <4>3 DEF ViewTyped
      <4> QED
        BY <4>1, <4>2, <4>3
    <3> HIDE DEF new
    <3> QED
      BY <2>5, <3>2 DEF ViewTyped
  <2> QED
    BY <2>4, <2>5 DEF ViewTyped
<1>2. CASE \E r \in Ids : Report(r)
  <2>1. PICK r \in Ids : Report(r)
    BY <1>2
  <2>2. PICK m \in Modes : m = radio[r].mode
    BY DEF JobsInv, JobsTypes, Settings
  <2>3. \A v \in {Unseen} \cup Views : [v EXCEPT !.mode = m] \in Views
    <3> TAKE v \in {Unseen} \cup Views
    <3> DEFINE w == v.mode
               b == v.stopped
    <3>1. v = [mode |-> w, stopped |-> b] /\ b \in BOOLEAN
      <4>1. CASE v = Unseen
        BY <4>1 DEF Unseen
      <4>2. CASE v \in Views
        BY <4>2 DEF Views
      <4> QED
        BY <4>1, <4>2
    <3> HIDE DEF w, b
    <3>2. [[mode |-> w, stopped |-> b] EXCEPT !.mode = m] = [mode |-> m, stopped |-> b]
      OBVIOUS
    <3>3. [mode |-> m, stopped |-> b] \in Views
      BY <3>1 DEF Views
    <3> QED
      BY <3>1, <3>2, <3>3
  <2>4. view' = [view EXCEPT ![r].mode = m]
    BY <2>1, <2>2 DEF Report
  <2> QED
    BY <2>3, <2>4 DEF ViewTyped
<1>3. CASE \E r \in Ids : Heard(r) \/ Forget(r)
  <2>1. PICK r \in Ids : Heard(r) \/ Forget(r)
    BY <1>3
  <2>2. [mode |-> LastMode(r), stopped |-> FALSE] \in Views
    BY <1>m DEF Views
  <2>3. \/ view' = [view EXCEPT ![r] = [mode |-> LastMode(r), stopped |-> FALSE]]
        \/ view' = [view EXCEPT ![r] = Unseen]
    BY <2>1 DEF Heard, Forget
  <2> QED
    BY <2>2, <2>3 DEF ViewTyped
<1>4. CASE UNCHANGED view
  BY <1>4 DEF ViewTyped
<1>5. \/ \E i \in DOMAIN calls : Advance(i)
      \/ \E r \in Ids : Report(r)
      \/ \E r \in Ids : Heard(r) \/ Forget(r)
      \/ UNCHANGED view
  BY DEF JobsNext, jobVars, Survey, MonitorSpare, MonitorSnapshot, StartCapture, StopAll, ResetRadio,
         SetChannelAll, RadioChannel, ChangeMode, HopOn, SdrStart, SdrStop, On, Job, Request, Begin
<1> QED
  BY <1>1, <1>2, <1>3, <1>4, <1>5

\* Whoever is chosen for a job is a radio or nobody, and settings stay settings.
THEOREM JobsTyped == JobsSpec => []JobsTypeOK
<1>1. JobsInit => JobsInv /\ ViewTyped
  <2>1. JobsInit => ViewTyped
    BY DEF JobsInit, ViewTyped
  <2> QED
    BY <2>1, JobsInvInit
<1>2. (JobsInv /\ ViewTyped) /\ [JobsNext]_jobVars => (JobsInv /\ ViewTyped)'
  BY JobsInvStep, ViewKept
<1>3. JobsInv /\ ViewTyped => JobsTypeOK
  <2> SUFFICES ASSUME JobsInv, ViewTyped PROVE JobsTypeOK
    OBVIOUS
  <2>1. \A r \in Ids : view[r] = Unseen \/ view[r].mode \in Modes \cup {"unknown"}
    BY DEF ViewTyped, Views
  <2>2. \A fn \in DOMAIN Dedicated : Allocate(fn) \in Ids \cup {Nobody}
    BY AllocateIsRadio
  <2> QED
    BY <2>1, <2>2 DEF JobsTypeOK, JobsInv, JobsTypes
<1> QED
  BY <1>1, <1>2, <1>3, PTL DEF JobsSpec

-------------------------------------------------------------------------------
(* A trace shows one sweep (TraceIsSweep of SdrStore), for any plans, bridged  *)
(* gaps and length of the history, whatever is lost and whenever it is cleared.*)

SdrSpec == SdrInit /\ [][SdrNext]_sdrVars

Seg   == [sweep : Nat, idx : Nat, lo : Nat, failed : BOOLEAN]
Sweep == [sweep : Nat, segs : SUBSET Seg, count : Nat]

\* The radio has made segment i of sweep s.
Made(r, s, i) ==
  i \in DOMAIN Plan[r] /\ (s < board[r].sweep \/ (s = board[r].sweep /\ i < board[r].idx))
\* What is collected as sweep p of radio r are segments of it, each once, none
\* counted as lost.
Sound(r, p) ==
  /\ IsFiniteSet(p.segs) /\ p.count = Len(Plan[r])
  /\ \A g \in p.segs : /\ g.sweep = p.sweep /\ g.lo = Plan[r][g.idx]
                       /\ Made(r, p.sweep, g.idx) /\ <<r, p.sweep, g.idx>> \notin lost
  /\ \A g, h \in p.segs : g.idx = h.idx => g = h
\* Segment i of sweep s is collected in p or lost.
Accounted(r, p, s, i) ==
  <<r, s, i>> \in lost \/ (p.sweep = s /\ \E g \in p.segs : g.idx = i)


\* Traces of radio r, in the order of sweeps before top that are over.
Over(r) == {p \in Sweep : Sound(r, p) /\ \A i \in DOMAIN Plan[r] : Accounted(r, p, p.sweep, i)}
Ordered(G, h, top) == \A k \in DOMAIN h :
  /\ \E p \in G : h[k] = Stitch(p) /\ p.sweep < top
  /\ k > 1 => h[k - 1].sweep < h[k].sweep

SdrTypes ==
  /\ board \in [Radios -> [sweep : Nat, idx : Nat]]
  /\ pend \in [Radios -> {NoSweep} \cup Sweep]
  /\ hist \in [Radios -> Seq({Stitch(p) : p \in Sweep})]
  /\ lost \subseteq Radios \X Nat \X Nat
  /\ \A r \in Radios : board[r].idx \in DOMAIN Plan[r]

LostIsMade(r) == \A s, i \in Nat : <<r, s, i>> \in lost => Made(r, s, i)
Collecting(r) ==
  /\ pend[r] # NoSweep => Sound(r, pend[r]) /\ pend[r].sweep <= board[r].sweep
  /\ \A i \in DOMAIN Plan[r] :
       /\ i < board[r].idx => Accounted(r, pend[r], board[r].sweep, i)
       /\ pend[r] # NoSweep /\ Made(r, pend[r].sweep, i) => Accounted(r, pend[r], pend[r].sweep, i)
LastSweep(r) == IF pend[r] = NoSweep THEN board[r].sweep ELSE pend[r].sweep
RadioInv(r) == LostIsMade(r) /\ Collecting(r) /\ Ordered(Over(r), hist[r], LastSweep(r))

\* Inductive: what a radio made, lost and had collected accounts for every segment.
SdrInv == SdrTypes /\ \A r \in Radios : RadioInv(r)

\* Every radio has a plan of at least one segment.
LEMMA PlanIs ==
  ASSUME NEW r \in Radios
  PROVE  /\ Plan[r] \in Seq(Nat) /\ Len(Plan[r]) \in Nat \ {0} /\ DOMAIN Plan[r] = 1..Len(Plan[r])
         /\ \A i \in DOMAIN Plan[r] : Plan[r][i] \in Nat /\ i \in Nat \ {0}
<1>1. Plan[r] \in Seq(Nat) /\ Plan[r] # <<>>
  BY SdrAssumption DEF SdrAssumption
<1> QED
  BY <1>1

LEMMA CapIs == HistoryLen \in Nat \ {0}
BY SdrAssumption DEF SdrAssumption

LEMMA NotASweep == NoSweep \notin Sweep /\ NoSweep.segs = {} /\ NoSweep.sweep = -1
BY DEF NoSweep, Sweep

\* As many segments as places.
LEMMA SegsCounted ==
  ASSUME NEW p \in Sweep, IsFiniteSet(p.segs), \A g, h \in p.segs : g.idx = h.idx => g = h
  PROVE  LET I == {g.idx : g \in p.segs}
         IN /\ Cardinality(p.segs) \in Nat /\ Cardinality(p.segs) = Cardinality(I)
            /\ IsFiniteSet(I)
            /\ \A n \in Nat : I \subseteq 1..n => Cardinality(p.segs) <= n
<1> DEFINE I == {g.idx : g \in p.segs}
           f == [g \in p.segs |-> g.idx]
<1>1. IsFiniteSet(p.segs) /\ \A g, h \in p.segs : g.idx = h.idx => g = h
  OBVIOUS
<1>2. f \in Bijection(p.segs, I)
  <2>1. f \in Injection(p.segs, I)
    BY <1>1 DEF Injection, IsInjective
  <2>2. f \in Surjection(p.segs, I)
    BY DEF Surjection
  <2> QED
    BY <2>1, <2>2 DEF Bijection
<1>3. IsFiniteSet(I) /\ Cardinality(I) = Cardinality(p.segs)
  <2>1. ExistsBijection(p.segs, I)
    BY <1>2 DEF ExistsBijection
  <2> HIDE DEF I
  <2> QED
    BY <1>1, <2>1, FS_Bijection
<1>4. ASSUME NEW n \in Nat, I \subseteq 1..n PROVE Cardinality(I) <= n
  <2>1. IsFiniteSet(1..n) /\ Cardinality(1..n) = n
    BY FS_Interval
  <2>2. I \in SUBSET (1..n)
    BY <1>4
  <2> HIDE DEF I
  <2>3. Cardinality(I) <= Cardinality(1..n)
    BY <2>1, <2>2, FS_Subset, Zenon
  <2> QED
    BY <2>1, <2>3
<1>5. Cardinality(p.segs) \in Nat
  BY <1>1, FS_CardinalityType
<1> QED
  BY <1>3, <1>4, <1>5

\* What the radio made before it still has made after its next segment.
LEMMA MadeNext ==
  ASSUME SdrTypes, NEW r \in Radios, board'[r] = NextSegment(r)
  PROVE  /\ board'[r].idx \in DOMAIN Plan[r] /\ board'[r] \in [sweep : Nat, idx : Nat]
         /\ board[r].sweep <= board'[r].sweep
         /\ ~Made(r, board[r].sweep, board[r].idx)
         /\ \A s, i \in Nat : Made(r, s, i)' <=>
              Made(r, s, i) \/ (s = board[r].sweep /\ i = board[r].idx)
         /\ \/ board'[r].sweep = board[r].sweep /\ board'[r].idx = board[r].idx + 1
            \/ /\ board'[r].sweep = board[r].sweep + 1 /\ board'[r].idx = 1
               /\ board[r].idx = Len(Plan[r])
<1>1. board[r] \in [sweep : Nat, idx : Nat] /\ board[r].idx \in DOMAIN Plan[r]
  BY DEF SdrTypes
<1>2. CASE board[r].idx < Len(Plan[r])
  <2>1. board'[r] = [board[r] EXCEPT !.idx = @ + 1]
    BY <1>2 DEF NextSegment
  <2>2. /\ board'[r].sweep = board[r].sweep /\ board'[r].idx = board[r].idx + 1
        /\ board'[r] \in [sweep : Nat, idx : Nat]
    BY <1>1, <2>1
  <2>3. board[r].idx \in Nat /\ board[r].sweep \in Nat /\ board[r].idx + 1 \in DOMAIN Plan[r]
    BY <1>1, <1>2, PlanIs
  <2>4. /\ ~Made(r, board[r].sweep, board[r].idx)
        /\ \A s, i \in Nat : Made(r, s, i)' <=>
              Made(r, s, i) \/ (s = board[r].sweep /\ i = board[r].idx)
    BY <1>1, <2>2, <2>3 DEF Made
  <2>5. board'[r].idx \in DOMAIN Plan[r] /\ board[r].sweep <= board'[r].sweep
    BY <2>2, <2>3
  <2> QED
    BY <2>2, <2>4, <2>5, Zenon
<1>3. CASE ~(board[r].idx < Len(Plan[r]))
  <2>1. board'[r] = [sweep |-> board[r].sweep + 1, idx |-> 1]
    BY <1>3 DEF NextSegment
  <2>2. /\ board'[r].sweep = board[r].sweep + 1 /\ board'[r].idx = 1
        /\ board'[r] \in [sweep : Nat, idx : Nat]
    BY <1>1, <2>1
  <2>3. board[r].idx = Len(Plan[r])
    BY <1>1, <1>3, PlanIs
  <2>4. /\ board[r].idx \in Nat /\ board[r].sweep \in Nat /\ 1 \in DOMAIN Plan[r]
        /\ \A i \in DOMAIN Plan[r] : i \in Nat /\ i >= 1 /\ i <= board[r].idx
    BY <1>1, <2>3, PlanIs
  <2>5. /\ ~Made(r, board[r].sweep, board[r].idx)
        /\ \A s, i \in Nat : Made(r, s, i)' <=>
              Made(r, s, i) \/ (s = board[r].sweep /\ i = board[r].idx)
    BY <1>1, <2>2, <2>4 DEF Made
  <2>6. board'[r].idx \in DOMAIN Plan[r] /\ board[r].sweep <= board'[r].sweep
    BY <2>2, <2>4
  <2> QED
    BY <2>2, <2>3, <2>5, <2>6, Zenon
<1> QED
  BY <1>2, <1>3

\* A sweep stays sound, and its traces stay in order, while the radio goes on.
LEMMA SoundLater ==
  ASSUME NEW r, NEW p, Sound(r, p), \A g \in p.segs : p.sweep \in Nat /\ g.idx \in Nat,
         \A s, i \in Nat : Made(r, s, i) => Made(r, s, i)',
         \A s, i \in Nat : Made(r, s, i) /\ <<r, s, i>> \notin lost => <<r, s, i>> \notin lost'
  PROVE  Sound(r, p)'
BY DEF Sound

\* A sweep that is over stays so.
LEMMA OverLater ==
  ASSUME NEW r \in Radios,
         \A s, i \in Nat : <<r, s, i>> \in lost => <<r, s, i>> \in lost',
         \A s, i \in Nat : Made(r, s, i) => Made(r, s, i)',
         \A s, i \in Nat : Made(r, s, i) /\ <<r, s, i>> \notin lost => <<r, s, i>> \notin lost'
  PROVE  Over(r) \subseteq Over(r)'
<1>1. SUFFICES ASSUME NEW p \in Sweep, Sound(r, p), \A i \in DOMAIN Plan[r] : Accounted(r, p, p.sweep, i)
               PROVE  Sound(r, p)' /\ \A i \in DOMAIN Plan[r] : Accounted(r, p, p.sweep, i)'
  BY DEF Over
<1>2. p.sweep \in Nat /\ \A g \in p.segs : g.idx \in Nat
  BY DEF Sweep, Seg
<1>3. Sound(r, p)'
  BY <1>1, <1>2, SoundLater
<1>4. \A i \in DOMAIN Plan[r] : Accounted(r, p, p.sweep, i)'
  BY <1>1, <1>2, PlanIs DEF Accounted
<1> QED
  BY <1>3, <1>4

\* A history stays in order when more sweeps are over.
LEMMA OrderedLater ==
  ASSUME NEW G \in SUBSET Sweep, NEW H, G \subseteq H, NEW h,
         NEW n \in Nat, NEW m \in Nat, n <= m, Ordered(G, h, n)
  PROVE  Ordered(H, h, m)
<1>1. \A p \in G : p.sweep \in Nat
  BY DEF Sweep
<1>2. \A p \in G : p.sweep < n => p \in H /\ p.sweep < m
  BY <1>1
<1> QED
  BY <1>2 DEF Ordered

\* A trace of a later sweep goes to the end, the oldest ones go.
LEMMA KeepOrdered ==
  ASSUME NEW G \in SUBSET Sweep, NEW h \in Seq({Stitch(p) : p \in Sweep}), NEW n \in Nat,
         Ordered(G, h, n), NEW m \in Nat, NEW p \in G, n <= p.sweep, p.sweep < m
  PROVE  /\ Keep(h, Stitch(p)) \in Seq({Stitch(q) : q \in Sweep})
         /\ Ordered(G, Keep(h, Stitch(p)), m)
<1> DEFINE T == {Stitch(q) : q \in Sweep}
           t == Stitch(p)
           a == Append(h, t)
           b == Keep(h, t)
<1>1. t \in T /\ p.sweep \in Nat
  BY DEF Sweep
<1>2. t.sweep = p.sweep
  BY DEF Stitch
<1>3. /\ a \in Seq(T) /\ Len(a) = Len(h) + 1 /\ Len(h) \in Nat /\ DOMAIN a = 1..(Len(h) + 1)
      /\ DOMAIN h = 1..Len(h)
      /\ a[Len(h) + 1] = t /\ \A k \in 1..Len(h) : a[k] = h[k]
  <2> HIDE DEF t, T
  <2> QED
    BY <1>1 DEF T
<1> HIDE DEF t, T
<1>4. ASSUME NEW k \in DOMAIN a
      PROVE  /\ \E q \in G : a[k] = Stitch(q) /\ q.sweep < m
             /\ k > 1 => a[k - 1].sweep < a[k].sweep
  <2>1. CASE k = Len(h) + 1
    <3>1. ASSUME k > 1 PROVE a[k - 1].sweep < t.sweep
      <4>1. k - 1 \in DOMAIN h /\ a[k - 1] = h[k - 1]
        <5> HIDE DEF a
        <5> QED
          BY <1>3, <2>1, <3>1
      <4>2. PICK q \in G : h[k - 1] = Stitch(q) /\ q.sweep < n
        BY <4>1 DEF Ordered
      <4>3. h[k - 1].sweep = q.sweep /\ q.sweep \in Nat
        BY <4>2 DEF Stitch, Sweep
      <4> QED
        BY <1>1, <1>2, <4>1, <4>2, <4>3
    <3>2. a[k] = Stitch(p)
      BY <1>3, <2>1 DEF t
    <3> QED
      BY <1>3, <2>1, <3>1, <3>2
  <2>2. CASE k \in DOMAIN h
    <3>1. PICK q \in G : h[k] = Stitch(q) /\ q.sweep < n
      BY <2>2 DEF Ordered
    <3>2. q.sweep < m
      <4>1. q.sweep \in Nat
        BY DEF Sweep
      <4> QED
        BY <1>1, <3>1, <4>1
    <3>3. k > 1 => a[k - 1].sweep < a[k].sweep
      BY <1>3, <2>2 DEF Ordered
    <3> QED
      BY <1>3, <2>2, <3>1, <3>2, <3>3
  <2> QED
    BY <1>3, <2>1, <2>2
<1>5. CASE ~(Len(a) > HistoryLen)
  <2>1. b = a
    BY <1>5 DEF Keep
  <2> QED
    BY <1>3, <1>4, <2>1 DEF Ordered, T, t
<1>6. CASE Len(a) > HistoryLen
  <2> DEFINE d == Len(a) - HistoryLen
  <2>1. b = SubSeq(a, d + 1, Len(a))
    BY <1>6 DEF Keep
  <2>2. d \in Nat /\ d + 1 \in 1..Len(a) /\ Len(a) \in Nat
    BY <1>3, <1>6, CapIs
  <2>3. /\ b \in Seq(T) /\ DOMAIN b = 1..(Len(a) - d)
        /\ \A k \in 1..(Len(a) - d) : b[k] = a[k + d] /\ k + d \in DOMAIN a
    <3> HIDE DEF a, b, d
    <3>1. a \in Seq(T)
      BY <1>3 DEF a
    <3>2. DOMAIN a = 1..Len(a)
      BY <3>1
    <3> QED
      BY <2>1, <2>2, <3>1, <3>2
  <2> HIDE DEF b
  <2>4. ASSUME NEW k \in DOMAIN b
        PROVE  /\ \E q \in G : b[k] = Stitch(q) /\ q.sweep < m
               /\ k > 1 => b[k - 1].sweep < b[k].sweep
    <3> HIDE DEF a, d
    <3>1. b[k] = a[k + d] /\ k + d \in DOMAIN a /\ k \in Nat
      <4>1. k \in 1..(Len(a) - d) /\ k \in Nat
        BY <2>2, <2>3
      <4> QED
        BY <2>3, <4>1
    <3>2. ASSUME k > 1 PROVE b[k - 1].sweep < b[k].sweep
      <4>1. b[k - 1] = a[(k + d) - 1] /\ k + d > 1
        BY <2>2, <2>3, <3>1, <3>2
      <4> QED
        BY <1>4, <3>1, <4>1
    <3>3. \E q \in G : a[k + d] = Stitch(q) /\ q.sweep < m
      BY <1>4, <3>1
    <3> QED
      BY <3>1, <3>2, <3>3
  <2>5. Ordered(G, b, m)
    BY <2>4 DEF Ordered
  <2> QED
    BY <2>3, <2>5 DEF b, T, t
<1> QED
  BY <1>5, <1>6
-------------------------------------------------------------------------------
LEMMA SdrInvInit == SdrInit => SdrInv
<1> SUFFICES ASSUME SdrInit PROVE SdrInv
  OBVIOUS
<1>1. /\ board = [r \in Radios |-> [sweep |-> 0, idx |-> 1]]
      /\ pend = [r \in Radios |-> NoSweep] /\ hist = [r \in Radios |-> <<>>] /\ lost = {}
  BY DEF SdrInit
<1>2. SdrTypes
  BY <1>1, PlanIs DEF SdrTypes
<1>3. ASSUME NEW r \in Radios PROVE RadioInv(r)
  <2>1. LostIsMade(r) /\ Ordered(Over(r), hist[r], LastSweep(r))
    BY <1>1 DEF LostIsMade, Ordered
  <2>2. board[r].idx = 1 /\ pend[r] = NoSweep
    BY <1>1
  <2>3. Collecting(r)
    BY <2>2, PlanIs DEF Collecting
  <2> QED
    BY <2>1, <2>3 DEF RadioInv
<1> QED
  BY <1>2, <1>3 DEF SdrInv

LEMMA LastSweepIs == SdrTypes => \A r \in Radios : /\ LastSweep(r) \in Nat /\ pend[r] \in {NoSweep} \cup Sweep
                                             /\ board[r].sweep \in Nat /\ board[r].idx \in Nat
<1> SUFFICES ASSUME SdrTypes, NEW r \in Radios
             PROVE  /\ LastSweep(r) \in Nat /\ pend[r] \in {NoSweep} \cup Sweep
                    /\ board[r].sweep \in Nat /\ board[r].idx \in Nat
  OBVIOUS
<1>1. pend[r] \in {NoSweep} \cup Sweep /\ board[r].sweep \in Nat /\ board[r].idx \in Nat
  BY DEF SdrTypes
<1>2. pend[r] # NoSweep => pend[r].sweep \in Nat
  BY <1>1 DEF Sweep
<1> QED
  BY <1>1, <1>2 DEF LastSweep

\* What concerns one radio is not touched by the others.
LEMMA RadioFrame ==
  ASSUME NEW x \in Radios, SdrTypes, RadioInv(x),
         board'[x] = board[x], pend'[x] = pend[x], hist'[x] = hist[x],
         \A s, i \in Nat : <<x, s, i>> \in lost' <=> <<x, s, i>> \in lost
  PROVE  RadioInv(x)'
<1>1. \A s, i \in Nat : Made(x, s, i)' <=> Made(x, s, i)
  BY DEF Made
<1>2. PICK p : p = pend[x] /\ p = pend'[x]
  OBVIOUS
<1>w. PICK w \in Nat : w = board[x].sweep /\ w = board'[x].sweep
  BY LastSweepIs
<1>3. PICK h : h = hist[x] /\ h = hist'[x]
  OBVIOUS
<1>4. PICK n \in Nat : n = LastSweep(x) /\ n = LastSweep(x)'
  BY LastSweepIs DEF LastSweep
<1>5. LostIsMade(x)'
  BY <1>1 DEF LostIsMade, RadioInv
<1>6. p # NoSweep => p \in Sweep
  BY <1>2, LastSweepIs
<1>7. ASSUME p # NoSweep PROVE Sound(x, p)' /\ p.sweep <= board'[x].sweep /\ p.sweep \in Nat
  <2>1. Sound(x, p) /\ p.sweep <= board[x].sweep
    BY <1>2, <1>7 DEF RadioInv, Collecting
  <2>2. p.sweep \in Nat /\ \A g \in p.segs : g.idx \in Nat
    BY <1>6, <1>7 DEF Sweep, Seg
  <2> QED
    BY <1>1, <2>1, <2>2, SoundLater
<1>8. ASSUME NEW i \in DOMAIN Plan[x]
      PROVE  /\ i < board'[x].idx => Accounted(x, p, w, i)'
             /\ p # NoSweep /\ Made(x, p.sweep, i)' => Accounted(x, p, p.sweep, i)'
  <2>1. i \in Nat /\ board[x].sweep \in Nat
    BY PlanIs, LastSweepIs
  <2>2. /\ i < board[x].idx => Accounted(x, p, board[x].sweep, i)
        /\ p # NoSweep /\ Made(x, p.sweep, i) => Accounted(x, p, p.sweep, i)
    BY <1>2 DEF RadioInv, Collecting
  <2>3. i < board'[x].idx => Accounted(x, p, w, i)'
    BY <1>w, <2>1, <2>2 DEF Accounted
  <2>4. ASSUME p # NoSweep, Made(x, p.sweep, i)' PROVE Accounted(x, p, p.sweep, i)'
    BY <1>1, <1>7, <2>1, <2>2, <2>4 DEF Accounted
  <2> QED
    BY <2>3, <2>4
<1>9. Collecting(x)'
  BY <1>2, <1>w, <1>7, <1>8 DEF Collecting, Sound, Accounted
<1>10. Ordered(Over(x), hist[x], LastSweep(x))'
  <2>1. Ordered(Over(x), h, n)
    BY <1>3, <1>4 DEF RadioInv
  <2>2. Ordered(Over(x)', h, n)
    <3>1. Over(x) \subseteq Over(x)' /\ Over(x) \subseteq Sweep
      BY <1>1, OverLater DEF Over
    <3> QED
      BY <2>1, <3>1, OrderedLater
  <2> QED
    BY <1>3, <1>4, <2>2 DEF Ordered
<1> QED
  BY <1>5, <1>9, <1>10 DEF RadioInv

\* A segment lost on the way was made.
LEMMA LoseKeeps ==
  ASSUME SdrInv, NEW r \in Radios, Lose(r)
  PROVE  SdrInv'
<1>t. SdrTypes /\ \A x \in Radios : RadioInv(x)
  BY DEF SdrInv
<1>1. /\ lost' = lost \cup {<<r, board[r].sweep, board[r].idx>>}
      /\ board' = [board EXCEPT ![r] = NextSegment(r)] /\ UNCHANGED <<pend, hist>>
  BY DEF Lose
<1>2. board'[r] = NextSegment(r) /\ \A x \in Radios : x # r => board'[x] = board[x]
  BY <1>1, <1>t DEF SdrTypes
<1>3. /\ board'[r].idx \in DOMAIN Plan[r] /\ board'[r] \in [sweep : Nat, idx : Nat]
      /\ board[r].sweep <= board'[r].sweep
      /\ ~Made(r, board[r].sweep, board[r].idx)
      /\ \A s, i \in Nat : Made(r, s, i)' <=>
           Made(r, s, i) \/ (s = board[r].sweep /\ i = board[r].idx)
      /\ \/ board'[r].sweep = board[r].sweep /\ board'[r].idx = board[r].idx + 1
         \/ /\ board'[r].sweep = board[r].sweep + 1 /\ board'[r].idx = 1
            /\ board[r].idx = Len(Plan[r])
  BY <1>t, <1>2, MadeNext
<1>n. board[r].sweep \in Nat /\ board[r].idx \in Nat /\ board'[r].sweep \in Nat
  BY <1>t, <1>3, LastSweepIs
<1>4. SdrTypes'
  <2>1. board' \in [Radios -> [sweep : Nat, idx : Nat]]
    BY <1>1, <1>2, <1>3, <1>t DEF SdrTypes
  <2>2. lost' \subseteq Radios \X Nat \X Nat
    BY <1>1, <1>t, <1>n DEF SdrTypes
  <2>3. \A x \in Radios : board'[x].idx \in DOMAIN Plan[x]
    BY <1>2, <1>3, <1>t DEF SdrTypes
  <2> QED
    BY <1>1, <1>t, <2>1, <2>2, <2>3 DEF SdrTypes
<1>5. \A s, i \in Nat : <<r, s, i>> \in lost' <=>
        <<r, s, i>> \in lost \/ (s = board[r].sweep /\ i = board[r].idx)
  BY <1>1
<1>6. ASSUME NEW x \in Radios PROVE RadioInv(x)'
  <2>1. CASE x # r
    <3>1. \A s, i \in Nat : <<x, s, i>> \in lost' <=> <<x, s, i>> \in lost
      BY <1>1, <2>1
    <3> QED
      BY <1>1, <1>2, <1>t, <2>1, <3>1, RadioFrame
  <2>2. CASE x = r
    <3>1. PICK p : p = pend[r] /\ p = pend'[r]
      BY <1>1
    <3>w. PICK w \in Nat : w = board'[r].sweep
      BY <1>n
    <3>2. p # NoSweep => p \in Sweep
      BY <1>t, <3>1, LastSweepIs
    <3>3. RadioInv(r)
      BY <1>t
    <3>4. LostIsMade(r)'
      BY <1>3, <1>5, <3>3 DEF LostIsMade, RadioInv
    <3>5. /\ \A s, i \in Nat : Made(r, s, i) => Made(r, s, i)'
          /\ \A s, i \in Nat : Made(r, s, i) /\ <<r, s, i>> \notin lost => <<r, s, i>> \notin lost'
          /\ \A s, i \in Nat : <<r, s, i>> \in lost => <<r, s, i>> \in lost'
      BY <1>3, <1>5
    <3>6. ASSUME p # NoSweep PROVE Sound(r, p)' /\ p.sweep <= board'[r].sweep /\ p.sweep \in Nat
      <4>1. Sound(r, p) /\ p.sweep <= board[r].sweep
        BY <3>1, <3>3, <3>6 DEF RadioInv, Collecting
      <4>2. p.sweep \in Nat /\ \A g \in p.segs : g.idx \in Nat
        BY <3>2, <3>6 DEF Sweep, Seg
      <4>3. Sound(r, p)'
        BY <3>5, <4>1, <4>2, SoundLater
      <4> QED
        BY <1>3, <1>n, <4>1, <4>2, <4>3
    <3>7. ASSUME NEW i \in DOMAIN Plan[r]
          PROVE  /\ i < board'[r].idx => Accounted(r, p, w, i)'
                 /\ p # NoSweep /\ Made(r, p.sweep, i)' => Accounted(r, p, p.sweep, i)'
      <4>1. i \in Nat /\ i >= 1
        BY PlanIs
      <4>2. /\ i < board[r].idx => Accounted(r, p, board[r].sweep, i)
            /\ p # NoSweep /\ Made(r, p.sweep, i) => Accounted(r, p, p.sweep, i)
        BY <3>1, <3>3 DEF RadioInv, Collecting
      <4>3. ASSUME i < board'[r].idx PROVE Accounted(r, p, w, i)'
        <5>1. board'[r].sweep = board[r].sweep /\ (i < board[r].idx \/ i = board[r].idx)
          BY <1>3, <1>n, <4>1, <4>3
        <5> QED
          BY <1>5, <1>n, <3>w, <4>1, <4>2, <5>1 DEF Accounted
      <4>4. ASSUME p # NoSweep, Made(r, p.sweep, i)' PROVE Accounted(r, p, p.sweep, i)'
        <5>1. Made(r, p.sweep, i) \/ (p.sweep = board[r].sweep /\ i = board[r].idx)
          BY <1>3, <3>6, <4>1, <4>4
        <5> QED
          BY <1>5, <3>6, <4>1, <4>2, <4>4, <5>1 DEF Accounted
      <4> QED
        BY <4>3, <4>4
    <3>8. Collecting(r)'
      BY <3>1, <3>w, <3>6, <3>7 DEF Collecting, Sound, Accounted
    <3>9. Ordered(Over(r), hist[r], LastSweep(r))'
      <4>1. PICK h : h = hist[r] /\ h = hist'[r]
        BY <1>1
      <4>2. PICK n \in Nat : n = LastSweep(r)
        BY <1>t, LastSweepIs
      <4>3. PICK m \in Nat : m = LastSweep(r)' /\ n <= m
        <5>0. /\ n = IF p = NoSweep THEN board[r].sweep ELSE p.sweep
              /\ LastSweep(r)' = IF p = NoSweep THEN w ELSE p.sweep
          BY <3>1, <3>w, <4>2 DEF LastSweep
        <5>1. CASE p = NoSweep
          BY <1>3, <3>w, <5>0, <5>1
        <5>2. CASE p # NoSweep
          <6>1. LastSweep(r)' = p.sweep /\ n = p.sweep /\ p.sweep \in Nat
            BY <3>6, <5>0, <5>2
          <6> QED
            BY <6>1
        <5> QED
          BY <5>1, <5>2
      <4>4. Ordered(Over(r), h, n)
        BY <3>3, <4>1, <4>2 DEF RadioInv
      <4>5. Ordered(Over(r)', h, m)
        <5>1. Over(r) \subseteq Over(r)' /\ Over(r) \subseteq Sweep
          BY <3>5, OverLater DEF Over
        <5> QED
          BY <4>3, <4>4, <5>1, OrderedLater
      <4> QED
        BY <4>1, <4>3, <4>5 DEF Ordered
    <3> QED
      BY <2>2, <3>4, <3>8, <3>9 DEF RadioInv
  <2> QED
    BY <2>1, <2>2
<1> QED
  BY <1>4, <1>6 DEF SdrInv

\* Clearing forgets the sweeps; the rest of one under way counts as lost.
LEMMA ClearKeeps ==
  ASSUME SdrInv, Clear
  PROVE  SdrInv'
<1>t. SdrTypes /\ \A x \in Radios : RadioInv(x)
  BY DEF SdrInv
<1>1. /\ lost' = lost \cup UNION {{<<r, pend[r].sweep, g.idx>> : g \in pend[r].segs} : r \in Radios}
      /\ pend' = [r \in Radios |-> NoSweep] /\ hist' = [r \in Radios |-> <<>>] /\ board' = board
  BY DEF Clear
<1>2. ASSUME NEW r \in Radios, NEW g \in pend[r].segs
      PROVE  pend[r] # NoSweep /\ pend[r].sweep \in Nat /\ g.idx \in Nat /\ Made(r, pend[r].sweep, g.idx)
  <2>1. pend[r] # NoSweep /\ pend[r] \in Sweep
    BY <1>t, <1>2, NotASweep, LastSweepIs
  <2>2. Sound(r, pend[r])
    BY <1>t, <2>1 DEF RadioInv, Collecting
  <2> QED
    BY <1>2, <2>1, <2>2 DEF Sound, Sweep, Seg
<1>3. SdrTypes'
  <2>1. lost' \subseteq Radios \X Nat \X Nat
    BY <1>1, <1>2, <1>t DEF SdrTypes
  <2> QED
    BY <1>1, <1>t, <2>1 DEF SdrTypes
<1>4. ASSUME NEW r \in Radios PROVE RadioInv(r)'
  <2>1. \A s, i \in Nat : <<r, s, i>> \in lost' <=>
          <<r, s, i>> \in lost \/ (s = pend[r].sweep /\ \E g \in pend[r].segs : g.idx = i)
    BY <1>1
  <2>2. \A s, i \in Nat : Made(r, s, i)' <=> Made(r, s, i)
    BY <1>1 DEF Made
  <2>3. LostIsMade(r)'
    BY <1>2, <1>t, <2>1, <2>2 DEF LostIsMade, RadioInv
  <2>4. Ordered(Over(r), hist[r], LastSweep(r))'
    BY <1>1 DEF Ordered
  <2>5. Collecting(r)'
    <3>1. ASSUME NEW i \in DOMAIN Plan[r], i < board[r].idx PROVE <<r, board[r].sweep, i>> \in lost'
      <4>1. Accounted(r, pend[r], board[r].sweep, i)
        BY <1>t, <3>1 DEF RadioInv, Collecting
      <4>2. i \in Nat /\ board[r].sweep \in Nat
        BY <1>t, PlanIs, LastSweepIs
      <4> QED
        BY <2>1, <4>1, <4>2 DEF Accounted
    <3>2. pend'[r] = NoSweep
      BY <1>1
    <3> QED
      BY <1>1, <3>1, <3>2 DEF Collecting, Accounted
  <2> QED
    BY <2>3, <2>4, <2>5 DEF RadioInv
<1> QED
  BY <1>3, <1>4 DEF SdrInv
-------------------------------------------------------------------------------
\* The radio's next segment, the sweep it is collected in and that with it.
IsNext(r, failed, seg) == seg = [sweep |-> board[r].sweep, idx |-> board[r].idx,
                                 lo |-> Plan[r][board[r].idx], failed |-> failed]
Goes(p, seg, n, q) == q = IF (p # NoSweep /\ p.sweep # seg.sweep) \/ p = NoSweep
                          THEN [sweep |-> seg.sweep, segs |-> {}, count |-> n] ELSE p
Joins(q, seg, q1) == q1 = [q EXCEPT !.segs = {g \in @ : g.idx # seg.idx} \cup {seg}]

\* A segment joins what is collected of its sweep.
LEMMA SegJoins ==
  ASSUME SdrTypes, NEW r \in Radios, RadioInv(r), board'[r] = NextSegment(r), lost' = lost,
         NEW failed \in BOOLEAN, NEW p, p = pend[r], NEW seg, IsNext(r, failed, seg),
         NEW q, Goes(p, seg, Len(Plan[r]), q), NEW q1, Joins(q, seg, q1)
  PROVE  /\ q1 \in Sweep /\ q1 # NoSweep /\ q1.sweep = board[r].sweep /\ q1.count = Len(Plan[r])
         /\ q.count = Len(Plan[r]) /\ Sound(r, q1)'
         /\ \A i \in DOMAIN Plan[r] : i <= board[r].idx => Accounted(r, q1, q1.sweep, i)'
         /\ Cardinality(q1.segs) \in Nat
         /\ Cardinality(q1.segs) >= Len(Plan[r]) => board[r].idx = Len(Plan[r])
<1> DEFINE s == board[r].sweep
           n == Len(Plan[r])
<1>1. s \in Nat /\ board[r].idx \in DOMAIN Plan[r] /\ board[r].idx \in Nat /\ n \in Nat
  BY LastSweepIs, PlanIs DEF SdrTypes
<1>2. /\ seg \in Seg /\ seg.sweep = s /\ seg.idx = board[r].idx
      /\ seg.lo = Plan[r][seg.idx]
  <2>1. Plan[r][board[r].idx] \in Nat
    BY <1>1, PlanIs
  <2> QED
    BY <1>1, <2>1 DEF IsNext, Seg
<1>3. /\ q \in Sweep /\ q.sweep = s /\ q.count = n
      /\ q.segs # {} => p # NoSweep /\ q = p
  <2>1. CASE p = NoSweep \/ p.sweep # s
    <3>1. q = [sweep |-> s, segs |-> {}, count |-> n]
      BY <1>2, <2>1 DEF Goes
    <3> HIDE DEF s, n
    <3> QED
      BY <1>1, <3>1 DEF Sweep
  <2>2. CASE ~(p = NoSweep \/ p.sweep # s)
    <3>1. q = p /\ p # NoSweep /\ p \in Sweep
      BY <1>2, <2>2, LastSweepIs DEF Goes
    <3>2. Sound(r, p)
      BY <3>1 DEF RadioInv, Collecting
    <3> QED
      BY <2>2, <3>1, <3>2 DEF Sound
  <2> QED
    BY <2>1, <2>2
<1>4. /\ IsFiniteSet(q.segs) /\ q.segs \subseteq Seg
      /\ \A g \in q.segs : /\ g.sweep = s /\ g.lo = Plan[r][g.idx] /\ g.idx \in DOMAIN Plan[r]
                           /\ g.idx < board[r].idx /\ Made(r, s, g.idx) /\ <<r, s, g.idx>> \notin lost
      /\ \A g, h \in q.segs : g.idx = h.idx => g = h
      /\ \A i \in DOMAIN Plan[r] : i < board[r].idx => Accounted(r, q, s, i)
  <2>1. q.segs \subseteq Seg
    BY <1>3 DEF Sweep
  <2>2. CASE q.segs = {}
    <3>1. ASSUME NEW i \in DOMAIN Plan[r], i < board[r].idx PROVE Accounted(r, q, s, i)
      <4>1. Accounted(r, p, s, i)
        BY <3>1 DEF RadioInv, Collecting
      <4>2. ~(p.sweep = s /\ \E g \in p.segs : g.idx = i)
        <5>1. CASE q = p
          BY <2>2, <5>1
        <5>2. CASE p = NoSweep
          BY <5>2, NotASweep
        <5>3. CASE p.sweep # s
          BY <5>3
        <5> QED
          BY <1>2, <5>1, <5>2, <5>3 DEF Goes
      <4> QED
        BY <4>1, <4>2 DEF Accounted
    <3> QED
      BY <2>1, <2>2, <3>1, FS_EmptySet
  <2>3. CASE q.segs # {}
    <3>1. q = p /\ p # NoSweep
      BY <1>3, <2>3
    <3>2. Sound(r, p) /\ \A i \in DOMAIN Plan[r] : i < board[r].idx => Accounted(r, p, s, i)
      BY <3>1 DEF RadioInv, Collecting
    <3>3. \A g \in q.segs : /\ g.sweep = s /\ g.lo = Plan[r][g.idx]
                            /\ Made(r, s, g.idx) /\ <<r, s, g.idx>> \notin lost
      BY <1>3, <3>1, <3>2 DEF Sound
    <3>4. \A g \in q.segs : g.idx \in DOMAIN Plan[r] /\ g.idx < board[r].idx
      <4>1. ASSUME NEW g \in q.segs PROVE g.idx \in DOMAIN Plan[r] /\ g.idx < board[r].idx
        <5>1. Made(r, s, g.idx)
          BY <3>3
        <5> QED
          BY <1>1, <5>1 DEF Made
      <4> QED
        BY <4>1
    <3> QED
      BY <2>1, <3>1, <3>2, <3>3, <3>4 DEF Sound
  <2> QED
    BY <2>2, <2>3
<1>5. /\ \A g \in q.segs : g.idx # seg.idx
      /\ {g \in q.segs : g.idx # seg.idx} = q.segs
  <2>1. ASSUME NEW g \in q.segs PROVE g.idx # seg.idx
    <3>1. g.idx < board[r].idx /\ g.idx \in DOMAIN Plan[r]
      BY <1>4
    <3>2. g.idx \in Nat
      BY <3>1, PlanIs
    <3> QED
      BY <1>1, <1>2, <3>1, <3>2
  <2> QED
    BY <2>1
<1>6. q1 \in Sweep /\ q1.sweep = s /\ q1.count = n /\ q1.segs = q.segs \cup {seg}
  <2>1. q1 = [q EXCEPT !.segs = q.segs \cup {seg}]
    BY <1>5 DEF Joins
  <2>2. q.segs \cup {seg} \in SUBSET Seg
    BY <1>2, <1>4
  <2> HIDE DEF s, n
  <2> QED
    BY <1>3, <2>1, <2>2 DEF Sweep
<1>m. \A t, i \in Nat : Made(r, t, i)' <=> Made(r, t, i) \/ (t = s /\ i = board[r].idx)
  BY MadeNext
<1>7. IsFiniteSet(q1.segs)
  <2>1. IsFiniteSet(q.segs \cup {seg})
    BY <1>4, FS_AddElement
  <2> QED
    BY <1>6, <2>1
<1>8. \A g, h \in q1.segs : g.idx = h.idx => g = h
  BY <1>4, <1>5, <1>6
<1>9. <<r, s, board[r].idx>> \notin lost
  BY <1>1, MadeNext DEF RadioInv, LostIsMade
<1>10. ASSUME NEW g \in q1.segs
       PROVE  /\ g.sweep = q1.sweep /\ g.lo = Plan[r][g.idx]
              /\ Made(r, q1.sweep, g.idx)' /\ <<r, q1.sweep, g.idx>> \notin lost'
  <2>1. CASE g \in q.segs
    <3>1. g.idx \in Nat
      BY <1>4, <2>1, PlanIs
    <3> QED
      BY <1>1, <1>4, <1>6, <1>m, <2>1, <3>1
  <2>2. CASE g = seg
    BY <1>1, <1>2, <1>6, <1>9, <1>m, <2>2
  <2> QED
    BY <1>6, <2>1, <2>2
<1>11. Sound(r, q1)'
  BY <1>6, <1>7, <1>8, <1>10 DEF Sound
<1>12. ASSUME NEW i \in DOMAIN Plan[r], i <= board[r].idx PROVE Accounted(r, q1, q1.sweep, i)'
  <2>1. CASE i = board[r].idx
    BY <1>2, <1>6, <2>1 DEF Accounted
  <2>2. CASE i < board[r].idx
    <3>1. Accounted(r, q, s, i)
      BY <1>4, <2>2
    <3> QED
      BY <1>6, <3>1 DEF Accounted
  <2> QED
    BY <1>1, <1>12, <2>1, <2>2, PlanIs
<1>13. Cardinality(q1.segs) \in Nat /\ Cardinality(q1.segs) <= board[r].idx
  <2>1. {g.idx : g \in q1.segs} \subseteq 1..board[r].idx
    <3>1. ASSUME NEW g \in q1.segs PROVE g.idx \in 1..board[r].idx
      <4>1. CASE g \in q.segs
        <5>1. g.idx < board[r].idx /\ g.idx \in DOMAIN Plan[r]
          BY <1>4, <4>1
        <5>2. g.idx \in Nat \ {0}
          BY <5>1, PlanIs
        <5> QED
          BY <1>1, <5>1, <5>2
      <4>2. CASE g = seg
        <5>1. board[r].idx \in Nat \ {0}
          BY <1>1, PlanIs
        <5> QED
          BY <1>2, <4>2, <5>1
      <4> QED
        BY <1>6, <4>1, <4>2
    <3> QED
      BY <3>1
  <2> QED
    BY <1>1, <1>6, <1>7, <1>8, <2>1, SegsCounted
<1>14. Cardinality(q1.segs) >= n => board[r].idx = n
  BY <1>1, <1>13, PlanIs
<1> QED
  BY <1>3, <1>6, <1>11, <1>12, <1>13, <1>14, NotASweep


\* Store.Add: a segment joins its sweep, or ends the one before it.
LEMMA AddKeeps ==
  ASSUME SdrInv, NEW r \in Radios, Add(r)
  PROVE  SdrInv'
<1>t. SdrTypes /\ \A x \in Radios : RadioInv(x)
  BY DEF SdrInv
<1> DEFINE b == board[r]
           T == {Stitch(q) : q \in Sweep}
<1>1. /\ board' = [board EXCEPT ![r] = NextSegment(r)] /\ lost' = lost
      /\ \E failed \in BOOLEAN :
           LET seg == [sweep |-> b.sweep, idx |-> b.idx, lo |-> Plan[r][b.idx], failed |-> failed]
               c == Collect(pend[r], hist[r], seg, Len(Plan[r]))
           IN pend' = [pend EXCEPT ![r] = c.pend] /\ hist' = [hist EXCEPT ![r] = c.hist]
  BY DEF Add
<1>2. PICK failed \in BOOLEAN :
           LET seg == [sweep |-> b.sweep, idx |-> b.idx, lo |-> Plan[r][b.idx], failed |-> failed]
               c == Collect(pend[r], hist[r], seg, Len(Plan[r]))
           IN pend' = [pend EXCEPT ![r] = c.pend] /\ hist' = [hist EXCEPT ![r] = c.hist]
  BY <1>1
<1>seg. PICK seg : IsNext(r, failed, seg)
  BY DEF IsNext
<1>p. PICK p : p = pend[r]
  OBVIOUS
<1>h. PICK h \in Seq(T) : h = hist[r]
  BY <1>t DEF SdrTypes
<1>n. PICK n \in Nat \ {0} : n = Len(Plan[r])
  BY PlanIs
<1>s. PICK s \in Nat : s = board[r].sweep
  BY <1>t, LastSweepIs
<1>q. PICK q : Goes(p, seg, n, q)
  BY DEF Goes
<1>q1. PICK q1 : Joins(q, seg, q1)
  BY DEF Joins
<1>h1. PICK h1 : h1 = IF p # NoSweep /\ p.sweep # seg.sweep THEN Keep(h, Stitch(p)) ELSE h
  OBVIOUS
<1>c. PICK c : c = Collect(p, h, seg, n)
  OBVIOUS
<1>3. /\ pend' = [pend EXCEPT ![r] = c.pend] /\ hist' = [hist EXCEPT ![r] = c.hist]
      /\ seg.sweep = s
  BY <1>2, <1>seg, <1>p, <1>h, <1>n, <1>s, <1>c DEF IsNext
<1>4. board'[r] = NextSegment(r) /\ \A x \in Radios : x # r => board'[x] = board[x]
  BY <1>1, <1>t DEF SdrTypes
<1>5. /\ board'[r].idx \in DOMAIN Plan[r] /\ board'[r] \in [sweep : Nat, idx : Nat]
      /\ board[r].sweep <= board'[r].sweep
      /\ \A w, i \in Nat : Made(r, w, i)' <=>
           Made(r, w, i) \/ (w = board[r].sweep /\ i = board[r].idx)
      /\ \/ board'[r].sweep = board[r].sweep /\ board'[r].idx = board[r].idx + 1
         \/ /\ board'[r].sweep = board[r].sweep + 1 /\ board'[r].idx = 1
            /\ board[r].idx = Len(Plan[r])
  BY <1>t, <1>4, MadeNext
<1>6. /\ q1 \in Sweep /\ q1 # NoSweep /\ q1.sweep = s /\ q.count = n
      /\ Sound(r, q1)'
      /\ \A i \in DOMAIN Plan[r] : i <= board[r].idx => Accounted(r, q1, q1.sweep, i)'
      /\ Cardinality(q1.segs) \in Nat
      /\ Cardinality(q1.segs) >= n => board[r].idx = n
  <2>1. RadioInv(r) /\ lost' = lost /\ Goes(p, seg, Len(Plan[r]), q)
    BY <1>1, <1>t, <1>n, <1>q
  <2>2. /\ q1 \in Sweep /\ q1 # NoSweep /\ q1.sweep = board[r].sweep /\ q1.count = Len(Plan[r])
        /\ q.count = Len(Plan[r]) /\ Sound(r, q1)'
        /\ \A i \in DOMAIN Plan[r] : i <= board[r].idx => Accounted(r, q1, q1.sweep, i)'
        /\ Cardinality(q1.segs) \in Nat
        /\ Cardinality(q1.segs) >= Len(Plan[r]) => board[r].idx = Len(Plan[r])
    BY <1>t, <1>4, <1>seg, <1>p, <1>q1, <2>1, SegJoins
  <2> QED
    BY <1>n, <1>s, <2>2
<1> DEFINE whole == Cardinality(q1.segs) >= n
<1>7. /\ c.pend = IF whole THEN NoSweep ELSE q1
      /\ c.hist = IF whole THEN Keep(h1, Stitch(q1)) ELSE h1
  <2>1. /\ Collect(p, h, seg, n).pend = IF Cardinality(q1.segs) >= n THEN NoSweep ELSE q1
        /\ Collect(p, h, seg, n).hist = IF Cardinality(q1.segs) >= n THEN Keep(h1, Stitch(q1)) ELSE h1
    <3>1. n \in Nat \ {0} /\ q.count = n
      BY <1>6
    <3> QED
      BY <3>1, <1>q, <1>q1, <1>h1 DEF Collect, Goes, Joins
  <2> QED
    BY <1>c, <2>1
<1>8. pend'[r] = c.pend /\ hist'[r] = c.hist
  BY <1>3, <1>t DEF SdrTypes
<1>9. RadioInv(r)
  BY <1>t
<1>10. h1 \in Seq(T) /\ Ordered(Over(r), h1, s)
  <2>1. PICK m \in Nat : m = LastSweep(r)
    BY <1>t, LastSweepIs
  <2>2. Ordered(Over(r), h, m)
    BY <1>9, <1>h, <2>1 DEF RadioInv
  <2>3. CASE p # NoSweep /\ p.sweep # s
    <3>1. /\ p \in Sweep /\ Sound(r, p) /\ p.sweep <= s /\ m = p.sweep
          /\ \A i \in DOMAIN Plan[r] : Made(r, p.sweep, i) => Accounted(r, p, p.sweep, i)
      BY <1>9, <1>p, <1>s, <1>t, <2>1, <2>3, LastSweepIs DEF RadioInv, Collecting, LastSweep
    <3>2. p.sweep \in Nat /\ p.sweep < s
      BY <2>3, <3>1 DEF Sweep
    <3>3. p \in Over(r)
      BY <1>s, <3>1, <3>2 DEF Over, Made
    <3>4. h1 = Keep(h, Stitch(p))
      BY <1>3, <1>h1, <2>3
    <3>5. Over(r) \in SUBSET Sweep
      BY DEF Over
    <3> HIDE DEF T
    <3> QED
      <4>1. PICK G \in SUBSET Sweep : G = Over(r)
        BY <3>5
      <4>2. p \in G /\ Ordered(G, h, m) /\ m <= p.sweep
        BY <2>2, <3>1, <3>2, <3>3, <4>1
      <4>3. h \in Seq({Stitch(x) : x \in Sweep})
        BY DEF T
      <4>4. Keep(h, Stitch(p)) \in Seq({Stitch(x) : x \in Sweep}) /\ Ordered(G, Keep(h, Stitch(p)), s)
        BY <3>2, <4>2, <4>3, KeepOrdered
      <4> QED
        BY <3>4, <4>1, <4>4 DEF T
  <2>4. CASE ~(p # NoSweep /\ p.sweep # s)
    <3>1. h1 = h
      BY <1>3, <1>h1, <2>4
    <3>2. m = s
      BY <1>p, <1>s, <2>1, <2>4 DEF LastSweep
    <3> QED
      BY <2>2, <3>1, <3>2
  <2> QED
    BY <2>3, <2>4
<1>11. Over(r) \subseteq Over(r)' /\ Over(r) \subseteq Sweep /\ Over(r)' \subseteq Sweep
  <2>1. Over(r) \subseteq Over(r)'
    BY <1>1, <1>5, OverLater
  <2> QED
    BY <2>1 DEF Over
<1>12. Ordered(Over(r)', h1, s)
  BY <1>10, <1>11, OrderedLater
<1>w. PICK w \in Nat : w = board'[r].sweep /\ s <= w
  BY <1>5, <1>s
<1>13. LostIsMade(r)'
  BY <1>1, <1>5, <1>9 DEF LostIsMade, RadioInv
<1>14. /\ pend'[r] \in {NoSweep} \cup Sweep /\ hist'[r] \in Seq(T)
       /\ RadioInv(r)'
  <2>1. CASE whole
    <3>1. pend'[r] = NoSweep /\ hist'[r] = Keep(h1, Stitch(q1)) /\ board[r].idx = n
      BY <1>6, <1>7, <1>8, <2>1
    <3>2. w = s + 1 /\ board'[r].idx = 1
      BY <1>5, <1>n, <1>s, <1>w, <3>1, PlanIs
    <3>3. q1 \in Over(r)'
      BY <1>6, <1>n, <3>1, PlanIs DEF Over
    <3>4. Keep(h1, Stitch(q1)) \in Seq(T) /\ Ordered(Over(r)', Keep(h1, Stitch(q1)), w)
      <4> HIDE DEF T
      <4>1. PICK G \in SUBSET Sweep : G = Over(r)'
        BY <1>11
      <4>2. q1 \in G /\ Ordered(G, h1, s) /\ h1 \in Seq({Stitch(x) : x \in Sweep})
        BY <1>10, <1>12, <3>3, <4>1 DEF T
      <4>3. s <= q1.sweep /\ q1.sweep < w
        BY <1>6, <3>2
      <4> QED
        BY <4>1, <4>2, <4>3, KeepOrdered DEF T
    <3>5. Ordered(Over(r), hist[r], LastSweep(r))'
      <4>1. LastSweep(r)' = w
        BY <1>w, <3>1 DEF LastSweep
      <4> QED
        BY <3>1, <3>4, <4>1
    <3>6. Collecting(r)'
      <4>1. \A i \in DOMAIN Plan[r] : ~(i < board'[r].idx)
        BY <3>2, PlanIs
      <4> QED
        BY <3>1, <4>1 DEF Collecting
    <3> QED
      BY <1>13, <3>1, <3>4, <3>5, <3>6 DEF RadioInv
  <2>2. CASE ~whole
    <3>1. pend'[r] = q1 /\ hist'[r] = h1
      BY <1>7, <1>8, <2>2
    <3>2. Ordered(Over(r), hist[r], LastSweep(r))'
      <4>1. LastSweep(r)' = s
        BY <1>6, <3>1 DEF LastSweep
      <4> QED
        BY <1>12, <3>1, <4>1
    <3>3. ASSUME NEW i \in DOMAIN Plan[r]
          PROVE  /\ i < board'[r].idx => Accounted(r, q1, w, i)'
                 /\ Made(r, q1.sweep, i)' => Accounted(r, q1, q1.sweep, i)'
      <4>1. i \in Nat /\ i >= 1 /\ board[r].idx \in Nat /\ board'[r].idx \in Nat
        BY <1>5, <1>t, PlanIs, LastSweepIs
      <4>2. ASSUME i < board'[r].idx PROVE Accounted(r, q1, w, i)'
        <5>1. w = s /\ i <= board[r].idx
          BY <1>5, <1>s, <1>w, <4>1, <4>2
        <5> QED
          BY <1>6, <5>1
      <4>3. ASSUME Made(r, q1.sweep, i)' PROVE Accounted(r, q1, q1.sweep, i)'
        <5>1. Made(r, s, i) \/ i = board[r].idx
          BY <1>5, <1>6, <1>s, <4>1, <4>3
        <5>2. i <= board[r].idx
          BY <1>s, <4>1, <5>1 DEF Made
        <5> QED
          BY <1>6, <5>2
      <4> QED
        BY <4>2, <4>3
    <3>4. Collecting(r)'
      <4>1. q1.sweep <= board'[r].sweep
        BY <1>6, <1>w
      <4> QED
        BY <1>6, <1>w, <3>1, <3>3, <4>1 DEF Collecting, Sound, Accounted
    <3> QED
      BY <1>6, <1>10, <1>13, <3>1, <3>2, <3>4 DEF RadioInv
  <2> QED
    BY <2>1, <2>2
<1>15. SdrTypes'
  <2>1. board' \in [Radios -> [sweep : Nat, idx : Nat]]
    BY <1>1, <1>4, <1>5, <1>t DEF SdrTypes
  <2>2. pend' \in [Radios -> {NoSweep} \cup Sweep]
    BY <1>3, <1>8, <1>14, <1>t DEF SdrTypes
  <2>3. hist' \in [Radios -> Seq(T)]
    <3>1. hist \in [Radios -> Seq(T)]
      BY <1>t DEF SdrTypes
    <3> HIDE DEF T
    <3> QED
      BY <1>3, <1>8, <1>14, <3>1
  <2>4. \A x \in Radios : board'[x].idx \in DOMAIN Plan[x]
    BY <1>4, <1>5, <1>t DEF SdrTypes
  <2> QED
    BY <1>1, <1>t, <2>1, <2>2, <2>3, <2>4 DEF SdrTypes
<1>16. ASSUME NEW x \in Radios PROVE RadioInv(x)'
  <2>1. CASE x # r
    <3>1. pend'[x] = pend[x] /\ hist'[x] = hist[x]
      BY <1>3, <1>t, <2>1 DEF SdrTypes
    <3> QED
      BY <1>1, <1>4, <1>t, <2>1, <3>1, RadioFrame
  <2>2. CASE x = r
    BY <1>14, <2>2
  <2> QED
    BY <2>1, <2>2
<1> QED
  BY <1>15, <1>16 DEF SdrInv

-------------------------------------------------------------------------------
\* What a trace shows.  A level is measured by one segment, and a gap between
\* two of them is bridged from both.
LEMMA LevelsAre ==
  ASSUME NEW usable \in SUBSET Seg, IsFiniteSet(usable), usable # {}
  PROVE  /\ \E a, b \in Int : DOMAIN Levels(usable) = a..b
         /\ \A f \in DOMAIN Levels(usable) :
              Levels(usable)[f] = {} \/ \E g \in usable : Levels(usable)[f] = {g.idx}
<1> DEFINE los == {g.lo : g \in usable}
           a == Min(los) - UsableHalf
           b == Max(los) + UsableHalf
           near(f) == {g \in usable : Distance(f, g.lo) <= Half}
           best(f) == CHOOSE g \in near(f) : \A h \in near(f) :
                   \/ Distance(f, g.lo) < Distance(f, h.lo)
                   \/ Distance(f, g.lo) = Distance(f, h.lo) /\ g.idx <= h.idx
<1>1. Levels(usable) = [f \in a..b |-> IF near(f) = {} THEN {}
                       ELSE IF Distance(f, best(f).lo) <= DcBins THEN {} ELSE {best(f).idx}]
  BY DEF Levels
<1>2. a \in Int /\ b \in Int
  <2>1. los \in SUBSET Int /\ los # {}
    BY DEF Seg
  <2>2. IsFiniteSet(los)
    <3> DEFINE f == [g \in usable |-> g.lo]
    <3>1. f \in Surjection(usable, los)
      BY DEF Surjection
    <3> HIDE DEF f, los
    <3> QED
      BY <3>1, FS_Surjection
  <2>3. Min(los) \in Int /\ Max(los) \in Int
    <3> HIDE DEF los
    <3> QED
      BY <2>1, <2>2, LowestOf, HighestOf
  <2>4. UsableHalf \in Int
    BY SdrAssumption DEF SdrAssumption
  <2> QED
    BY <2>3, <2>4
<1> HIDE DEF a, b
<1>3. ASSUME NEW f \in a..b, near(f) # {}
      PROVE  best(f) \in usable
  <2> DEFINE dist(g) == Distance(f, g.lo)
             ds == {dist(g) : g \in near(f)}
             closest == {g \in near(f) : dist(g) = Min(ds)}
             is == {g.idx : g \in closest}
  <2>0. \A g \in usable : g.lo \in Nat /\ g.idx \in Nat /\ dist(g) \in Int
    BY <1>2 DEF Seg, Distance
  <2>f. IsFiniteSet(near(f))
    BY FS_Subset
  <2>1. ds \in SUBSET Int /\ ds # {} /\ IsFiniteSet(ds)
    <3>1. ds \in SUBSET Int /\ ds # {}
      BY <1>3, <2>0
    <3>2. IsFiniteSet(ds)
      <4> DEFINE F == [g \in near(f) |-> dist(g)]
      <4>1. F \in Surjection(near(f), ds)
        BY DEF Surjection
      <4> HIDE DEF F, ds, near
      <4> QED
        BY <2>f, <4>1, FS_Surjection
    <3> QED
      BY <3>1, <3>2
  <2>2. Min(ds) \in ds /\ \A d \in ds : Min(ds) <= d
    <3> HIDE DEF ds
    <3> QED
      BY <2>1, LowestOf
  <2>3. closest # {} /\ closest \subseteq near(f)
    BY <2>2
  <2>4. is \in SUBSET Int /\ is # {} /\ IsFiniteSet(is)
    <3>1. is \in SUBSET Int /\ is # {}
      <4>1. closest \subseteq usable /\ closest # {}
        BY <2>3
      <4> HIDE DEF closest
      <4> QED
        BY <2>0, <4>1
    <3>2. IsFiniteSet(closest)
      BY <2>f, <2>3, FS_Subset
    <3>3. IsFiniteSet(is)
      <4> DEFINE F == [g \in closest |-> g.idx]
      <4>1. F \in Surjection(closest, is)
        BY DEF Surjection
      <4> HIDE DEF F, is, closest
      <4> QED
        BY <3>2, <4>1, FS_Surjection
    <3> QED
      BY <3>1, <3>3
  <2>5. Min(is) \in is /\ \A i \in is : Min(is) <= i
    <3> HIDE DEF is
    <3> QED
      BY <2>4, LowestOf
  <2>6. PICK g \in closest : g.idx = Min(is)
    BY <2>5
  <2>7. ASSUME NEW h \in near(f)
        PROVE  \/ dist(g) < dist(h)
               \/ dist(g) = dist(h) /\ g.idx <= h.idx
    <3>1. dist(g) = Min(ds) /\ Min(ds) <= dist(h) /\ dist(h) \in Int /\ dist(g) \in Int
      BY <2>0, <2>2, <2>3, <2>6
    <3>2. dist(h) = Min(ds) => g.idx <= h.idx
      BY <2>5, <2>6
    <3> HIDE DEF dist, ds, is
    <3> QED
      BY <3>1, <3>2
  <2>8. \E x \in near(f) : \A h \in near(f) :
           \/ Distance(f, x.lo) < Distance(f, h.lo)
           \/ Distance(f, x.lo) = Distance(f, h.lo) /\ x.idx <= h.idx
    <3>1. g \in near(f)
      BY <2>3
    <3> QED
      BY <2>7, <3>1
  <2>9. best(f) \in near(f)
    <3> HIDE DEF near
    <3> QED
      BY <2>8
  <2> QED
    BY <2>9
<1>4. DOMAIN Levels(usable) = a..b
  BY <1>1
<1>5. ASSUME NEW f \in a..b
      PROVE  Levels(usable)[f] = {} \/ \E g \in usable : Levels(usable)[f] = {g.idx}
  <2>1. Levels(usable)[f] = IF near(f) = {} THEN {}
                            ELSE IF Distance(f, best(f).lo) <= DcBins THEN {} ELSE {best(f).idx}
    BY <1>1
  <2> HIDE DEF near, best
  <2> QED
    BY <1>3, <2>1
<1> QED
  BY <1>2, <1>4, <1>5

Measured(S, v, a, b) ==
  DOMAIN v = a..b /\ \A j \in a..b : v[j] = {} \/ \E g \in S : v[j] = {g.idx}
Bridged(S, v, a, b) ==
  DOMAIN v = a..b /\ \A j \in a..b : v[j] = {} \/ \E g, h \in S : v[j] = {g.idx, h.idx}

LEMMA GapsAre ==
  ASSUME NEW a \in Int, NEW b \in Int, NEW S, NEW v, Measured(S, v, a, b)
  PROVE  Bridged(S, FillGaps(v), a, b)
<1>0. DOMAIN v = a..b /\ \A j \in a..b : v[j] = {} \/ \E g \in S : v[j] = {g.idx}
  BY DEF Measured
<1> DEFINE before(j) == {i \in DOMAIN v : i < j /\ v[i] # {}}
           after(j) == {i \in DOMAIN v : i > j /\ v[i] # {}}
           bridged(j) == /\ before(j) # {} /\ after(j) # {}
                         /\ Min(after(j)) - Max(before(j)) - 1 <= MaxGapFill
<1>1. FillGaps(v) = [j \in DOMAIN v |-> IF v[j] = {} /\ bridged(j)
                         THEN v[Max(before(j))] \cup v[Min(after(j))] ELSE v[j]]
  BY DEF FillGaps
<1>2. DOMAIN FillGaps(v) = a..b
  BY <1>0, <1>1
<1>3. ASSUME NEW j \in a..b
      PROVE  FillGaps(v)[j] = {} \/ \E g, h \in S : FillGaps(v)[j] = {g.idx, h.idx}
  <2>1. FillGaps(v)[j] = IF v[j] = {} /\ bridged(j)
                         THEN v[Max(before(j))] \cup v[Min(after(j))] ELSE v[j]
    BY <1>0, <1>1
  <2>2. CASE v[j] = {} /\ bridged(j)
    <3>1. IsFiniteSet(a..b)
      BY FS_Interval
    <3>2. before(j) \in SUBSET (a..b) /\ after(j) \in SUBSET (a..b)
      BY <1>0
    <3>3. IsFiniteSet(before(j)) /\ IsFiniteSet(after(j))
      BY <3>1, <3>2, FS_Subset
    <3>4. before(j) \in SUBSET Int /\ after(j) \in SUBSET Int
      BY <3>2
    <3>5. before(j) # {} /\ after(j) # {}
      BY <2>2
    <3>6. Max(before(j)) \in before(j) /\ Min(after(j)) \in after(j)
      <4> HIDE DEF before, after
      <4> QED
        BY <3>3, <3>4, <3>5, LowestOf, HighestOf
    <3>7. /\ v[Max(before(j))] # {} /\ Max(before(j)) \in a..b
          /\ v[Min(after(j))] # {} /\ Min(after(j)) \in a..b
      BY <1>0, <3>6
    <3> HIDE DEF before, after
    <3>8. PICK g \in S : v[Max(before(j))] = {g.idx}
      BY <1>0, <3>7
    <3>9. PICK h \in S : v[Min(after(j))] = {h.idx}
      BY <1>0, <3>7
    <3>10. FillGaps(v)[j] = {g.idx, h.idx}
      BY <2>1, <2>2, <3>8, <3>9
    <3> QED
      BY <3>10
  <2>3. CASE ~(v[j] = {} /\ bridged(j))
    <3>1. FillGaps(v)[j] = v[j]
      BY <2>1, <2>3
    <3>2. v[j] # {} => \E g \in S : v[j] = {g.idx, g.idx}
      BY <1>0
    <3> QED
      BY <3>1, <3>2
  <2> QED
    BY <2>2, <2>3
<1> QED
  BY <1>2, <1>3 DEF Bridged

\* A trace counts what was lost, and shows nothing else.
LEMMA StitchShows ==
  ASSUME SdrTypes, NEW r \in Radios, NEW p \in Over(r)
  PROVE  LET t == Stitch(p)
             came == {i \in DOMAIN Plan[r] : <<r, t.sweep, i>> \notin lost}
         IN /\ t.missing = Len(Plan[r]) - Cardinality(came)
            /\ UNION {t.levels[f] : f \in DOMAIN t.levels} \subseteq came
            /\ \A f \in DOMAIN t.levels : Cardinality(t.levels[f]) <= 2
<1> DEFINE t == Stitch(p)
           came == {i \in DOMAIN Plan[r] : <<r, p.sweep, i>> \notin lost}
           I == {g.idx : g \in p.segs}
           usable == {g \in p.segs : ~g.failed}
           n == Len(Plan[r])
<1>1. /\ p \in Sweep /\ Sound(r, p) /\ \A i \in DOMAIN Plan[r] : Accounted(r, p, p.sweep, i)
  BY DEF Over
<1>2. came = I
  BY <1>1 DEF Sound, Accounted, Made
<1>3. n \in Nat /\ DOMAIN Plan[r] = 1..n
  BY PlanIs
<1>4. /\ Cardinality(p.segs) \in Nat /\ Cardinality(p.segs) = Cardinality(I)
      /\ Cardinality(p.segs) <= n
  <2>1. I \subseteq 1..n
    BY <1>2, <1>3
  <2>2. IsFiniteSet(p.segs) /\ \A g, h \in p.segs : g.idx = h.idx => g = h
    BY <1>1 DEF Sound
  <2> QED
    BY <1>1, <1>3, <2>1, <2>2, SegsCounted
<1>5. p.count = n
  BY <1>1 DEF Sound
<1>6. /\ t.sweep = p.sweep
      /\ t.missing = IF p.count > Cardinality(p.segs) THEN p.count - Cardinality(p.segs) ELSE 0
      /\ t.levels = IF usable = {} THEN <<>> ELSE FillGaps(Levels(usable))
  BY DEF Stitch
<1>7. t.missing = n - Cardinality(came)
  <2> HIDE DEF came, I, n
  <2> QED
    BY <1>2, <1>3, <1>4, <1>5, <1>6
<1>8. ASSUME NEW f \in DOMAIN t.levels
      PROVE  t.levels[f] = {} \/ \E g, h \in p.segs : t.levels[f] = {g.idx, h.idx}
  <2>1. usable # {} /\ t.levels = FillGaps(Levels(usable))
    <3>1. CASE usable = {}
      <4>1. DOMAIN t.levels = {}
        BY <1>6, <3>1
      <4> QED
        BY <1>8, <4>1
    <3> QED
      BY <1>6, <3>1
  <2>2. usable \in SUBSET Seg /\ IsFiniteSet(usable) /\ usable \subseteq p.segs
    BY <1>1, FS_Subset DEF Sound, Sweep
  <2> HIDE DEF usable, t
  <2>3. PICK a \in Int, b \in Int : DOMAIN Levels(usable) = a..b
    BY <2>1, <2>2, LevelsAre
  <2>4. \A j \in a..b : Levels(usable)[j] = {} \/ \E g \in usable : Levels(usable)[j] = {g.idx}
    BY <2>1, <2>2, <2>3, LevelsAre
  <2>5. PICK v : v = Levels(usable)
    OBVIOUS
  <2>6. Bridged(usable, FillGaps(v), a, b)
    <3>1. Measured(usable, v, a, b)
      BY <2>3, <2>4, <2>5 DEF Measured
    <3> QED
      BY <3>1, GapsAre
  <2> QED
    BY <1>8, <2>1, <2>2, <2>5, <2>6 DEF Bridged
<1> HIDE DEF t
<1>9. UNION {t.levels[f] : f \in DOMAIN t.levels} \subseteq I
  BY <1>8
<1>10. ASSUME NEW f \in DOMAIN t.levels PROVE Cardinality(t.levels[f]) <= 2
  <2>1. CASE t.levels[f] = {}
    BY <2>1, FS_EmptySet
  <2>2. CASE \E g, h \in p.segs : t.levels[f] = {g.idx, h.idx}
    <3>0. PICK g \in p.segs, h \in p.segs : t.levels[f] = {g.idx, h.idx}
      BY <2>2
    <3>1. PICK x, y : t.levels[f] = {x} \cup {y}
      <4>1. t.levels[f] = {g.idx} \cup {h.idx}
        BY <3>0
      <4> QED
        BY <4>1, Zenon
    <3>2. IsFiniteSet({x}) /\ Cardinality({x}) = 1
      BY FS_Singleton
    <3>3. Cardinality({x} \cup {y}) \in {1, 2}
      BY <3>2, FS_AddElement
    <3> QED
      BY <3>1, <3>3
  <2> QED
    BY <1>8, <2>1, <2>2
<1> QED
  BY <1>2, <1>6, <1>7, <1>9, <1>10 DEF t

\* What Stitch and FillGaps make of one sweep's segments shows that sweep only.
LEMMA SdrInvMeans == SdrInv => TraceIsSweep
<1> SUFFICES ASSUME SdrInv, NEW r \in Radios, NEW k \in DOMAIN hist[r]
             PROVE  LET t == hist[r][k]
                        came == {i \in DOMAIN Plan[r] : <<r, t.sweep, i>> \notin lost}
                        measured == UNION {t.levels[f] : f \in DOMAIN t.levels}
                    IN /\ t.missing = Len(Plan[r]) - Cardinality(came)
                       /\ measured \subseteq came
                       /\ \A f \in DOMAIN t.levels : Cardinality(t.levels[f]) <= 2
                       /\ k > 1 => hist[r][k - 1].sweep < t.sweep
  BY DEF TraceIsSweep
<1>1. SdrTypes /\ Ordered(Over(r), hist[r], LastSweep(r))
  BY DEF SdrInv, RadioInv
<1>2. PICK p \in Over(r) : hist[r][k] = Stitch(p)
  BY <1>1 DEF Ordered
<1>3. k > 1 => hist[r][k - 1].sweep < hist[r][k].sweep
  BY <1>1 DEF Ordered
<1>4. LET t == Stitch(p)
          came == {i \in DOMAIN Plan[r] : <<r, t.sweep, i>> \notin lost}
      IN /\ t.missing = Len(Plan[r]) - Cardinality(came)
         /\ UNION {t.levels[f] : f \in DOMAIN t.levels} \subseteq came
         /\ \A f \in DOMAIN t.levels : Cardinality(t.levels[f]) <= 2
  BY <1>1, StitchShows
<1> QED
  BY <1>2, <1>3, <1>4, Zenon

\* Making, losing, collecting and clearing keep the invariant.
LEMMA SdrInvStep == SdrInv /\ [SdrNext]_sdrVars => SdrInv'
<1> SUFFICES ASSUME SdrInv, [SdrNext]_sdrVars PROVE SdrInv'
  OBVIOUS
<1>1. CASE \E r \in Radios : Add(r) \/ Lose(r)
  BY <1>1, AddKeeps, LoseKeeps
<1>2. CASE Clear
  BY <1>2, ClearKeeps
<1>3. CASE UNCHANGED sdrVars
  <2>1. SdrTypes'
    BY <1>3 DEF SdrInv, SdrTypes, sdrVars
  <2>2. ASSUME NEW x \in Radios PROVE RadioInv(x)'
    BY <1>3, RadioFrame DEF SdrInv, sdrVars
  <2> QED
    BY <2>1, <2>2 DEF SdrInv
<1> QED
  BY <1>1, <1>2, <1>3 DEF SdrNext

\* A trace of the host shows one sweep (sdr.go): for any plans, gaps and
\* history, whatever segments are lost and whenever the history is cleared.
THEOREM TracesAreSweeps == SdrSpec => []TraceIsSweep
<1>1. SdrInit => SdrInv
  BY SdrInvInit
<1>2. SdrInv /\ [SdrNext]_sdrVars => SdrInv'
  BY SdrInvStep
<1>3. SdrInv => TraceIsSweep
  BY SdrInvMeans
<1> QED
  BY <1>1, <1>2, <1>3, PTL DEF SdrSpec

\* The history takes one trace in and never outgrows its bound.
LEMMA KeepBounded ==
  ASSUME NEW S, NEW h \in Seq(S), NEW t \in S, Len(h) <= HistoryLen
  PROVE  Keep(h, t) \in Seq(S) /\ Len(Keep(h, t)) <= HistoryLen
<1> DEFINE a == Append(h, t)
<1>1. a \in Seq(S) /\ Len(a) = Len(h) + 1 /\ Len(h) \in Nat /\ HistoryLen \in Nat \ {0}
  BY CapIs
<1> HIDE DEF a
<1>2. CASE Len(a) > HistoryLen
  <2> DEFINE m == Len(a) - HistoryLen + 1
  <2>1. Len(a) = HistoryLen + 1
    BY <1>1, <1>2
  <2>2. m = 2
    BY <1>1, <2>1
  <2>3. Keep(h, t) = SubSeq(a, 2, Len(a))
    BY <1>2, <2>2 DEF Keep, a
  <2>4. SubSeq(a, 2, Len(a)) \in Seq(S) /\ Len(SubSeq(a, 2, Len(a))) = Len(a) - 1
    BY <1>1, <2>1
  <2> QED
    BY <1>1, <2>1, <2>3, <2>4
<1>3. CASE ~ (Len(a) > HistoryLen)
  <2>1. Keep(h, t) = a
    BY <1>3 DEF Keep, a
  <2> QED
    BY <1>1, <1>3, <2>1
<1> QED
  BY <1>2, <1>3

\* A segment leaves a sweep under way that holds it, or none.
LEMMA CollectBounded ==
  ASSUME NEW p \in {NoSweep} \cup Sweep, NEW S, NEW h \in Seq(S), Len(h) <= HistoryLen,
         NEW seg, NEW n
  PROVE  LET c == Collect(p, h, seg, n)
         IN Len(c.hist) <= HistoryLen /\ (c.pend = NoSweep \/ c.pend.segs # {})
<1> DEFINE other == p # NoSweep /\ p.sweep # seg.sweep
           h1 == IF other THEN Keep(h, Stitch(p)) ELSE h
           q == IF other \/ p = NoSweep
                THEN [sweep |-> seg.sweep, segs |-> {}, count |-> n] ELSE p
           q1 == [q EXCEPT !.segs = {g \in @ : g.idx # seg.idx} \cup {seg}]
           whole == n > 0 /\ Cardinality(q1.segs) >= q.count
           U == S \cup {Stitch(p), Stitch(q1)}
           c == Collect(p, h, seg, n)
<1>1. c = [pend |-> IF whole THEN NoSweep ELSE q1,
           hist |-> IF whole THEN Keep(h1, Stitch(q1)) ELSE h1]
  BY DEF Collect
<1>2. q1.segs # {}
  <2>1. CASE other \/ p = NoSweep
    BY <2>1
  <2>2. CASE ~ (other \/ p = NoSweep)
    BY <2>2 DEF Sweep
  <2> QED
    BY <2>1, <2>2
<1>3. Stitch(p) \in U /\ Stitch(q1) \in U /\ h \in Seq(U)
  <2> HIDE DEF q1
  <2> QED
    OBVIOUS
<1> HIDE DEF U
<1>4. h1 \in Seq(U) /\ Len(h1) <= HistoryLen
  <2> HIDE DEF other
  <2> QED
    BY <1>3, KeepBounded
<1> HIDE DEF h1, q1, whole, c
<1>5. Len(Keep(h1, Stitch(q1))) <= HistoryLen
  BY <1>3, <1>4, KeepBounded
<1> QED
  BY <1>1, <1>2, <1>4, <1>5 DEF c

\* Every operation leaves each board inside its plan and each history inside its
\* bound.
LEMMA SdrBounded ==
  ASSUME SdrInv, SdrTypeOK, [SdrNext]_sdrVars
  PROVE  SdrTypeOK'
<1>t. /\ board \in [Radios -> [sweep : Nat, idx : Nat]]
      /\ pend \in [Radios -> {NoSweep} \cup Sweep]
      /\ hist \in [Radios -> Seq({Stitch(p) : p \in Sweep})]
      /\ \A r \in Radios : board[r].idx \in DOMAIN Plan[r]
  BY DEF SdrInv, SdrTypes
<1>m. MaxSweeps \in Nat
  BY SdrAssumption DEF SdrAssumption
<1>b. ASSUME NEW r \in Radios, Sweeping(r), board' = [board EXCEPT ![r] = NextSegment(r)]
      PROVE  /\ board' \in [Radios -> [sweep : 0..MaxSweeps, idx : Nat]]
             /\ \A x \in Radios : board'[x].idx \in DOMAIN Plan[x]
  <2>1. board[r] \in [sweep : Nat, idx : Nat] /\ board[r].idx \in DOMAIN Plan[r]
    BY <1>t
  <2>2. Len(Plan[r]) \in Nat \ {0} /\ DOMAIN Plan[r] = 1..Len(Plan[r])
    BY PlanIs
  <2>3. board[r].sweep \in Nat /\ board[r].idx \in Nat /\ board[r].sweep < MaxSweeps
    BY <1>b, <2>1 DEF Sweeping
  <2>4. NextSegment(r) \in [sweep : 0..MaxSweeps, idx : Nat] /\ NextSegment(r).idx \in DOMAIN Plan[r]
    <3>1. CASE board[r].idx < Len(Plan[r])
      <4>1. NextSegment(r) = [sweep |-> board[r].sweep, idx |-> board[r].idx + 1]
        BY <2>1, <3>1 DEF NextSegment
      <4> QED
        BY <1>m, <2>2, <2>3, <3>1, <4>1
    <3>2. CASE ~ (board[r].idx < Len(Plan[r]))
      <4>1. NextSegment(r) = [sweep |-> board[r].sweep + 1, idx |-> 1]
        BY <3>2 DEF NextSegment
      <4> QED
        BY <1>m, <2>2, <2>3, <4>1
    <3> QED
      BY <3>1, <3>2
  <2>5. board \in [Radios -> [sweep : 0..MaxSweeps, idx : Nat]]
    BY DEF SdrTypeOK
  <2> QED
    BY <1>b, <1>t, <2>4, <2>5
<1>1. ASSUME NEW r \in Radios, Add(r) PROVE SdrTypeOK'
  <2>1. PICK seg, c : /\ c = Collect(pend[r], hist[r], seg, Len(Plan[r]))
                      /\ pend' = [pend EXCEPT ![r] = c.pend] /\ hist' = [hist EXCEPT ![r] = c.hist]
    BY <1>1 DEF Add
  <2>2. Len(c.hist) <= HistoryLen /\ (c.pend = NoSweep \/ c.pend.segs # {})
    <3>1. Len(hist[r]) <= HistoryLen
      BY DEF SdrTypeOK
    <3>2. pend[r] \in {NoSweep} \cup Sweep /\ hist[r] \in Seq({Stitch(p) : p \in Sweep})
      BY <1>t
    <3> QED
      BY <2>1, <3>1, <3>2, CollectBounded
  <2>3. Sweeping(r) /\ board' = [board EXCEPT ![r] = NextSegment(r)]
    BY <1>1 DEF Add
  <2>4. \A x \in Radios : Len(hist'[x]) <= HistoryLen /\ (pend'[x] = NoSweep \/ pend'[x].segs # {})
    BY <1>t, <2>1, <2>2 DEF SdrTypeOK
  <2> QED
    BY <1>b, <2>3, <2>4 DEF SdrTypeOK
<1>2. ASSUME NEW r \in Radios, Lose(r) PROVE SdrTypeOK'
  <2>1. Sweeping(r) /\ board' = [board EXCEPT ![r] = NextSegment(r)] /\ pend' = pend /\ hist' = hist
    BY <1>2 DEF Lose
  <2> QED
    BY <1>b, <2>1 DEF SdrTypeOK
<1>3. CASE Clear
  <2>1. \A x \in Radios : hist'[x] = <<>> /\ pend'[x] = NoSweep /\ board' = board
    BY <1>3 DEF Clear
  <2>2. \A x \in Radios : Len(hist'[x]) <= HistoryLen
    BY <2>1, CapIs
  <2>3. board' = board
    BY <1>3 DEF Clear
  <2> QED
    BY <2>1, <2>2, <2>3 DEF SdrTypeOK
<1>4. CASE UNCHANGED sdrVars
  BY <1>4 DEF sdrVars, SdrTypeOK
<1> QED
  BY <1>1, <1>2, <1>3, <1>4 DEF SdrNext

\* However segments come, are lost or are cleared, the history of a radio stays
\* bounded and a sweep under way holds a segment.
THEOREM SdrTyped == SdrSpec => []SdrTypeOK
<1>1. SdrInit => SdrInv /\ SdrTypeOK
  <2>1. SdrInit => SdrTypeOK
    <3> SUFFICES ASSUME SdrInit PROVE SdrTypeOK
      OBVIOUS
    <3>1. MaxSweeps \in Nat
      BY SdrAssumption DEF SdrAssumption
    <3>2. board \in [Radios -> [sweep : 0..MaxSweeps, idx : Nat]]
      BY <3>1 DEF SdrInit
    <3>3. \A r \in Radios : board[r].idx \in DOMAIN Plan[r] /\ Len(hist[r]) <= HistoryLen
      BY PlanIs, CapIs DEF SdrInit
    <3> QED
      BY <3>2, <3>3 DEF SdrInit, SdrTypeOK
  <2> QED
    BY <2>1, SdrInvInit
<1>2. (SdrInv /\ SdrTypeOK) /\ [SdrNext]_sdrVars => (SdrInv /\ SdrTypeOK)'
  BY SdrInvStep, SdrBounded
<1> QED
  BY <1>1, <1>2, PTL DEF SdrSpec

-------------------------------------------------------------------------------
(* Sequences, of whatever they hold.                                           *)

\* A function on the numbers to n is a sequence of length n.
LEMMA ListOf ==
  ASSUME NEW n \in Nat, NEW f, f = [i \in 1..n |-> f[i]]
  PROVE  IsList(f) /\ Len(f) = n /\ DOMAIN f = 1..n
<1>1. DOMAIN f = 1..n
  OBVIOUS
<1>2. \A i \in 1..n : f[i] \in Range(f)
  BY <1>1 DEF Range
<1>3. f \in Seq(Range(f))
  BY <1>2
<1> QED
  BY <1>1, <1>3 DEF IsList

\* A sequence is what it holds at each place.
LEMMA ListIs ==
  ASSUME NEW s, IsList(s)
  PROVE  Len(s) \in Nat /\ DOMAIN s = 1..Len(s) /\ s = [i \in 1..Len(s) |-> s[i]]
BY DEF IsList

\* Two sequences that hold the same are one.
LEMMA SameList ==
  ASSUME NEW s, IsList(s), NEW t, IsList(t), Len(s) = Len(t),
         \A i \in 1..Len(s) : s[i] = t[i]
  PROVE  s = t
BY ListIs

\* Two sequences joined.
LEMMA Joining ==
  ASSUME NEW s, IsList(s), NEW t, IsList(t)
  PROVE  /\ IsList(s \o t) /\ Len(s \o t) = Len(s) + Len(t)
         /\ DOMAIN (s \o t) = 1..(Len(s) + Len(t))
         /\ \A i \in 1..Len(s) : (s \o t)[i] = s[i]
         /\ \A i \in (Len(s) + 1)..(Len(s) + Len(t)) : (s \o t)[i] = t[i - Len(s)]
<1> DEFINE S == Range(s) \cup Range(t)
<1>1. s \in Seq(S) /\ t \in Seq(S)
  BY DEF IsList
<1> HIDE DEF S
<1>2. /\ s \o t \in Seq(S) /\ Len(s \o t) = Len(s) + Len(t)
      /\ \A i \in 1..(Len(s) + Len(t)) : (s \o t)[i] = IF i <= Len(s) THEN s[i] ELSE t[i - Len(s)]
  BY <1>1, ConcatProperties
<1>3. Len(s) \in Nat /\ Len(t) \in Nat
  BY Lists
<1>4. IsList(s \o t)
  BY <1>2, Lists
<1> QED
  BY <1>2, <1>3, <1>4, Lists

\* The empty sequence joins without a trace.
LEMMA JoinedEmpty == ASSUME NEW s, IsList(s) PROVE s \o <<>> = s /\ <<>> \o s = s
BY ConcatEmptySeq DEF IsList

\* Three sequences join in either grouping.
LEMMA JoinedThree ==
  ASSUME NEW s, IsList(s), NEW t, IsList(t), NEW u, IsList(u)
  PROVE  (s \o t) \o u = s \o (t \o u)
<1> DEFINE S == Range(s) \cup Range(t) \cup Range(u)
<1>1. s \in Seq(S) /\ t \in Seq(S) /\ u \in Seq(S)
  BY DEF IsList
<1> HIDE DEF S
<1> QED
  BY <1>1, ConcatAssociative

\* What stands before the same end is the same.
LEMMA SameBefore ==
  ASSUME NEW s, IsList(s), NEW t, IsList(t), NEW u, IsList(u), s \o u = t \o u
  PROVE  s = t
<1>1. Len(s) = Len(t)
  <2>1. Len(s \o u) = Len(s) + Len(u) /\ Len(t \o u) = Len(t) + Len(u)
    BY Joining
  <2> QED
    BY <2>1, Lists
<1>2. \A i \in 1..Len(s) : s[i] = t[i]
  BY <1>1, Joining
<1> QED
  BY <1>1, <1>2, SameList

\* A stretch of a sequence.
LEMMA Stretch ==
  ASSUME NEW s, IsList(s), NEW m \in 1..(Len(s) + 1), NEW n \in (m - 1)..Len(s)
  PROVE  /\ IsList(SubSeq(s, m, n)) /\ Len(SubSeq(s, m, n)) = n - m + 1
         /\ DOMAIN SubSeq(s, m, n) = 1..(n - m + 1)
         /\ \A i \in 1..(n - m + 1) : SubSeq(s, m, n)[i] = s[m + i - 1]
<1>1. Len(s) \in Nat /\ m \in Int /\ n \in Int /\ m <= n + 1
  BY Lists
<1>2. \A i \in m..n : s[i] \in Range(s)
  <2> TAKE i \in m..n
  <2>1. i \in 1..Len(s)
    BY <1>1
  <2> QED
    BY <2>1, Lists DEF Range
<1>3. /\ SubSeq(s, m, n) \in Seq(Range(s))
      /\ Len(SubSeq(s, m, n)) = IF m <= n THEN n - m + 1 ELSE 0
      /\ \A i \in 1..(n - m + 1) : SubSeq(s, m, n)[i] = s[m + i - 1]
  BY <1>1, <1>2, SubSeqProperties
<1>4. Len(SubSeq(s, m, n)) = n - m + 1
  BY <1>1, <1>3
<1> QED
  BY <1>3, <1>4, Lists

\* The same stretch of two sequences that agree on it.
LEMMA SameStretch ==
  ASSUME NEW s, IsList(s), NEW t, IsList(t), NEW k \in Nat,
         NEW m \in 1..(Len(s) + 1), NEW n \in (m - 1)..Len(s), n + k <= Len(t),
         \A i \in m..n : t[i + k] = s[i]
  PROVE  SubSeq(t, m + k, n + k) = SubSeq(s, m, n)
<1> DEFINE a == SubSeq(s, m, n)
           b == SubSeq(t, m + k, n + k)
<1>1. Len(s) \in Nat /\ Len(t) \in Nat
  BY Lists
<1>2. m + k \in 1..(Len(t) + 1) /\ n + k \in (m + k - 1)..Len(t)
  BY <1>1
<1>3. IsList(a) /\ Len(a) = n - m + 1 /\ \A i \in 1..(n - m + 1) : a[i] = s[m + i - 1]
  BY Stretch
<1>4. /\ IsList(b) /\ Len(b) = (n + k) - (m + k) + 1
      /\ \A i \in 1..((n + k) - (m + k) + 1) : b[i] = t[m + k + i - 1]
  BY <1>2, Stretch
<1> HIDE DEF a, b
<1>5. Len(a) = Len(b)
  BY <1>1, <1>3, <1>4
<1>6. \A i \in 1..Len(a) : a[i] = b[i]
  <2> TAKE i \in 1..Len(a)
  <2>1. m + i - 1 \in m..n /\ (m + i - 1) + k = m + k + i - 1
    BY <1>1, <1>3
  <2>2. i \in 1..(n - m + 1) /\ i \in 1..((n + k) - (m + k) + 1)
    BY <1>1, <1>3
  <2> QED
    BY <1>3, <1>4, <2>1, <2>2
<1>7. a = b
  BY <1>3, <1>4, <1>5, <1>6, SameList
<1> QED
  BY <1>7 DEF a, b

-------------------------------------------------------------------------------
(* One position of the scan.                                                   *)

\* A frame of n bytes at h of c, if the bytes are there and the checksum is right.
Checked(c, h, n) ==
  IF h + (6 + n) - 1 > Len(c) THEN [move |-> 0, msgs |-> <<>>]
  ELSE IF CRC16(SubSeq(c, h + 2, h + 4 + n)) # c[h + (6 + n) - 1] THEN [move |-> 1, msgs |-> <<>>]
  ELSE [move |-> 6 + n, msgs |-> Message(c[h + 3], SubSeq(c, h + 5, h + 4 + n))]
\* The magic bytes, if they have come.
Magical(b, i) == i + 1 > Len(b) \/ (b[i] = Magic0 /\ b[i + 1] = Magic1)

\* The cases of the scan.
LEMMA LookCases ==
  ASSUME NEW b, IsList(b), NEW i \in 1..(Len(b) + 1)
  PROVE  /\ ~Magical(b, i) => Look(b, i) = [move |-> 1, msgs |-> <<>>]
         /\ Magical(b, i) /\ i + 4 > Len(b) => Look(b, i) = [move |-> 0, msgs |-> <<>>]
         /\ Magical(b, i) /\ i + 4 <= Len(b) =>
              IF b[i + 2] # Ver \/ b[i + 4] \notin 0..MaxPayload
              THEN Look(b, i) = [move |-> 1, msgs |-> <<>>]
              ELSE Look(b, i) = Checked(b, i, b[i + 4])
<1>1. Len(b) \in Nat /\ i \in Nat
  BY Lists
<1>2. ~Magical(b, i) => Look(b, i) = [move |-> 1, msgs |-> <<>>]
  BY DEF Look, Magical
<1>3. Magical(b, i) /\ i + 4 > Len(b) => Look(b, i) = [move |-> 0, msgs |-> <<>>]
  BY DEF Look, Magical
<1>4. ASSUME Magical(b, i), i + 4 <= Len(b), b[i + 2] # Ver \/ b[i + 4] \notin 0..MaxPayload
      PROVE  Look(b, i) = [move |-> 1, msgs |-> <<>>]
  BY <1>1, <1>4 DEF Look, Magical
<1>5. ASSUME Magical(b, i), i + 4 <= Len(b), ~(b[i + 2] # Ver \/ b[i + 4] \notin 0..MaxPayload)
      PROVE  Look(b, i) = Checked(b, i, b[i + 4])
  BY <1>1, <1>5 DEF Look, Magical, Checked, AfterBadCRC
<1> QED
  BY <1>1, <1>2, <1>3, <1>4, <1>5

\* The scan looks at bytes there are, and waits for no more than a frame.
LEMMA LookIs ==
  ASSUME NEW b, IsList(b), NEW i \in 1..(Len(b) + 1)
  PROVE  /\ Look(b, i).move \in Nat /\ IsList(Look(b, i).msgs)
         /\ i + Look(b, i).move <= Len(b) + 1
         /\ Look(b, i).move = 0 => Look(b, i).msgs = <<>> /\ Len(b) - i + 1 < MaxPayload + 6
<1>1. Len(b) \in Nat /\ MaxPayload \in Nat
  BY WireAssumption, Lists
<1>2. \A t, p : IsList(Message(t, p))
  <2>1. \A x : IsList(<<x>>)
    <3> TAKE x
    <3>1. <<x>> \in Seq({x})
      OBVIOUS
    <3> QED
      BY <3>1, Lists
  <2> QED
    BY <2>1, Lists DEF Message
<1>3. CASE ~Magical(b, i)
  <2>1. Look(b, i) = [move |-> 1, msgs |-> <<>>]
    BY <1>3, LookCases
  <2>2. i + 1 <= Len(b)
    BY <1>1, <1>3 DEF Magical
  <2> QED
    BY <1>1, <2>1, <2>2, Lists
<1>4. CASE Magical(b, i) /\ i + 4 > Len(b)
  <2>1. Look(b, i) = [move |-> 0, msgs |-> <<>>]
    BY <1>4, LookCases
  <2> QED
    BY <1>1, <1>4, <2>1, Lists
<1>5. CASE Magical(b, i) /\ i + 4 <= Len(b) /\ (b[i + 2] # Ver \/ b[i + 4] \notin 0..MaxPayload)
  <2>1. Look(b, i) = [move |-> 1, msgs |-> <<>>]
    BY <1>5, LookCases
  <2> QED
    BY <1>1, <1>5, <2>1, Lists
<1>6. CASE Magical(b, i) /\ i + 4 <= Len(b) /\ ~(b[i + 2] # Ver \/ b[i + 4] \notin 0..MaxPayload)
  <2> DEFINE plen == b[i + 4]
  <2>1. Look(b, i) = Checked(b, i, plen)
    BY <1>6, LookCases
  <2>2. plen \in Nat /\ plen <= MaxPayload
    BY <1>1, <1>6
  <2> HIDE DEF plen
  <2>3. CASE i + (6 + plen) - 1 > Len(b)
    BY <1>1, <2>1, <2>2, <2>3, Lists DEF Checked
  <2>4. CASE ~(i + (6 + plen) - 1 > Len(b))
    BY SMTT(30), <1>1, <1>2, <1>6, <2>1, <2>2, <2>4, Lists DEF Checked
  <2> QED
    BY <2>3, <2>4
<1> QED
  BY <1>1, <1>3, <1>4, <1>5, <1>6

\* A frame is checked alike wherever it stands.
LEMMA CheckedSame ==
  ASSUME NEW b, IsList(b), NEW d, IsList(d), NEW k \in Nat, k + Len(b) <= Len(d),
         \A j \in 1..Len(b) : d[j + k] = b[j],
         NEW i \in 1..Len(b), NEW n \in Nat, i + (6 + n) - 1 <= Len(b)
  PROVE  Checked(d, i + k, n) = Checked(b, i, n)
<1>1. Len(b) \in Nat /\ Len(d) \in Nat
  BY Lists
<1>2. ~(i + (6 + n) - 1 > Len(b)) /\ ~(i + k + (6 + n) - 1 > Len(d))
  BY <1>1
<1>3. d[i + k + (6 + n) - 1] = b[i + (6 + n) - 1]
  <2>1. i + (6 + n) - 1 \in 1..Len(b) /\ i + (6 + n) - 1 + k = i + k + (6 + n) - 1
    BY <1>1
  <2> QED
    BY <2>1
<1>4. d[i + k + 3] = b[i + 3]
  <2>1. i + 3 \in 1..Len(b) /\ i + 3 + k = i + k + 3
    BY <1>1
  <2> QED
    BY <2>1
<1>5. ASSUME NEW m \in {2, 5} PROVE SubSeq(d, i + k + m, i + k + 4 + n) = SubSeq(b, i + m, i + 4 + n)
  <2>1. /\ i + m \in 1..(Len(b) + 1) /\ i + 4 + n \in (i + m - 1)..Len(b)
        /\ i + m + k = i + k + m /\ i + 4 + n + k = i + k + 4 + n
        /\ i + 4 + n + k <= Len(d)
        /\ \A j \in (i + m)..(i + 4 + n) : j \in 1..Len(b)
    BY <1>1
  <2>2. \A j \in (i + m)..(i + 4 + n) : d[j + k] = b[j]
    BY <2>1
  <2>3. SubSeq(d, i + m + k, i + 4 + n + k) = SubSeq(b, i + m, i + 4 + n)
    BY <2>1, <2>2, SameStretch
  <2> QED
    BY <2>1, <2>3
<1>6. /\ SubSeq(d, i + k + 2, i + k + 4 + n) = SubSeq(b, i + 2, i + 4 + n)
      /\ SubSeq(d, i + k + 5, i + k + 4 + n) = SubSeq(b, i + 5, i + 4 + n)
  BY <1>5
<1> QED
  BY <1>2, <1>3, <1>4, <1>6, Zenon DEF Checked

\* What is found does not depend on what comes after it, nor on what went before.
LEMMA LookSame ==
  ASSUME NEW b, IsList(b), NEW d, IsList(d), NEW k \in Nat, k + Len(b) <= Len(d),
         \A j \in 1..Len(b) : d[j + k] = b[j],
         NEW i \in 1..(Len(b) + 1), Look(b, i).move # 0 \/ k + Len(b) = Len(d)
  PROVE  Look(d, i + k) = Look(b, i)
<1>1. Len(b) \in Nat /\ Len(d) \in Nat /\ MaxPayload \in Nat /\ i + k \in 1..(Len(d) + 1)
  BY WireAssumption, Lists
<1>2. CASE i + 4 > Len(b) /\ Magical(b, i)
  <2>1. Look(b, i) = [move |-> 0, msgs |-> <<>>]
    BY <1>2, LookCases
  <2>2. k + Len(b) = Len(d)
    BY <2>1
  <2>3. Magical(d, i + k) /\ i + k + 4 > Len(d)
    <3>1. CASE i + 1 > Len(b)
      BY <1>1, <1>2, <2>2, <3>1 DEF Magical
    <3>2. CASE i + 1 <= Len(b)
      <4>1. i \in 1..Len(b) /\ i + 1 \in 1..Len(b) /\ i + 1 + k = i + k + 1
        BY <1>1, <3>2
      <4>2. d[i + k] = b[i] /\ d[i + k + 1] = b[i + 1]
        BY <4>1
      <4> QED
        BY <1>1, <1>2, <2>2, <3>2, <4>2 DEF Magical
    <3> QED
      BY <1>1, <3>1, <3>2
  <2> QED
    BY <1>1, <2>1, <2>3, LookCases
<1>3. CASE i + 1 <= Len(b) /\ ~Magical(b, i)
  <2>1. i \in 1..Len(b) /\ i + 1 \in 1..Len(b) /\ i + 1 + k = i + k + 1
    BY <1>1, <1>3
  <2>2. d[i + k] = b[i] /\ d[i + k + 1] = b[i + 1]
    BY <2>1
  <2>3. ~Magical(d, i + k)
    BY <1>1, <1>3, <2>2 DEF Magical
  <2> QED
    BY <1>1, <1>3, <2>3, LookCases
<1>4. CASE i + 4 <= Len(b) /\ Magical(b, i)
  <2>1. /\ \A m \in 0..4 : i + m \in 1..Len(b) /\ i + m + k = i + k + m
        /\ i + k + 4 <= Len(d)
    BY <1>1, <1>4
  <2>2. \A m \in 0..4 : d[i + k + m] = b[i + m]
    BY <2>1
  <2>3. /\ d[i + k] = b[i] /\ d[i + k + 1] = b[i + 1] /\ d[i + k + 2] = b[i + 2]
        /\ d[i + k + 3] = b[i + 3] /\ d[i + k + 4] = b[i + 4]
    <3>1. d[i + k + 0] = b[i + 0] /\ i + k + 0 = i + k /\ i + 0 = i
      BY <2>2
    <3>2. d[i + k] = b[i]
      BY <3>1
    <3> QED
      BY <2>2, <3>2
  <2>4. Magical(d, i + k)
    BY <1>1, <1>4, <2>3 DEF Magical
  <2>5. CASE b[i + 2] # Ver \/ b[i + 4] \notin 0..MaxPayload
    <3>1. Look(b, i) = [move |-> 1, msgs |-> <<>>]
      BY <1>4, <2>5, LookCases
    <3>2. Look(d, i + k) = [move |-> 1, msgs |-> <<>>]
      BY <1>1, <2>1, <2>3, <2>4, <2>5, LookCases
    <3> QED
      BY <3>1, <3>2
  <2>6. CASE ~(b[i + 2] # Ver \/ b[i + 4] \notin 0..MaxPayload)
    <3> DEFINE n == b[i + 4]
    <3>1. n \in Nat
      BY <1>1, <2>6
    <3>2. Look(b, i) = Checked(b, i, n)
      BY <1>4, <2>6, LookCases
    <3>3. Look(d, i + k) = Checked(d, i + k, n)
      <4>1. ~(d[i + k + 2] # Ver \/ d[i + k + 4] \notin 0..MaxPayload)
        BY <2>3, <2>6
      <4>2. Look(d, i + k) = Checked(d, i + k, d[i + k + 4])
        BY <1>1, <2>1, <2>4, <4>1, LookCases
      <4> QED
        BY <2>3, <4>2
    <3> HIDE DEF n
    <3>4. CASE i + (6 + n) - 1 <= Len(b)
      <4>1. i \in 1..Len(b)
        BY <1>1, <3>1, <3>4
      <4>2. Checked(d, i + k, n) = Checked(b, i, n)
        BY <3>1, <3>4, <4>1, CheckedSame
      <4> QED
        BY <3>2, <3>3, <4>2
    <3>5. CASE ~(i + (6 + n) - 1 <= Len(b))
      <4>1. Look(b, i) = [move |-> 0, msgs |-> <<>>]
        BY <1>1, <3>1, <3>2, <3>5 DEF Checked
      <4>2. k + Len(b) = Len(d)
        BY <4>1
      <4>3. i + k + (6 + n) - 1 > Len(d)
        BY <1>1, <3>1, <3>5, <4>2
      <4>4. Look(d, i + k) = [move |-> 0, msgs |-> <<>>]
        BY <3>3, <4>3 DEF Checked
      <4> QED
        BY <4>1, <4>4
    <3> QED
      BY <3>4, <3>5
  <2> QED
    BY <2>5, <2>6
<1>5. \/ i + 4 > Len(b) /\ Magical(b, i)
      \/ i + 1 <= Len(b) /\ ~Magical(b, i)
      \/ i + 4 <= Len(b) /\ Magical(b, i)
  BY <1>1 DEF Magical
<1> QED
  BY <1>2, <1>3, <1>4, <1>5

-------------------------------------------------------------------------------
(* The scan from each position, made from the one that it goes on to.          *)

\* What the scan finds from i on, s being what it finds from later positions.
Here(b, i, s) ==
  IF Look(b, i).move = 0 THEN [msgs |-> <<>>, at |-> i]
  ELSE [msgs |-> Look(b, i).msgs \o s[i + Look(b, i).move].msgs, at |-> s[i + Look(b, i).move].at]

\* There is such a function: otherwise there were a lowest position from which
\* there is one, and the position before it had one too.
LEMMA ScanIs ==
  ASSUME NEW b, IsList(b)
  PROVE  \A i \in 1..(Len(b) + 1) : Scan(b)[i] = Here(b, i, Scan(b))
<1> DEFINE n == Len(b) + 1
           From(k) == \E s : s = [i \in k..n |-> s[i]] /\ \A i \in k..n : s[i] = Here(b, i, s)
           K == {k \in 1..n : From(k)}
<1>1. n \in Nat /\ n >= 1 /\ Len(b) \in Nat
  BY Lists
<1>2. ASSUME NEW i \in 1..n
      PROVE  /\ Look(b, i).move \in Nat /\ i + Look(b, i).move <= n
  BY <1>2, LookIs
<1> HIDE DEF n
<1>3. n \in K
  <2> DEFINE e == [i \in n..n |-> [msgs |-> <<>>, at |-> i]]
  <2>1. Look(b, n).move = 0
    BY <1>1, <1>2
  <2>2. \A i \in n..n : i = n
    BY <1>1
  <2>3. e = [i \in n..n |-> e[i]] /\ \A i \in n..n : e[i] = Here(b, i, e)
    BY <2>1, <2>2 DEF Here
  <2>4. From(n)
    <3> HIDE DEF e
    <3> QED
      BY <2>3
  <2> HIDE DEF From
  <2> QED
    BY <1>1, <2>4
<1>4. ASSUME NEW k \in K, k # 1 PROVE k - 1 \in K
  <2>1. k \in 1..n /\ k - 1 \in 1..n
    BY <1>1, <1>4
  <2>2. PICK s : s = [i \in k..n |-> s[i]] /\ \A i \in k..n : s[i] = Here(b, i, s)
    <3>1. From(k)
      BY DEF K
    <3> QED
      BY <3>1
  <2> DEFINE m == Look(b, k - 1).move
             first == IF m = 0 THEN [msgs |-> <<>>, at |-> k - 1]
                      ELSE [msgs |-> Look(b, k - 1).msgs \o s[k - 1 + m].msgs, at |-> s[k - 1 + m].at]
             t == [i \in (k - 1)..n |-> IF i = k - 1 THEN first ELSE s[i]]
  <2>3. m \in Nat /\ k - 1 + m <= n
    BY <1>2, <2>1
  <2>4. \A i \in k..n : t[i] = s[i] /\ i \in (k - 1)..n
    BY <1>1, <2>1
  <2>5. t[k - 1] = first
    BY <1>1, <2>1
  <2>6. t = [i \in (k - 1)..n |-> t[i]]
    OBVIOUS
  <2> HIDE DEF t
  <2>7. t[k - 1] = Here(b, k - 1, t)
    <3>1. CASE m = 0
      BY <2>5, <3>1 DEF Here
    <3>2. CASE m # 0
      <4>1. k - 1 + m \in k..n
        BY <1>1, <2>1, <2>3, <3>2
      <4>2. t[k - 1 + m] = s[k - 1 + m]
        BY <2>4, <4>1
      <4> QED
        BY <2>5, <3>2, <4>2 DEF Here
    <3> QED
      BY <3>1, <3>2
  <2>8. ASSUME NEW i \in k..n PROVE t[i] = Here(b, i, t)
    <3> DEFINE h == Look(b, i).move
    <3>1. i \in 1..n
      BY <1>1, <2>1
    <3>2. h \in Nat /\ i + h <= n
      BY <1>2, <3>1
    <3>3. s[i] = Here(b, i, s) /\ t[i] = s[i]
      BY <2>2, <2>4
    <3>4. i + h \in k..n
      BY <1>1, <2>1, <3>1, <3>2
    <3>5. t[i + h] = s[i + h]
      BY <2>4, <3>4
    <3> QED
      BY <3>3, <3>5 DEF Here
  <2>9. \A i \in (k - 1)..n : i = k - 1 \/ i \in k..n
    BY <1>1, <2>1
  <2>10. From(k - 1)
    BY <2>6, <2>7, <2>8, <2>9
  <2> HIDE DEF From
  <2> QED
    BY <2>1, <2>10
<1> HIDE DEF K, From
<1>5. 1 \in K
  <2>1. K \in SUBSET Nat /\ K # {}
    BY <1>1, <1>3 DEF K
  <2>2. Min(K) \in K /\ \A y \in K : Min(K) <= y
    BY <2>1, LowestIs
  <2>3. Min(K) \in 1..n
    BY <2>2 DEF K
  <2>4. SUFFICES ASSUME Min(K) # 1 PROVE FALSE
    BY <2>2
  <2>5. Min(K) - 1 \in K
    BY <1>4, <2>2, <2>4
  <2> QED
    BY <1>1, <2>2, <2>3, <2>5
<1>6. \E s : s = [i \in 1..n |-> s[i]] /\ \A i \in 1..n : s[i] = Here(b, i, s)
  BY <1>5 DEF K, From
<1> DEFINE G(s) == [i \in 1..n |-> LET l == Look(b, i)
                      IN IF l.move = 0 THEN [msgs |-> <<>>, at |-> i]
                         ELSE LET later == s[i + l.move]
                              IN [msgs |-> l.msgs \o later.msgs, at |-> later.at]]
<1>7. \A s : \A i \in 1..n : G(s)[i] = Here(b, i, s)
  BY DEF Here
<1>8. \A s : DOMAIN G(s) = 1..n /\ G(s) = [i \in 1..n |-> G(s)[i]]
  OBVIOUS
<1>9. Scan(b) = CHOOSE s : s = G(s)
  BY Zenon DEF Scan, n
<1> HIDE DEF G
<1>10. \E s : s = G(s)
  <2>1. PICK s : s = [i \in 1..n |-> s[i]] /\ \A i \in 1..n : s[i] = Here(b, i, s)
    BY <1>6
  <2>2. s = G(s)
    BY <1>7, <1>8, <2>1
  <2> QED
    BY <2>2
<1>11. Scan(b) = G(Scan(b))
  BY <1>9, <1>10
<1>12. \A i \in 1..n : Scan(b)[i] = Here(b, i, Scan(b))
  <2> DEFINE f == Scan(b)
  <2> HIDE DEF f
  <2> SUFFICES ASSUME NEW i \in 1..n PROVE f[i] = Here(b, i, f)
    BY DEF f
  <2>1. f = G(f)
    BY <1>11 DEF f
  <2>2. G(f)[i] = Here(b, i, f)
    BY <1>7
  <2> QED
    BY <2>1, <2>2
<1> QED
  BY <1>12 DEF n

-------------------------------------------------------------------------------
\* What holds of a position when it holds of those behind it, holds of all.
LEMMA Backwards ==
  ASSUME NEW n \in Nat, NEW K, \A i \in 1..n : (\A j \in (i + 1)..n : j \in K) => i \in K
  PROVE  \A i \in 1..n : i \in K
<1> DEFINE B == {i \in 1..n : i \notin K}
<1>1. SUFFICES ASSUME B # {} PROVE FALSE
  OBVIOUS
<1>2. B \in SUBSET Int /\ IsFiniteSet(B)
  <2>1. IsFiniteSet(1..n) /\ B \subseteq 1..n /\ 1..n \subseteq Int
    BY FS_Interval
  <2> QED
    BY <2>1, FS_Subset
<1>3. Max(B) \in B /\ \A y \in B : Max(B) >= y
  BY <1>1, <1>2, HighestOf
<1> DEFINE m == Max(B)
<1>4. m \in 1..n /\ m \notin K
  BY <1>3
<1>5. \A j \in (m + 1)..n : j \in K
  <2> TAKE j \in (m + 1)..n
  <2>1. j \in 1..n /\ ~(m >= j)
    BY <1>4
  <2> QED
    BY <1>3, <2>1
<1> QED
  BY <1>4, <1>5

\* What is found from a position on, told by what the scan does there.
LEMMA HereIs ==
  ASSUME NEW b, NEW i, NEW s
  PROVE  IF Look(b, i).move = 0
         THEN Here(b, i, s).msgs = <<>> /\ Here(b, i, s).at = i
         ELSE /\ Here(b, i, s).msgs = Look(b, i).msgs \o s[i + Look(b, i).move].msgs
              /\ Here(b, i, s).at = s[i + Look(b, i).move].at
<1>1. CASE Look(b, i).move = 0
  <2>1. Here(b, i, s) = [msgs |-> <<>>, at |-> i]
    BY <1>1 DEF Here
  <2> QED
    BY <1>1, <2>1
<1>2. CASE Look(b, i).move # 0
  <2> DEFINE x == Look(b, i).msgs \o s[i + Look(b, i).move].msgs
             y == s[i + Look(b, i).move].at
  <2>1. Here(b, i, s) = [msgs |-> x, at |-> y]
    BY <1>2 DEF Here
  <2> HIDE DEF x, y
  <2>2. Here(b, i, s).msgs = x /\ Here(b, i, s).at = y
    BY <2>1
  <2> QED
    BY <1>2, <2>2 DEF x, y
<1> QED
  BY <1>1, <1>2

\* Where the scan ends it waits, not before the position it was at.
LEMMA ScanEnds ==
  ASSUME NEW b, IsList(b), NEW i \in 1..(Len(b) + 1)
  PROVE  /\ IsList(Scan(b)[i].msgs)
         /\ Scan(b)[i].at \in i..(Len(b) + 1) /\ Look(b, Scan(b)[i].at).move = 0
<1> DEFINE n == Len(b) + 1
           s == Scan(b)
           K == {h \in 1..n : IsList(s[h].msgs) /\ s[h].at \in h..n /\ Look(b, s[h].at).move = 0}
<1>1. n \in Nat
  BY Lists
<1> HIDE DEF s, n
<1>2. ASSUME NEW h \in 1..n, \A j \in (h + 1)..n : j \in K PROVE h \in K
  <2> DEFINE m == Look(b, h).move
  <2>1. m \in Nat /\ IsList(Look(b, h).msgs) /\ h + m <= n
    BY LookIs DEF n
  <2>2. s[h] = Here(b, h, s)
    BY ScanIs DEF s, n
  <2>3. CASE m = 0
    <3>1. s[h] = [msgs |-> <<>>, at |-> h]
      BY <2>2, <2>3 DEF Here
    <3> QED
      BY <1>1, <2>3, <3>1, Lists
  <2>4. CASE m # 0
    <3>1. h + m \in (h + 1)..n
      BY <1>1, <2>1, <2>4
    <3>2. IsList(s[h + m].msgs) /\ s[h + m].at \in (h + m)..n /\ Look(b, s[h + m].at).move = 0
      BY <1>2, <3>1
    <3>3. s[h] = [msgs |-> Look(b, h).msgs \o s[h + m].msgs, at |-> s[h + m].at]
      BY <2>2, <2>4 DEF Here
    <3>4. IsList(s[h].msgs)
      BY <2>1, <3>2, <3>3, Joining
    <3>5. s[h].at \in h..n /\ Look(b, s[h].at).move = 0
      BY <1>1, <2>1, <3>2, <3>3
    <3> QED
      BY <3>4, <3>5
  <2> QED
    BY <2>3, <2>4
<1> HIDE DEF K
<1>3. \A h \in 1..n : h \in K
  BY <1>1, <1>2, Backwards
<1> QED
  BY <1>3 DEF K, s, n

\* The scan of a stretch at the end finds what the whole scan finds there.
LEMMA ShiftScan ==
  ASSUME NEW b, IsList(b), NEW d, IsList(d), NEW k \in Nat, k + Len(b) = Len(d),
         \A j \in 1..Len(b) : d[j + k] = b[j], NEW i \in 1..(Len(b) + 1)
  PROVE  Scan(b)[i].msgs = Scan(d)[i + k].msgs
<1> DEFINE n == Len(b) + 1
           s == Scan(b)
           t == Scan(d)
           K == {h \in 1..n : s[h].msgs = t[h + k].msgs}
<1>1. n \in Nat /\ Len(d) \in Nat /\ Len(b) \in Nat
  BY Lists
<1> HIDE DEF s, t, K
<1>2. ASSUME NEW h \in 1..n, \A j \in (h + 1)..n : j \in K PROVE h \in K
  <2> DEFINE m == Look(b, h).move
  <2>1. m \in Nat /\ h + m <= n
    BY LookIs DEF n
  <2>2. s[h] = Here(b, h, s)
    BY ScanIs DEF s, n
  <2>3. h + k \in 1..(Len(d) + 1)
    BY <1>1
  <2>4. t[h + k] = Here(d, h + k, t)
    BY <2>3, ScanIs DEF t
  <2>5. Look(d, h + k) = Look(b, h)
    <3>1. k + Len(b) <= Len(d) /\ h \in 1..(Len(b) + 1)
      BY <1>1 DEF n
    <3> QED
      BY <3>1, LookSame
  <2>6. CASE m = 0
    BY <2>2, <2>4, <2>5, <2>6 DEF Here, K
  <2>7. CASE m # 0
    <3>1. h + m \in (h + 1)..n /\ h + k + m = h + m + k
      BY <1>1, <2>1, <2>7
    <3>2. s[h + m].msgs = t[h + k + m].msgs
      BY <1>2, <3>1 DEF K
    <3>3. s[h].msgs = Look(b, h).msgs \o s[h + m].msgs
      BY <2>2, <2>7, HereIs
    <3>4. t[h + k].msgs = Look(b, h).msgs \o t[h + k + m].msgs
      <4>1. Look(d, h + k).move = m /\ Look(d, h + k).msgs = Look(b, h).msgs
        BY <2>5
      <4>2. Here(d, h + k, t).msgs = Look(d, h + k).msgs \o t[h + k + Look(d, h + k).move].msgs
        BY <2>7, <4>1, HereIs
      <4> QED
        BY <2>4, <4>1, <4>2
    <3> QED
      BY <3>2, <3>3, <3>4 DEF K
  <2> QED
    BY <2>6, <2>7
<1>3. \A h \in 1..n : h \in K
  BY <1>1, <1>2, Backwards
<1> QED
  BY <1>3 DEF K, s, t

\* Bytes that follow do not change what was found, and are scanned from where it ended.
LEMMA CutScan ==
  ASSUME NEW b, IsList(b), NEW d, IsList(d), Len(b) <= Len(d),
         \A j \in 1..Len(b) : d[j] = b[j], NEW i \in 1..(Len(b) + 1)
  PROVE  Scan(d)[i].msgs = Scan(b)[i].msgs \o Scan(d)[Scan(b)[i].at].msgs
<1> DEFINE n == Len(b) + 1
           s == Scan(b)
           t == Scan(d)
           K == {h \in 1..n : t[h].msgs = s[h].msgs \o t[s[h].at].msgs}
<1>1. n \in Nat /\ Len(d) \in Nat /\ Len(b) \in Nat /\ \A h \in 1..n : h + 0 = h /\ h \in 1..(Len(d) + 1)
  BY Lists
<1> HIDE DEF s, t, K
<1>2. ASSUME NEW h \in 1..n, \A j \in (h + 1)..n : j \in K PROVE h \in K
  <2> DEFINE m == Look(b, h).move
  <2>1. m \in Nat /\ h + m <= n /\ IsList(Look(b, h).msgs)
    BY LookIs DEF n
  <2>2. s[h] = Here(b, h, s)
    BY ScanIs DEF s, n
  <2>3. t[h] = Here(d, h, t)
    BY <1>1, ScanIs DEF t
  <2>4. CASE m = 0
    <3>1. s[h].msgs = <<>> /\ s[h].at = h
      BY <2>2, <2>4 DEF Here
    <3>2. IsList(t[h].msgs)
      BY <1>1, ScanEnds DEF t
    <3>3. <<>> \o t[h].msgs = t[h].msgs
      BY <3>2, JoinedEmpty
    <3> QED
      BY <3>1, <3>3 DEF K
  <2>5. CASE m # 0
    <3>1. Look(d, h) = Look(b, h)
      <4>1. \A j \in 1..Len(b) : j + 0 = j
        OBVIOUS
      <4>2. Look(d, h + 0) = Look(b, h)
        BY <1>1, <2>5, <4>1, LookSame
      <4> QED
        BY <1>1, <4>2
    <3>2. h + m \in (h + 1)..n /\ h + m \in 1..n
      BY <1>1, <2>1, <2>5
    <3>3. t[h + m].msgs = s[h + m].msgs \o t[s[h + m].at].msgs
      BY <1>2, <3>2 DEF K
    <3>4. /\ s[h].msgs = Look(b, h).msgs \o s[h + m].msgs /\ s[h].at = s[h + m].at
          /\ t[h].msgs = Look(b, h).msgs \o t[h + m].msgs
      <4>1. s[h].msgs = Look(b, h).msgs \o s[h + m].msgs /\ s[h].at = s[h + m].at
        BY <2>2, <2>5, HereIs
      <4>2. t[h].msgs = Look(b, h).msgs \o t[h + m].msgs
        BY <2>3, <2>5, <3>1, HereIs
      <4> QED
        BY <4>1, <4>2
    <3>5. IsList(s[h + m].msgs) /\ s[h + m].at \in (h + m)..n
      BY <3>2, ScanEnds DEF s
    <3>6. IsList(t[s[h + m].at].msgs)
      <4>1. s[h + m].at \in 1..(Len(d) + 1)
        BY <1>1, <3>2, <3>5
      <4> QED
        BY <4>1, ScanEnds DEF t
    <3>7. (Look(b, h).msgs \o s[h + m].msgs) \o t[s[h + m].at].msgs
            = Look(b, h).msgs \o (s[h + m].msgs \o t[s[h + m].at].msgs)
      <4> DEFINE x == Look(b, h).msgs
                 y == s[h + m].msgs
                 z == t[s[h + m].at].msgs
      <4>1. IsList(x) /\ IsList(y) /\ IsList(z)
        BY <2>1, <3>5, <3>6
      <4> HIDE DEF x, y, z
      <4>2. (x \o y) \o z = x \o (y \o z)
        BY SMTT(30), <4>1, JoinedThree
      <4> QED
        BY <4>2 DEF x, y, z
    <3> QED
      BY <3>3, <3>4, <3>7 DEF K
  <2> QED
    BY <2>4, <2>5
<1>3. \A h \in 1..n : h \in K
  BY <1>1, <1>2, Backwards
<1> QED
  BY <1>3 DEF K, s, t

-------------------------------------------------------------------------------
(* Messages told in their order.                                               *)

\* The members of S below x.
Below(x, S) == {y \in S : y < x}
\* The messages of q that S numbers, in their order.
Delivered(S, q) == LET at == InOrder(S, <) IN [k \in DOMAIN at |-> q[at[k]]]

\* A place in a finite set of numbers is one number's.
LEMMA OneAtPlace ==
  ASSUME NEW S \in SUBSET Int, IsFiniteSet(S), NEW x \in S, NEW y \in S,
         Cardinality(Below(x, S)) = Cardinality(Below(y, S))
  PROVE  x = y
<1>1. ASSUME NEW a \in S, NEW b \in S, a < b
      PROVE  Cardinality(Below(a, S)) # Cardinality(Below(b, S))
  <2>1. /\ Below(a, S) \subseteq Below(b, S) /\ a \in Below(b, S) /\ a \notin Below(a, S)
        /\ Below(b, S) \subseteq S
    <3>1. a \in Int /\ b \in Int /\ \A z \in S : z \in Int
      OBVIOUS
    <3>2. ~(a < a) /\ \A z \in S : z < a => z < b
      BY <1>1, <3>1
    <3> QED
      BY <1>1, <3>2 DEF Below
  <2>2. IsFiniteSet(Below(b, S))
    BY <2>1, FS_Subset
  <2> QED
    BY <2>1, <2>2, FS_Subset
<1>2. x < y \/ y < x \/ x = y
  OBVIOUS
<1> QED
  BY <1>1, <1>2

\* Who stands at a place has as many below it.
LEMMA PlaceIs ==
  ASSUME NEW S \in SUBSET Int, IsFiniteSet(S)
  PROVE  /\ DOMAIN InOrder(S, <) = 1..Cardinality(S) /\ Cardinality(S) \in Nat
         /\ \A k \in 1..Cardinality(S) :
              InOrder(S, <)[k] \in S /\ Cardinality(Below(InOrder(S, <)[k], S)) = k - 1
<1> DEFINE R == Lower(S)
           n == Cardinality(S)
           f == InOrder(S, <)
<1>1. Orders(R, S)
  BY DEF Orders, Lower
<1>2. \A x \in S : Below(x, S) = Ahead(x, R, S)
  BY DEF Ahead, Lower, Below
<1>3. DOMAIN f = 1..n
  BY DEF InOrder
<1>4. \A k \in 1..n : f[k] = CHOOSE x \in S : Cardinality({y \in S : y < x}) = k - 1
  BY DEF InOrder
<1>5. \A k \in 1..n : f[k] = CHOOSE x \in S : Cardinality(Below(x, S)) = k - 1
  BY <1>4 DEF Below
<1> HIDE DEF f, R
<1>6. \A k \in 1..n : f[k] \in S /\ Cardinality(Below(f[k], S)) = k - 1
  <2> TAKE k \in 1..n
  <2>1. \E x \in S : Cardinality(Below(x, S)) = k - 1
    BY <1>1, <1>2, RankedIs
  <2> QED
    BY <1>5, <2>1
<1>7. n \in Nat
  BY FS_CardinalityType
<1> QED
  BY <1>3, <1>6, <1>7 DEF f

\* What is told is a message for each member.
LEMMA DeliveredIs ==
  ASSUME NEW S \in SUBSET Int, IsFiniteSet(S), NEW q
  PROVE  /\ IsList(Delivered(S, q)) /\ Len(Delivered(S, q)) = Cardinality(S) /\ Cardinality(S) \in Nat
         /\ \A k \in 1..Cardinality(S) : Delivered(S, q)[k] = q[InOrder(S, <)[k]]
<1> DEFINE at == InOrder(S, <)
           n == Cardinality(S)
           t == Delivered(S, q)
<1>1. DOMAIN at = 1..n /\ n \in Nat
  BY PlaceIs
<1>2. t = [k \in DOMAIN at |-> q[at[k]]]
  BY DEF Delivered
<1> HIDE DEF at, n, t
<1>3. t = [k \in 1..n |-> t[k]] /\ \A k \in 1..n : t[k] = q[at[k]]
  BY <1>1, <1>2
<1>4. IsList(t) /\ Len(t) = n
  BY <1>1, <1>3, ListOf
<1> QED
  BY <1>1, <1>3, <1>4 DEF at, n, t

\* Messages told up to one, and then those after it.
LEMMA DeliveredJoined ==
  ASSUME NEW A \in SUBSET Int, IsFiniteSet(A), NEW B \in SUBSET Int, IsFiniteSet(B),
         \A a \in A, b \in B : a < b, NEW q
  PROVE  Delivered(A \cup B, q) = Delivered(A, q) \o Delivered(B, q)
<1> DEFINE S == A \cup B
           m == Cardinality(A)
           n == Cardinality(B)
           f == InOrder(A, <)
           g == InOrder(B, <)
           h == InOrder(S, <)
<1>1. S \in SUBSET Int /\ IsFiniteSet(S) /\ Cardinality(S) = m + n /\ m \in Nat /\ n \in Nat
  <2>1. A \cap B = {}
    <3>1. \A x \in A \cap B : x < x /\ x \in Int
      OBVIOUS
    <3> QED
      BY <3>1
  <2>2. m \in Nat /\ n \in Nat
    BY FS_CardinalityType
  <2>3. IsFiniteSet(S)
    BY FS_Union
  <2>4. Cardinality(S) = m + n - 0
    BY ZenonT(30), <2>1, <2>2, FS_Union, FS_EmptySet
  <2> QED
    BY <2>2, <2>3, <2>4
<1>2. /\ \A k \in 1..m : f[k] \in A /\ Cardinality(Below(f[k], A)) = k - 1
      /\ \A k \in 1..n : g[k] \in B /\ Cardinality(Below(g[k], B)) = k - 1
      /\ \A k \in 1..(m + n) : h[k] \in S /\ Cardinality(Below(h[k], S)) = k - 1
  <2>1. \A k \in 1..m : f[k] \in A /\ Cardinality(Below(f[k], A)) = k - 1
    BY PlaceIs
  <2>2. \A k \in 1..n : g[k] \in B /\ Cardinality(Below(g[k], B)) = k - 1
    BY PlaceIs
  <2>3. \A k \in 1..Cardinality(S) : h[k] \in S /\ Cardinality(Below(h[k], S)) = k - 1
    <3> HIDE DEF S
    <3> QED
      BY <1>1, PlaceIs
  <2> QED
    BY <1>1, <2>1, <2>2, <2>3
<1> HIDE DEF f, g, h
<1>3. ASSUME NEW k \in 1..m PROVE h[k] = f[k] /\ k \in 1..(m + n)
  <2>1. k \in 1..(m + n)
    BY <1>1
  <2>2. f[k] \in A /\ f[k] \in S
    BY <1>2
  <2>3. Below(f[k], S) = Below(f[k], A)
    <3>1. \A y \in B : ~(y < f[k])
      <4> TAKE y \in B
      <4>1. f[k] < y /\ f[k] \in Int /\ y \in Int
        BY <2>2
      <4> QED
        BY <4>1
    <3> QED
      BY <3>1 DEF Below
  <2>4. Cardinality(Below(f[k], S)) = Cardinality(Below(h[k], S)) /\ h[k] \in S
    BY <1>2, <2>1, <2>3
  <2> HIDE DEF S
  <2> QED
    BY <1>1, <2>1, <2>2, <2>4, OneAtPlace
<1>4. ASSUME NEW k \in 1..n PROVE h[m + k] = g[k] /\ m + k \in 1..(m + n)
  <2>1. m + k \in 1..(m + n)
    BY <1>1
  <2>2. g[k] \in B /\ g[k] \in S
    BY <1>2
  <2>3. Below(g[k], S) = A \cup Below(g[k], B)
    BY <2>2 DEF Below
  <2>4. A \cap Below(g[k], B) = {}
    <3>1. A \cap B = {}
      <4>1. \A x \in A \cap B : x < x /\ x \in Int
        OBVIOUS
      <4> QED
        BY <4>1
    <3> QED
      BY <3>1 DEF Below
  <2>5. IsFiniteSet(Below(g[k], B))
    BY FS_Subset DEF Below
  <2>6. Cardinality(Below(g[k], S)) = m + (k - 1)
    <3>1. Cardinality(Below(g[k], B)) = k - 1
      BY <1>2
    <3> DEFINE X == Below(g[k], B)
    <3>2. IsFiniteSet(X) /\ Cardinality(X) = k - 1 /\ Cardinality(A \cap X) = 0
      BY <2>4, <2>5, <3>1, FS_EmptySet
    <3> HIDE DEF X
    <3>3. Cardinality(A \cup X) = Cardinality(A) + Cardinality(X) - Cardinality(A \cap X)
      BY <3>2, FS_Union
    <3>4. Cardinality(A \cup X) = m + (k - 1)
      BY <1>1, <3>2, <3>3
    <3> QED
      BY <2>3, <3>4 DEF X
  <2>7. Cardinality(Below(h[m + k], S)) = Cardinality(Below(g[k], S)) /\ h[m + k] \in S
    BY SMTT(30), <1>1, <1>2, <2>1, <2>6
  <2> HIDE DEF S
  <2> QED
    BY <1>1, <2>1, <2>2, <2>7, OneAtPlace
<1> DEFINE t == Delivered(S, q)
           u == Delivered(A, q)
           v == Delivered(B, q)
<1>5. IsList(t) /\ Len(t) = m + n /\ \A k \in 1..(m + n) : t[k] = q[h[k]]
  <2> HIDE DEF S
  <2>1. /\ IsList(t) /\ Len(t) = Cardinality(S)
        /\ \A k \in 1..Cardinality(S) : t[k] = q[InOrder(S, <)[k]]
    BY <1>1, DeliveredIs
  <2> QED
    BY <1>1, <2>1 DEF h
<1>6. IsList(u) /\ Len(u) = m /\ \A k \in 1..m : u[k] = q[f[k]]
  BY DeliveredIs DEF f
<1>7. IsList(v) /\ Len(v) = n /\ \A k \in 1..n : v[k] = q[g[k]]
  BY DeliveredIs DEF g
<1> HIDE DEF t, u, v, m, n
<1>8. /\ IsList(u \o v) /\ Len(u \o v) = m + n
      /\ \A k \in 1..m : (u \o v)[k] = u[k]
      /\ \A k \in (m + 1)..(m + n) : (u \o v)[k] = v[k - m]
  <2>1. /\ IsList(u \o v) /\ Len(u \o v) = Len(u) + Len(v)
        /\ \A k \in 1..Len(u) : (u \o v)[k] = u[k]
        /\ \A k \in (Len(u) + 1)..(Len(u) + Len(v)) : (u \o v)[k] = v[k - Len(u)]
    <3>1. IsList(u) /\ IsList(v)
      BY <1>6, <1>7
    <3> QED
      BY <3>1, Joining
  <2> QED
    BY <1>6, <1>7, <2>1
<1>9. ASSUME NEW k \in 1..(m + n) PROVE t[k] = (u \o v)[k]
  <2>1. CASE k <= m
    <3>1. k \in 1..m
      BY <1>1, <2>1
    <3> QED
      BY <1>3, <1>5, <1>6, <1>8, <3>1
  <2>2. CASE ~(k <= m)
    <3>1. k - m \in 1..n /\ k \in (m + 1)..(m + n) /\ m + (k - m) = k
      BY <1>1, <2>2
    <3>2. h[k] = g[k - m]
      BY <1>4, <3>1
    <3> QED
      BY <1>5, <1>7, <1>8, <3>1, <3>2
  <2> QED
    BY <2>1, <2>2
<1>10. t = u \o v
  BY <1>1, <1>5, <1>8, <1>9, SameList
<1> QED
  BY <1>10 DEF t, u, v

\* No message, and one.
LEMMA DeliveredFew == ASSUME NEW q PROVE Delivered({}, q) = <<>> /\ \A j \in Int : Delivered({j}, q) = <<q[j]>>
<1>1. Delivered({}, q) = <<>>
  <2>1. IsList(Delivered({}, q)) /\ Len(Delivered({}, q)) = 0
    <3>1. {} \in SUBSET Int /\ IsFiniteSet({}) /\ Cardinality({}) = 0
      BY FS_EmptySet
    <3> QED
      BY <3>1, DeliveredIs
  <2>2. IsList(<<>>) /\ Len(<<>>) = 0
    BY Lists
  <2>3. \A i \in 1..0 : Delivered({}, q)[i] = <<>>[i]
    OBVIOUS
  <2> QED
    BY <2>1, <2>2, <2>3, SameList
<1>2. ASSUME NEW j \in Int PROVE Delivered({j}, q) = <<q[j]>>
  <2>1. {j} \in SUBSET Int /\ IsFiniteSet({j}) /\ Cardinality({j}) = 1
    BY FS_Singleton
  <2>2. InOrder({j}, <)[1] = j
    <3>1. 1 \in 1..Cardinality({j})
      BY <2>1
    <3>2. InOrder({j}, <)[1] \in {j}
      BY <2>1, <3>1, PlaceIs
    <3> QED
      BY <3>2
  <2>3. IsList(Delivered({j}, q)) /\ Len(Delivered({j}, q)) = 1 /\ Delivered({j}, q)[1] = q[j]
    <3> DEFINE S == {j}
    <3>1. Cardinality(S) = 1
      BY <2>1
    <3> HIDE DEF S
    <3>2. IsList(Delivered(S, q)) /\ Len(Delivered(S, q)) = 1 /\ Delivered(S, q)[1] = q[InOrder(S, <)[1]]
      <4>1. 1 \in 1..Cardinality(S)
        BY <3>1
      <4> QED
        BY <2>1, <3>1, <4>1, DeliveredIs DEF S
    <3> QED
      BY <2>2, <3>2 DEF S
  <2>4. <<q[j]>> \in Seq({q[j]}) /\ Len(<<q[j]>>) = 1 /\ <<q[j]>>[1] = q[j]
    OBVIOUS
  <2>5. IsList(<<q[j]>>)
    BY <2>4, Lists
  <2>6. \A i \in 1..1 : i = 1
    OBVIOUS
  <2>7. \A i \in 1..Len(Delivered({j}, q)) : Delivered({j}, q)[i] = <<q[j]>>[i]
    BY <2>3, <2>4, <2>6
  <2> QED
    BY <2>3, <2>4, <2>5, <2>7, SameList
<1> QED
  BY <1>1, <1>2

-------------------------------------------------------------------------------
(* The stream of framed messages.                                              *)

\* A message as it is framed.
LEMMA EncodeIs ==
  ASSUME NEW m \in Traffic
  PROVE  /\ Len(m[2]) \in 0..MaxPayload /\ m = <<m[1], m[2]>>
         /\ IsList(Encode(m)) /\ Len(Encode(m)) = 6 + Len(m[2])
         /\ Encode(m)[1] = Magic0 /\ Encode(m)[2] = Magic1 /\ Encode(m)[3] = Ver
         /\ Encode(m)[4] = m[1] /\ Encode(m)[5] = Len(m[2])
         /\ Encode(m)[6 + Len(m[2])] = CRC16(SubSeq(Encode(m), 3, 5 + Len(m[2])))
         /\ SubSeq(Encode(m), 6, 5 + Len(m[2])) = m[2]
<1> DEFINE p == m[2]
           n == Len(p)
           head == <<Ver, m[1], n>>
           body == head \o p
           c == CRC16(body)
           magic == <<Magic0, Magic1>>
           last == <<c>>
           e == (magic \o body) \o last
<1>1. m \in Nat \X Seq(Nat) /\ n <= MaxPayload /\ MaxPayload \in Nat
  BY WireAssumption
<1>2. p \in Seq(Nat) /\ m = <<m[1], p>> /\ n \in 0..MaxPayload /\ n \in Nat
  <2>1. m[2] \in Seq(Nat) /\ m = <<m[1], m[2]>>
    BY <1>1
  <2>2. Len(m[2]) \in Nat
    BY <2>1
  <2> QED
    BY <1>1, <2>1, <2>2
<1>3. IsList(p)
  BY <1>2, Lists
<1> HIDE DEF n, p
<1>4. IsList(head) /\ Len(head) = 3 /\ head[1] = Ver /\ head[2] = m[1] /\ head[3] = n
  <2>1. head \in Seq({Ver, m[1], n})
    OBVIOUS
  <2> QED
    BY <2>1, Lists
<1>5. IsList(magic) /\ Len(magic) = 2 /\ magic[1] = Magic0 /\ magic[2] = Magic1
  <2>1. magic \in Seq({Magic0, Magic1})
    OBVIOUS
  <2> QED
    BY <2>1, Lists
<1>6. e = Encode(m)
  BY DEF Encode, n, p
<1> HIDE DEF c
<1>7. IsList(last) /\ Len(last) = 1 /\ last[1] = c
  <2>1. last \in Seq({c})
    OBVIOUS
  <2> QED
    BY <2>1, Lists
<1> HIDE DEF head, magic, last
<1>8. /\ IsList(body) /\ Len(body) = 3 + n
      /\ \A i \in 1..3 : body[i] = head[i]
      /\ \A i \in 4..(3 + n) : body[i] = p[i - 3]
  <2>1. /\ IsList(body) /\ Len(body) = Len(head) + Len(p)
        /\ \A i \in 1..Len(head) : body[i] = head[i]
        /\ \A i \in (Len(head) + 1)..(Len(head) + Len(p)) : body[i] = p[i - Len(head)]
    BY <1>3, <1>4, Joining
  <2> QED
    BY <1>2, <1>4, <2>1 DEF n
<1> HIDE DEF body
<1> DEFINE start == magic \o body
<1>9. /\ IsList(start) /\ Len(start) = 5 + n
      /\ \A i \in 1..2 : start[i] = magic[i]
      /\ \A i \in 3..(5 + n) : start[i] = body[i - 2]
  <2>1. /\ IsList(start) /\ Len(start) = Len(magic) + Len(body)
        /\ \A i \in 1..Len(magic) : start[i] = magic[i]
        /\ \A i \in (Len(magic) + 1)..(Len(magic) + Len(body)) : start[i] = body[i - Len(magic)]
    BY ZenonT(30), <1>5, <1>8, Joining
  <2> QED
    BY <1>2, <1>5, <1>8, <2>1
<1> HIDE DEF start
<1>10. /\ IsList(e) /\ Len(e) = 6 + n
       /\ \A i \in 1..(5 + n) : e[i] = start[i]
       /\ e[6 + n] = c
  <2>1. /\ IsList(start \o last) /\ Len(start \o last) = Len(start) + Len(last)
        /\ \A i \in 1..Len(start) : (start \o last)[i] = start[i]
        /\ \A i \in (Len(start) + 1)..(Len(start) + Len(last)) :
             (start \o last)[i] = last[i - Len(start)]
    BY <1>7, <1>9, Joining
  <2>2. e = start \o last
    BY DEF start
  <2> HIDE DEF e
  <2>3. 6 + n \in (5 + n + 1)..(5 + n + 1) /\ (6 + n) - (5 + n) = 1
    BY <1>2
  <2>4. e[6 + n] = last[1]
    BY <1>7, <1>9, <2>1, <2>2, <2>3
  <2> QED
    BY SMTT(30), <1>2, <1>7, <1>9, <2>1, <2>2, <2>4
<1> HIDE DEF e
<1>11. /\ e[1] = Magic0 /\ e[2] = Magic1 /\ e[3] = Ver /\ e[4] = m[1] /\ e[5] = n
       /\ \A i \in 3..(5 + n) : e[i] = body[i - 2]
       /\ \A i \in 6..(5 + n) : e[i] = p[i - 5]
  <2>1. \A i \in 3..(5 + n) : e[i] = body[i - 2]
    BY <1>2, <1>9, <1>10
  <2>2. \A i \in 6..(5 + n) : e[i] = p[i - 5]
    <3> TAKE i \in 6..(5 + n)
    <3>1. i \in 3..(5 + n) /\ i - 2 \in 4..(3 + n) /\ (i - 2) - 3 = i - 5
      BY <1>2
    <3> QED
      BY <1>8, <2>1, <3>1
  <2>3. e[1] = Magic0 /\ e[2] = Magic1
    <3>1. 1 \in 1..2 /\ 2 \in 1..2 /\ 1 \in 1..(5 + n) /\ 2 \in 1..(5 + n)
      BY <1>2
    <3>2. start[1] = magic[1] /\ start[2] = magic[2]
      BY <1>9, <3>1
    <3> QED
      BY <1>5, <1>10, <3>1, <3>2
  <2>4. e[3] = Ver /\ e[4] = m[1] /\ e[5] = n
    <3>1. \A i \in 3..5 : i \in 3..(5 + n) /\ i - 2 \in 1..3
      BY <1>2
    <3>2. \A i \in 3..5 : e[i] = head[i - 2]
      BY <1>8, <2>1, <3>1
    <3> QED
      BY <1>4, <3>2
  <2> QED
    BY <2>1, <2>2, <2>3, <2>4
<1>12. SubSeq(e, 3, 5 + n) = body
  <2> DEFINE x == SubSeq(e, 3, 5 + n)
  <2>1. IsList(x) /\ Len(x) = (5 + n) - 3 + 1 /\ \A i \in 1..((5 + n) - 3 + 1) : x[i] = e[3 + i - 1]
    <3>1. 3 \in 1..(Len(e) + 1) /\ 5 + n \in (3 - 1)..Len(e)
      BY <1>2, <1>10
    <3> QED
      BY <1>10, <3>1, Stretch
  <2> HIDE DEF x
  <2>2. Len(x) = Len(body)
    BY <1>2, <1>8, <2>1
  <2>3. \A i \in 1..Len(x) : x[i] = body[i]
    <3> TAKE i \in 1..Len(x)
    <3>1. i \in 1..((5 + n) - 3 + 1) /\ 3 + i - 1 \in 3..(5 + n) /\ (3 + i - 1) - 2 = i
      BY <1>2, <1>8, <2>1, <2>2
    <3> QED
      BY <1>11, <2>1, <3>1
  <2> QED
    BY <1>8, <2>1, <2>2, <2>3, SameList DEF x
<1>13. SubSeq(e, 6, 5 + n) = p
  <2> DEFINE x == SubSeq(e, 6, 5 + n)
  <2>1. IsList(x) /\ Len(x) = (5 + n) - 6 + 1 /\ \A i \in 1..((5 + n) - 6 + 1) : x[i] = e[6 + i - 1]
    <3>1. 6 \in 1..(Len(e) + 1) /\ 5 + n \in (6 - 1)..Len(e)
      BY <1>2, <1>10
    <3> QED
      BY <1>10, <3>1, Stretch
  <2> HIDE DEF x
  <2>2. Len(x) = Len(p)
    BY <1>2, <2>1 DEF n
  <2>3. \A i \in 1..Len(x) : x[i] = p[i]
    <3> TAKE i \in 1..Len(x)
    <3>1. n \in Nat /\ Len(x) = n
      BY <1>2, <2>1
    <3>2. i \in 1..((5 + n) - 6 + 1) /\ 6 + i - 1 \in 6..(5 + n) /\ (6 + i - 1) - 5 = i
      BY <3>1
    <3> QED
      BY <1>11, <2>1, <3>2
  <2> QED
    BY <1>3, <2>1, <2>2, <2>3, SameList DEF x
<1> QED
  BY <1>2, <1>6, <1>10, <1>11, <1>12, <1>13 DEF n, p, c

\* A whole frame is taken for what it is.
LEMMA LookWhole ==
  ASSUME NEW m \in Traffic, NEW d, IsList(d), NEW k \in Nat, k + Len(Encode(m)) <= Len(d),
         \A j \in 1..Len(Encode(m)) : d[j + k] = Encode(m)[j]
  PROVE  Look(d, k + 1) = [move |-> Len(Encode(m)), msgs |-> Message(m[1], m[2])]
<1> DEFINE e == Encode(m)
           n == Len(m[2])
<1>1. /\ n \in 0..MaxPayload /\ n \in Nat /\ IsList(e) /\ Len(e) = 6 + n
      /\ e[1] = Magic0 /\ e[2] = Magic1 /\ e[3] = Ver /\ e[4] = m[1] /\ e[5] = n
      /\ e[6 + n] = CRC16(SubSeq(e, 3, 5 + n)) /\ SubSeq(e, 6, 5 + n) = m[2]
  BY EncodeIs, WireAssumption
<1> HIDE DEF e, n
<1>2. 1 \in 1..(Len(e) + 1) /\ 1 + 4 = 5 /\ 1 + 2 = 3 /\ 1 + 3 = 4 /\ 1 + 1 = 2
  BY <1>1
<1>3. Magical(e, 1) /\ 1 + 4 <= Len(e) /\ ~(e[1 + 2] # Ver \/ e[1 + 4] \notin 0..MaxPayload)
  BY <1>1, <1>2 DEF Magical
<1>4. Look(e, 1) = Checked(e, 1, e[1 + 4])
  BY <1>1, <1>2, <1>3, LookCases
<1>5. Checked(e, 1, n) = [move |-> 6 + n, msgs |-> Message(m[1], m[2])]
  <2>1. /\ ~(1 + (6 + n) - 1 > Len(e)) /\ 1 + (6 + n) - 1 = 6 + n
        /\ 1 + 4 + n = 5 + n /\ 1 + 5 = 6
    BY <1>1
  <2> QED
    BY <1>1, <1>2, <2>1 DEF Checked
<1>6. Look(e, 1) = [move |-> 6 + n, msgs |-> Message(m[1], m[2])]
  BY <1>1, <1>2, <1>4, <1>5
<1>7. Look(d, 1 + k) = Look(e, 1)
  <2>1. Look(e, 1).move = 6 + n
    BY <1>6
  <2>2. Look(e, 1).move # 0 \/ k + Len(e) = Len(d)
    BY <1>1, <2>1
  <2>3. k + Len(e) <= Len(d) /\ \A j \in 1..Len(e) : d[j + k] = e[j]
    BY DEF e
  <2> QED
    BY <1>1, <1>2, <2>2, <2>3, LookSame
<1>8. 1 + k = k + 1
  OBVIOUS
<1> QED
  BY <1>1, <1>6, <1>7, <1>8 DEF e

-------------------------------------------------------------------------------
(* A stream made of the messages of q in their order, those in H damaged.      *)

\* Message j stands in s from p on, whole, and nowhere else.
Whole(s, p, j, q) ==
  /\ p + Len(Encode(q[j])) - 1 <= Len(s)
  /\ \A k \in 1..Len(s) : s[k].of = j <=> p <= k /\ k <= p + Len(Encode(q[j])) - 1
  /\ \A k \in 1..Len(Encode(q[j])) : s[p + k - 1].v = Encode(q[j])[k]
\* s is made of messages of q in their order; those not in H are whole in it.
Framed(s, q, H) ==
  /\ IsList(s)
  /\ \A i \in 1..Len(s) : s[i] = [v |-> s[i].v, of |-> s[i].of] /\ s[i].of \in DOMAIN q
  /\ \A i, k \in 1..Len(s) : i < k => s[i].of <= s[k].of
  /\ \A i \in 1..Len(s) : s[i].of \notin H => \E p \in 1..Len(s) : Whole(s, p, s[i].of, q)
\* A position at which no whole message is under way.
Outside(s, H, i) ==
  /\ i \in 1..(Len(s) + 1)
  /\ i \in 2..Len(s) => s[i].of \in H \/ s[i - 1].of # s[i].of
\* The messages yet to come from i on.
Yet(s, q, H, i) ==
  {j \in DOMAIN q : /\ j \notin H /\ ParsePayload(q[j][1], q[j][2])
                    /\ \E k \in i..Len(s) : s[k].of = j}
\* No byte of a message in H starts a frame.
Honest(s, H) == \A i \in 1..Len(s) : s[i].of \in H => Look(Bytes(s) \o Quiet, i).move = 1

\* The quiet is a sequence.
LEMMA QuietIs ==
  /\ IsList(Quiet) /\ Len(Quiet) = MaxPayload + 6
  /\ \A i \in 1..(MaxPayload + 6) : Quiet[i] = Magic1
<1>1. MaxPayload + 6 \in Nat
  BY WireAssumption
<1>2. Quiet = [i \in 1..(MaxPayload + 6) |-> Quiet[i]]
      /\ \A i \in 1..(MaxPayload + 6) : Quiet[i] = Magic1
  BY DEF Quiet
<1> QED
  BY <1>1, <1>2, ListOf

\* The bytes of a stream are as many as it has.
LEMMA BytesIs ==
  ASSUME NEW s, IsList(s)
  PROVE  IsList(Bytes(s)) /\ Len(Bytes(s)) = Len(s) /\ \A i \in 1..Len(s) : Bytes(s)[i] = s[i].v
<1>1. Len(s) \in Nat /\ DOMAIN s = 1..Len(s)
  BY Lists
<1>2. Bytes(s) = [i \in 1..Len(s) |-> Bytes(s)[i]] /\ \A i \in 1..Len(s) : Bytes(s)[i] = s[i].v
  BY <1>1 DEF Bytes
<1> QED
  BY <1>1, <1>2, ListOf

\* A stream with quiet after it.
LEMMA QuietAfter ==
  ASSUME NEW b, IsList(b)
  PROVE  /\ IsList(b \o Quiet) /\ Len(b \o Quiet) = Len(b) + MaxPayload + 6
         /\ Len(b) \in Nat /\ MaxPayload \in Nat
         /\ \A i \in 1..Len(b) : (b \o Quiet)[i] = b[i]
         /\ \A i \in (Len(b) + 1)..(Len(b) + MaxPayload + 6) : (b \o Quiet)[i] = Magic1
<1> DEFINE d == b \o Quiet
<1>1. /\ IsList(d) /\ Len(d) = Len(b) + Len(Quiet)
      /\ \A i \in 1..Len(b) : d[i] = b[i]
      /\ \A i \in (Len(b) + 1)..(Len(b) + Len(Quiet)) : d[i] = Quiet[i - Len(b)]
  BY QuietIs, Joining
<1> HIDE DEF d
<1>2. Len(b) \in Nat /\ MaxPayload \in Nat
  BY Lists, WireAssumption
<1>3. ASSUME NEW i \in (Len(b) + 1)..(Len(b) + MaxPayload + 6) PROVE d[i] = Magic1
  <2>1. i \in (Len(b) + 1)..(Len(b) + Len(Quiet)) /\ i - Len(b) \in 1..(MaxPayload + 6)
    BY <1>2, QuietIs
  <2> QED
    BY <1>1, <2>1, QuietIs
<1>4. Len(d) = Len(b) + MaxPayload + 6
  BY <1>1, <1>2, QuietIs
<1> QED
  BY <1>1, <1>2, <1>3, <1>4 DEF d

\* Nothing is found in the quiet, and nothing is waited for before it.
LEMMA QuietLook ==
  ASSUME NEW b, IsList(b), NEW i \in 1..(Len(b \o Quiet) + 1)
  PROVE  /\ i <= Len(b) => Look(b \o Quiet, i).move # 0
         /\ i > Len(b) => Look(b \o Quiet, i).move \in {0, 1} /\ Look(b \o Quiet, i).msgs = <<>>
<1> DEFINE d == b \o Quiet
<1>1. /\ IsList(d) /\ Len(d) = Len(b) + MaxPayload + 6 /\ Len(b) \in Nat /\ MaxPayload \in Nat
      /\ \A h \in (Len(b) + 1)..(Len(b) + MaxPayload + 6) : d[h] = Magic1
  BY QuietAfter
<1> HIDE DEF d
<1>2. i \in 1..(Len(d) + 1)
  BY DEF d
<1>3. ASSUME i <= Len(b) PROVE Look(d, i).move # 0
  <2>1. Look(d, i).move = 0 => Len(d) - i + 1 < MaxPayload + 6
    BY <1>1, <1>2, LookIs
  <2> QED
    BY <1>1, <1>2, <1>3, <2>1
<1>4. ASSUME i > Len(b) PROVE Look(d, i).move \in {0, 1} /\ Look(d, i).msgs = <<>>
  <2>1. CASE i + 1 > Len(d)
    <3>1. Magical(d, i) /\ i + 4 > Len(d)
      BY <1>1, <1>2, <2>1 DEF Magical
    <3>2. Look(d, i) = [move |-> 0, msgs |-> <<>>]
      BY <1>1, <1>2, <3>1, LookCases
    <3> QED
      BY <3>2
  <2>2. CASE ~(i + 1 > Len(d))
    <3>1. d[i] = Magic1
      BY <1>1, <1>2, <1>4, <2>2
    <3>2. ~Magical(d, i)
      BY <2>2, <3>1, WireAssumption DEF Magical
    <3>3. Look(d, i) = [move |-> 1, msgs |-> <<>>]
      BY <1>1, <1>2, <3>2, LookCases
    <3> QED
      BY <3>3
  <2> QED
    BY <2>1, <2>2
<1> QED
  BY <1>3, <1>4 DEF d

\* From the quiet on the scan finds nothing.
LEMMA QuietScan ==
  ASSUME NEW b, IsList(b), NEW i \in (Len(b) + 1)..(Len(b \o Quiet) + 1)
  PROVE  Scan(b \o Quiet)[i].msgs = <<>>
<1> DEFINE d == b \o Quiet
           n == Len(d) + 1
           s == Scan(d)
           K == {h \in 1..n : h > Len(b) => s[h].msgs = <<>>}
<1>1. IsList(d) /\ Len(d) \in Nat /\ Len(b) \in Nat /\ n \in Nat
  <2>1. IsList(d)
    BY QuietAfter
  <2> HIDE DEF d
  <2> QED
    BY <2>1, Lists
<1>2. \A h \in 1..n : h > Len(b) => Look(d, h).move \in {0, 1} /\ Look(d, h).msgs = <<>>
  BY QuietLook
<1> HIDE DEF d
<1>3. ASSUME NEW h \in 1..n PROVE s[h] = Here(d, h, s) /\ h + Look(d, h).move <= n
  BY <1>1, <1>3, ScanIs, LookIs
<1> HIDE DEF s, n
<1>4. ASSUME NEW h \in 1..n, \A j \in (h + 1)..n : j \in K PROVE h \in K
  <2>1. SUFFICES ASSUME h > Len(b) PROVE s[h].msgs = <<>>
    OBVIOUS
  <2>2. Look(d, h).move \in {0, 1} /\ Look(d, h).msgs = <<>>
    BY <1>2, <2>1
  <2>3. CASE Look(d, h).move = 0
    <3>1. Here(d, h, s).msgs = <<>>
      BY <2>3, HereIs
    <3> QED
      BY <1>3, <3>1
  <2>4. CASE Look(d, h).move = 1
    <3>1. h + 1 \in (h + 1)..n /\ h + 1 > Len(b)
      BY <1>1, <1>3, <2>1, <2>4
    <3>2. s[h + 1].msgs = <<>>
      BY <1>4, <3>1
    <3>3. s[h].msgs = <<>> \o s[h + 1].msgs
      <4>1. Here(d, h, s).msgs = Look(d, h).msgs \o s[h + Look(d, h).move].msgs
        <5>1. Look(d, h).move # 0
          BY <2>4
        <5> QED
          BY <5>1, HereIs
      <4> QED
        BY <1>3, <2>2, <2>4, <4>1
    <3> QED
      BY <3>2, <3>3, JoinedEmpty, Lists
  <2> QED
    BY <2>2, <2>3, <2>4
<1> HIDE DEF K
<1>5. \A h \in 1..n : h \in K
  BY <1>1, <1>4, Backwards
<1>6. i \in 1..n /\ i > Len(b)
  BY <1>1 DEF n, d
<1> QED
  BY <1>5, <1>6 DEF K, s, d

-------------------------------------------------------------------------------
\* What is not damaged stands whole from where nothing else is under way.
LEMMA StartsWhole ==
  ASSUME NEW q \in Seq(Traffic), NEW H, NEW s, Framed(s, q, H),
         NEW i \in 1..Len(s), Outside(s, H, i), s[i].of \notin H
  PROVE  Whole(s, i, s[i].of, q) /\ s[i].of \in DOMAIN q /\ q[s[i].of] \in Traffic
<1> DEFINE j == s[i].of
           L == Len(Encode(q[j]))
<1>1. Len(s) \in Nat /\ j \in DOMAIN q /\ q[j] \in Traffic
  <2>1. Len(s) \in Nat /\ j \in DOMAIN q
    BY Lists DEF Framed
  <2>2. \A h \in DOMAIN q : q[h] \in Traffic
    OBVIOUS
  <2> QED
    BY <2>1, <2>2
<1>2. L \in Nat
  BY <1>1, EncodeIs, Lists
<1>3. PICK p \in 1..Len(s) : Whole(s, p, j, q)
  BY DEF Framed
<1>4. \A k \in 1..Len(s) : s[k].of = j <=> p <= k /\ k <= p + L - 1
  BY <1>3 DEF Whole
<1>5. p <= i
  BY <1>4
<1>6. i = p
  <2>1. SUFFICES ASSUME p < i PROVE FALSE
    BY <1>1, <1>5
  <2>2. i - 1 \in 1..Len(s) /\ p <= i - 1 /\ i - 1 <= p + L - 1 /\ i \in 2..Len(s)
    <3>1. i <= p + L - 1
      BY <1>4
    <3> QED
      BY <1>1, <1>2, <2>1, <3>1
  <2>3. s[i - 1].of = j
    BY <1>4, <2>2
  <2> QED
    BY <2>2, <2>3 DEF Outside
<1> QED
  BY <1>1, <1>3, <1>6

\* One move of the scan where no whole message is under way: past a damaged byte,
\* or past the whole message that begins there.
LEMMA MoveOutside ==
  ASSUME NEW q \in Seq(Traffic), NEW H, NEW s, Framed(s, q, H), Honest(s, H),
         NEW i \in 1..Len(s), Outside(s, H, i)
  PROVE  LET l == Look(Bytes(s) \o Quiet, i)
             m == q[s[i].of]
         IN /\ l.move \in Nat /\ l.move > 0 /\ Outside(s, H, i + l.move)
            /\ s[i].of \in H => l.move = 1 /\ l.msgs = <<>>
            /\ s[i].of \notin H => /\ l.msgs = Message(m[1], m[2])
                                   /\ \A k \in 1..Len(s) :
                                        s[k].of = s[i].of <=> i <= k /\ k < i + l.move
<1> DEFINE b == Bytes(s)
           d == b \o Quiet
           j == s[i].of
           l == Look(d, i)
<1>1. IsList(s) /\ IsList(b) /\ Len(b) = Len(s) /\ \A k \in 1..Len(s) : b[k] = s[k].v
  BY BytesIs DEF Framed
<1> HIDE DEF b
<1>2. /\ IsList(d) /\ Len(d) = Len(b) + MaxPayload + 6 /\ MaxPayload \in Nat /\ Len(s) \in Nat
      /\ \A k \in 1..Len(b) : d[k] = b[k]
  BY <1>1, QuietAfter
<1> HIDE DEF d
<1>3. i \in 1..(Len(d) + 1)
  BY <1>1, <1>2
<1>4. CASE j \in H
  <2>1. l.move = 1
    BY <1>4 DEF Honest, b, d
  <2>2. l.msgs = <<>>
    <3>1. CASE Magical(d, i) /\ i + 4 <= Len(d) /\ ~(d[i + 2] # Ver \/ d[i + 4] \notin 0..MaxPayload)
      <4> DEFINE n == d[i + 4]
      <4>1. n \in Nat
        BY <1>2, <3>1
      <4>2. l = Checked(d, i, n)
        BY <1>2, <1>3, <3>1, LookCases
      <4> HIDE DEF n
      <4>3. 6 + n # 1
        BY <4>1
      <4>4. CASE i + (6 + n) - 1 > Len(d)
        <5>1. l = [move |-> 0, msgs |-> <<>>]
          BY <4>2, <4>4 DEF Checked
        <5> QED
          BY <5>1
      <4>5. CASE ~(i + (6 + n) - 1 > Len(d))
               /\ CRC16(SubSeq(d, i + 2, i + 4 + n)) # d[i + (6 + n) - 1]
        <5>1. l = [move |-> 1, msgs |-> <<>>]
          BY <4>2, <4>5 DEF Checked
        <5> QED
          BY <5>1
      <4>6. CASE ~(i + (6 + n) - 1 > Len(d))
               /\ ~(CRC16(SubSeq(d, i + 2, i + 4 + n)) # d[i + (6 + n) - 1])
        <5>1. l = [move |-> 6 + n, msgs |-> Message(d[i + 3], SubSeq(d, i + 5, i + 4 + n))]
          BY <4>2, <4>6 DEF Checked
        <5>2. l.move = 6 + n
          BY <5>1
        <5> QED
          BY <2>1, <4>3, <5>2
      <4> QED
        BY <4>4, <4>5, <4>6
    <3>2. CASE ~(Magical(d, i) /\ i + 4 <= Len(d) /\ ~(d[i + 2] # Ver \/ d[i + 4] \notin 0..MaxPayload))
      <4>1. l = [move |-> 1, msgs |-> <<>>] \/ l = [move |-> 0, msgs |-> <<>>]
        BY <1>2, <1>3, <3>2, LookCases
      <4> QED
        BY <4>1
    <3> QED
      BY <3>1, <3>2
  <2>3. Outside(s, H, i + l.move)
    <3>1. i + 1 \in 1..(Len(s) + 1) /\ (i + 1) - 1 = i
      BY <1>2
    <3>2. s[i + 1].of \in H \/ s[(i + 1) - 1].of # s[i + 1].of
      BY <1>4, <3>1
    <3> QED
      BY <2>1, <3>1, <3>2 DEF Outside
  <2> QED
    BY <1>4, <2>1, <2>2, <2>3 DEF d, b
<1>5. CASE j \notin H
  <2> DEFINE m == q[j]
             L == Len(Encode(m))
  <2>1. Whole(s, i, j, q) /\ m \in Traffic
    BY <1>5, StartsWhole
  <2>2. L \in Nat /\ L > 0
    BY SMTT(30), <2>1, EncodeIs, WireAssumption
  <2>3. /\ i + L - 1 <= Len(s)
        /\ \A k \in 1..Len(s) : s[k].of = j <=> i <= k /\ k <= i + L - 1
        /\ \A k \in 1..L : s[i + k - 1].v = Encode(m)[k]
    BY <2>1 DEF Whole
  <2> HIDE DEF m
  <2>4. l = [move |-> L, msgs |-> Message(m[1], m[2])]
    <3> DEFINE o == i - 1
    <3>1. o \in Nat /\ o + L <= Len(d) /\ o + 1 = i
      BY <1>1, <1>2, <2>2, <2>3
    <3>2. ASSUME NEW k \in 1..L PROVE d[k + o] = Encode(m)[k]
      <4>1. i + k - 1 = k + o /\ k + o \in 1..Len(b) /\ k + o \in 1..Len(s)
        BY <1>1, <1>2, <2>2, <2>3
      <4> HIDE DEF o
      <4>2. d[k + o] = s[k + o].v
        BY <1>1, <1>2, <4>1
      <4> QED
        BY <2>3, <4>1, <4>2
    <3> HIDE DEF o
    <3>3. Look(d, o + 1) = [move |-> Len(Encode(m)), msgs |-> Message(m[1], m[2])]
      BY <1>2, <2>1, <3>1, <3>2, LookWhole
    <3> QED
      BY <3>1, <3>3
  <2>5. l.move = L /\ l.msgs = Message(m[1], m[2])
    BY <2>4
  <2>6. \A k \in 1..Len(s) : s[k].of = j <=> i <= k /\ k < i + l.move
    BY <1>2, <2>2, <2>3, <2>5
  <2>7. Outside(s, H, i + l.move)
    <3>1. i + L \in 1..(Len(s) + 1)
      BY <1>2, <2>2, <2>3
    <3>2. ASSUME i + L \in 2..Len(s) PROVE s[(i + L) - 1].of # s[i + L].of
      <4>1. (i + L) - 1 \in 1..Len(s) /\ i <= (i + L) - 1 /\ (i + L) - 1 <= i + L - 1
        BY <1>2, <2>2, <3>2
      <4>2. s[(i + L) - 1].of = j
        BY <2>3, <4>1
      <4>3. s[i + L].of # j
        BY <1>2, <2>2, <2>3, <3>1, <3>2
      <4> QED
        BY <4>2, <4>3
    <3> QED
      BY <2>5, <3>1, <3>2 DEF Outside
  <2> QED
    BY <1>5, <2>2, <2>5, <2>6, <2>7 DEF d, b, m
<1> QED
  BY <1>4, <1>5

-------------------------------------------------------------------------------
\* The messages to come are finitely many numbers.
LEMMA YetIs ==
  ASSUME NEW q \in Seq(Traffic), NEW H, NEW s, NEW i
  PROVE  Yet(s, q, H, i) \in SUBSET Int /\ IsFiniteSet(Yet(s, q, H, i))
<1>1. Len(q) \in Nat /\ DOMAIN q = 1..Len(q)
  OBVIOUS
<1>2. IsFiniteSet(1..Len(q)) /\ 1..Len(q) \subseteq Int
  BY <1>1, FS_Interval
<1>3. Yet(s, q, H, i) \subseteq 1..Len(q)
  BY <1>1 DEF Yet
<1> QED
  BY <1>2, <1>3, FS_Subset

\* From where no whole message is under way, the scan finds those that are to come.
LEMMA FindsWhole ==
  ASSUME NEW q \in Seq(Traffic), NEW H, NEW s, Framed(s, q, H), Honest(s, H),
         NEW i \in 1..(Len(s) + 1), Outside(s, H, i)
  PROVE  Scan(Bytes(s) \o Quiet)[i].msgs = Delivered(Yet(s, q, H, i), q)
<1> DEFINE n == Len(s) + 1
           b == Bytes(s)
           d == b \o Quiet
           f == Scan(d)
           K == {h \in 1..n : Outside(s, H, h) => f[h].msgs = Delivered(Yet(s, q, H, h), q)}
<1>1. IsList(s) /\ IsList(b) /\ Len(b) = Len(s) /\ Len(s) \in Nat /\ n \in Nat
  BY BytesIs, Lists DEF Framed
<1>2. IsList(d) /\ Len(d) \in Nat /\ n \in 1..(Len(d) + 1)
  <2>1. IsList(d) /\ Len(d) = Len(b) + MaxPayload + 6 /\ MaxPayload \in Nat
    BY <1>1, QuietAfter
  <2> HIDE DEF d
  <2> QED
    BY <1>1, <2>1
<1>3. f[n].msgs = <<>>
  <2>1. n \in (Len(b) + 1)..(Len(d) + 1)
    BY <1>1, <1>2
  <2> HIDE DEF b
  <2> QED
    BY <1>1, <2>1, QuietScan
<1>4. ASSUME NEW h \in 1..n, \A k \in (h + 1)..n : k \in K PROVE h \in K
  <2>1. SUFFICES ASSUME Outside(s, H, h) PROVE f[h].msgs = Delivered(Yet(s, q, H, h), q)
    OBVIOUS
  <2>2. CASE h = n
    <3>1. h..Len(s) = {}
      BY <1>1, <2>2
    <3>2. Yet(s, q, H, h) = {}
      BY <3>1 DEF Yet
    <3> QED
      BY <1>3, <2>2, <3>2, DeliveredFew
  <2>3. CASE h # n
    <3> DEFINE l == Look(d, h)
               j == s[h].of
               m == q[j]
               g == h + l.move
               A == Yet(s, q, H, g)
    <3>1. h \in 1..Len(s)
      BY <1>1, <2>3
    <3>2. /\ l.move \in Nat /\ l.move > 0 /\ Outside(s, H, g)
          /\ j \in H => l.move = 1 /\ l.msgs = <<>>
          /\ j \notin H => /\ l.msgs = Message(m[1], m[2])
                           /\ \A k \in 1..Len(s) : s[k].of = j <=> h <= k /\ k < g
      BY <2>1, <3>1, MoveOutside
    <3>3. g \in (h + 1)..n /\ g \in 1..n
      <4>1. g \in 1..(Len(s) + 1)
        BY <3>2 DEF Outside
      <4> QED
        BY <1>1, <3>1, <3>2, <4>1
    <3>4. f[g].msgs = Delivered(A, q)
      <4>1. g \in K
        BY <1>4, <3>3
      <4> QED
        BY <3>2, <4>1
    <3>5. f[h].msgs = l.msgs \o f[g].msgs
      <4>1. h \in 1..(Len(d) + 1)
        BY <1>1, <1>2, <3>1
      <4> HIDE DEF d
      <4>2. f[h] = Here(d, h, f)
        BY <1>2, <4>1, ScanIs
      <4>3. l.move # 0
        BY <3>2
      <4> HIDE DEF f
      <4>4. Here(d, h, f).msgs = l.msgs \o f[g].msgs
        BY <4>3, HereIs
      <4> QED
        BY <4>2, <4>4
    <3>6. A \in SUBSET Int /\ IsFiniteSet(A) /\ IsList(Delivered(A, q))
      BY YetIs, DeliveredIs
    <3>7. j \in DOMAIN q /\ m \in Traffic /\ j \in Int
      <4>1. j \in DOMAIN q
        BY <3>1 DEF Framed
      <4>2. \A k \in DOMAIN q : q[k] \in Traffic /\ k \in Int
        OBVIOUS
      <4> QED
        BY <4>1, <4>2
    <3>8. h..Len(s) = (h..(g - 1)) \cup (g..Len(s))
      BY <1>1, <3>1, <3>3
    <3> HIDE DEF d, f, l, g
    <3>9. CASE j \in H
      <4>1. g = h + 1
        BY <3>2, <3>9 DEF g
      <4>2. Yet(s, q, H, h) = A
        <5>1. \A k \in h..Len(s) : k = h \/ k \in g..Len(s)
          BY <1>1, <3>1, <4>1
        <5>2. \A k \in g..Len(s) : k \in h..Len(s)
          BY <1>1, <3>1, <4>1
        <5> QED
          BY <3>9, <5>1, <5>2 DEF Yet
      <4> HIDE DEF A
      <4>3. <<>> \o Delivered(A, q) = Delivered(A, q)
        BY <3>6, JoinedEmpty
      <4> QED
        BY <3>2, <3>4, <3>5, <3>9, <4>2, <4>3
    <3>10. CASE j \notin H
      <4>1. \A k \in 1..Len(s) : s[k].of = j <=> h <= k /\ k < g
        BY <3>2, <3>10
      <4>2. ASSUME NEW k \in h..Len(s) PROVE s[k].of = j \/ k \in g..Len(s)
        BY <1>1, <3>1, <3>3, <4>1
      <4>3. \A k \in g..Len(s) : k \in h..Len(s)
        BY <1>1, <3>1, <3>3
      <4>4. CASE ~ParsePayload(m[1], m[2])
        <5>1. Yet(s, q, H, h) = A
          BY <4>2, <4>3, <4>4 DEF Yet
        <5>2. l.msgs = <<>>
          BY <3>2, <3>10, <4>4 DEF Message
        <5> HIDE DEF A
        <5>3. <<>> \o Delivered(A, q) = Delivered(A, q)
          BY <3>6, JoinedEmpty
        <5> QED
          BY <3>4, <3>5, <5>1, <5>2, <5>3
      <4>5. CASE ParsePayload(m[1], m[2])
        <5>1. Yet(s, q, H, h) = {j} \cup A
          <6>1. j \in Yet(s, q, H, h)
            <7>1. h \in h..Len(s)
              BY <1>1, <3>1
            <7> QED
              BY <3>7, <3>10, <4>5, <7>1 DEF Yet
          <6>2. A \subseteq Yet(s, q, H, h)
            BY <4>3 DEF Yet
          <6>3. Yet(s, q, H, h) \subseteq {j} \cup A
            BY <4>2 DEF Yet
          <6> QED
            BY <6>1, <6>2, <6>3
        <5>2. ASSUME NEW x \in A PROVE j < x
          <6>1. PICK k \in g..Len(s) : s[k].of = x
            BY DEF Yet
          <6>2. k \in 1..Len(s) /\ h < k /\ ~(k < g)
            BY <1>1, <3>1, <3>3
          <6>3. s[h].of <= s[k].of /\ s[k].of # j
            BY <3>1, <4>1, <6>2 DEF Framed
          <6> QED
            BY <3>6, <3>7, <6>1, <6>3
        <5>3. l.msgs = <<m>>
          <6>1. m = <<m[1], m[2]>>
            BY <3>7, EncodeIs
          <6>2. l.msgs = <<<<m[1], m[2]>>>>
            BY <3>2, <3>10, <4>5 DEF Message
          <6> QED
            BY <6>1, <6>2
        <5>4. Delivered({j}, q) = <<m>>
          BY <3>7, DeliveredFew
        <5> HIDE DEF A
        <5>5. Delivered({j} \cup A, q) = Delivered({j}, q) \o Delivered(A, q)
          <6> DEFINE B == {j}
          <6>1. B \in SUBSET Int /\ IsFiniteSet(B) /\ \A a \in B, x \in A : a < x
            BY <3>7, <5>2, FS_Singleton
          <6> HIDE DEF B
          <6>2. Delivered(B \cup A, q) = Delivered(B, q) \o Delivered(A, q)
            BY <3>6, <6>1, DeliveredJoined
          <6> QED
            BY <6>2 DEF B
        <5> QED
          BY <3>4, <3>5, <5>1, <5>3, <5>4, <5>5
      <4> QED
        BY <4>4, <4>5
    <3> QED
      BY <3>9, <3>10
  <2> QED
    BY <2>2, <2>3
<1> HIDE DEF K, n
<1>5. \A h \in 1..n : h \in K
  BY <1>1, <1>4, Backwards
<1> QED
  BY <1>5 DEF K, f, d, b, n

-------------------------------------------------------------------------------
\* A scan of the first bytes ends where no whole message is under way.
LEMMA EndsOutside ==
  ASSUME NEW q \in Seq(Traffic), NEW H, NEW s, Framed(s, q, H), Honest(s, H),
         NEW b, IsList(b), Len(b) <= Len(s), \A j \in 1..Len(b) : b[j] = s[j].v,
         NEW i \in 1..(Len(b) + 1), Outside(s, H, i)
  PROVE  Outside(s, H, Scan(b)[i].at)
<1> DEFINE n == Len(b) + 1
           d == Bytes(s) \o Quiet
           f == Scan(b)
           K == {h \in 1..n : Outside(s, H, h) => Outside(s, H, f[h].at)}
<1>1. IsList(s) /\ Len(s) \in Nat /\ Len(b) \in Nat /\ n \in Nat
  BY Lists DEF Framed
<1>2. /\ IsList(d) /\ Len(d) \in Nat /\ Len(b) <= Len(d)
      /\ \A j \in 1..Len(b) : d[j] = b[j]
  <2>1. IsList(Bytes(s)) /\ Len(Bytes(s)) = Len(s) /\ \A j \in 1..Len(s) : Bytes(s)[j] = s[j].v
    BY <1>1, BytesIs
  <2>2. /\ IsList(d) /\ Len(d) = Len(Bytes(s)) + MaxPayload + 6 /\ MaxPayload \in Nat
        /\ \A j \in 1..Len(Bytes(s)) : d[j] = Bytes(s)[j]
    BY <2>1, QuietAfter
  <2> HIDE DEF d
  <2>3. \A j \in 1..Len(b) : j \in 1..Len(s)
    BY <1>1
  <2> QED
    BY <1>1, <2>1, <2>2, <2>3
<1>3. ASSUME NEW h \in 1..n, \A k \in (h + 1)..n : k \in K PROVE h \in K
  <2>1. SUFFICES ASSUME Outside(s, H, h) PROVE Outside(s, H, f[h].at)
    OBVIOUS
  <2> DEFINE m == Look(b, h).move
  <2>2. m \in Nat /\ h + m <= n /\ f[h] = Here(b, h, f)
    BY <1>1, LookIs, ScanIs
  <2>3. CASE m = 0
    <3>1. f[h].at = h
      <4> HIDE DEF f
      <4> QED
        BY <2>2, <2>3, HereIs
    <3> QED
      BY <2>1, <3>1
  <2>4. CASE m # 0
    <3>1. h \in 1..Len(s) /\ h + m \in (h + 1)..n
      BY <1>1, <2>2, <2>4
    <3>2. Look(d, h) = Look(b, h)
      <4> HIDE DEF d
      <4>1. \A j \in 1..Len(b) : d[j + 0] = b[j]
        BY <1>2
      <4>2. 0 + Len(b) <= Len(d) /\ h \in 1..(Len(b) + 1)
        BY <1>1, <1>2
      <4>3. Look(d, h + 0) = Look(b, h)
        <5>1. IsList(b) /\ IsList(d) /\ 0 \in Nat /\ (Look(b, h).move # 0 \/ 0 + Len(b) = Len(d))
          BY <1>2, <2>4
        <5> QED
          BY <4>1, <4>2, <5>1, LookSame
      <4> QED
        BY <1>1, <3>1, <4>3
    <3>3. Outside(s, H, h + m)
      BY <2>1, <3>1, <3>2, MoveOutside
    <3>4. Outside(s, H, f[h + m].at)
      BY <1>3, <3>1, <3>3
    <3>5. f[h].at = f[h + m].at
      <4> HIDE DEF f
      <4> QED
        BY <2>2, <2>4, HereIs
    <3> QED
      BY <3>4, <3>5
  <2> QED
    BY <2>3, <2>4
<1> HIDE DEF K, n
<1>4. \A h \in 1..n : h \in K
  BY <1>1, <1>3, Backwards
<1> QED
  BY <1>4 DEF K, f, n

\* What is left from there is a stream of messages, and the same are to come.
LEMMA TailFramed ==
  ASSUME NEW q \in Seq(Traffic), NEW H, NEW s, Framed(s, q, H),
         NEW c \in 1..(Len(s) + 1), Outside(s, H, c),
         NEW t, IsList(t), Len(t) = Len(s) - c + 1, \A k \in 1..Len(t) : t[k] = s[k + (c - 1)]
  PROVE  Framed(t, q, H) /\ Yet(t, q, H, 1) = Yet(s, q, H, c)
<1> DEFINE o == c - 1
<1>1. /\ Len(s) \in Nat /\ Len(t) \in Nat /\ o \in Nat /\ Len(s) = Len(t) + o /\ c = o + 1
  BY Lists DEF Framed
<1>11. \A k \in c..Len(s) : k - o \in 1..Len(t) /\ (k - o) + o = k
  BY Lists DEF Framed
<1>2. \A k \in 1..Len(t) : t[k] = s[k + o]
  OBVIOUS
<1> HIDE DEF o
<1>3. \A k \in 1..Len(t) : k + o \in 1..Len(s)
  BY <1>1
<1>4. \A k \in 1..Len(t) : t[k] = [v |-> t[k].v, of |-> t[k].of] /\ t[k].of \in DOMAIN q
  BY <1>2, <1>3 DEF Framed
<1>5. \A i, k \in 1..Len(t) : i < k => t[i].of <= t[k].of
  <2> TAKE i, k \in 1..Len(t)
  <2> HAVE i < k
  <2>1. i + o < k + o
    BY <1>1
  <2> QED
    BY <1>2, <1>3, <2>1 DEF Framed
<1>6. ASSUME NEW i \in 1..Len(t), t[i].of \notin H
      PROVE  \E p \in 1..Len(t) : Whole(t, p, t[i].of, q)
  <2> DEFINE j == t[i].of
             L == Len(Encode(q[j]))
  <2>1. i + o \in 1..Len(s) /\ j = s[i + o].of
    BY <1>2, <1>3
  <2>2. L \in Nat
    <3>1. q[j] \in Traffic
      <4>1. \A h \in DOMAIN q : q[h] \in Traffic
        OBVIOUS
      <4> QED
        BY <1>4, <4>1
    <3> QED
      BY <3>1, EncodeIs, Lists
  <2>3. PICK p \in 1..Len(s) : Whole(s, p, j, q)
    BY <1>6, <2>1 DEF Framed
  <2>4. /\ p + L - 1 <= Len(s)
        /\ \A k \in 1..Len(s) : s[k].of = j <=> p <= k /\ k <= p + L - 1
        /\ \A k \in 1..L : s[p + k - 1].v = Encode(q[j])[k]
    BY <2>3 DEF Whole
  <2>5. p <= i + o /\ i + o <= p + L - 1
    BY <2>1, <2>4
  <2>6. p >= c
    <3>1. SUFFICES ASSUME p < c PROVE FALSE
      BY <1>1
    <3>2. o \in 1..Len(s) /\ c \in 2..Len(s) /\ p <= o /\ o <= p + L - 1 /\ p <= c /\ c <= p + L - 1
      BY <1>1, <2>1, <2>2, <2>5, <3>1
    <3>3. c - 1 = o /\ c \in 1..Len(s)
      BY <1>1, <3>2
    <3>4. s[o].of = j /\ s[c].of = j
      BY <2>4, <3>2, <3>3
    <3>5. s[c].of \in H \/ s[c - 1].of # s[c].of
      BY <3>2 DEF Outside
    <3> QED
      BY <1>6, <3>3, <3>4, <3>5
  <2> DEFINE r == p - o
  <2>7. r \in 1..Len(t) /\ p = r + o
    BY <1>1, <2>6
  <2> HIDE DEF r
  <2>8. r + L - 1 <= Len(t)
    BY <1>1, <2>2, <2>4, <2>7
  <2>9. ASSUME NEW k \in 1..Len(t) PROVE t[k].of = j <=> r <= k /\ k <= r + L - 1
    <3>1. k + o \in 1..Len(s) /\ t[k].of = s[k + o].of
      BY <1>2, <1>3
    <3>2. s[k + o].of = j <=> p <= k + o /\ k + o <= p + L - 1
      BY <2>4, <3>1
    <3> HIDE DEF j
    <3>3. k \in Int /\ o \in Int /\ r \in Int /\ L \in Int
      BY <1>1, <2>2, <2>7
    <3>4. (r + o <= k + o <=> r <= k) /\ (k + o <= (r + o) + L - 1 <=> k <= r + L - 1)
      BY <3>3
    <3>5. (p <= k + o <=> r <= k) /\ (k + o <= p + L - 1 <=> k <= r + L - 1)
      BY <2>7, <3>4, Zenon
    <3> QED
      BY <3>1, <3>2, <3>5
  <2>10. ASSUME NEW k \in 1..L PROVE t[r + k - 1].v = Encode(q[j])[k]
    <3> DEFINE x == r + k - 1
    <3>1. x \in 1..Len(t) /\ x + o = p + k - 1
      BY <1>1, <2>2, <2>7, <2>8
    <3> HIDE DEF x
    <3>2. t[x] = s[p + k - 1]
      BY <1>2, <3>1
    <3>3. t[x].v = Encode(q[j])[k]
      BY <2>4, <3>2
    <3> QED
      BY <3>3 DEF x
  <2>11. Whole(t, r, j, q)
    BY <2>8, <2>9, <2>10 DEF Whole
  <2> QED
    BY <2>7, <2>11
<1>7. Framed(t, q, H)
  BY <1>4, <1>5, <1>6 DEF Framed
<1>8. \A j : (\E k \in 1..Len(t) : t[k].of = j) <=> (\E k \in c..Len(s) : s[k].of = j)
  <2> TAKE j
  <2>1. ASSUME NEW k \in 1..Len(t), t[k].of = j PROVE \E h \in c..Len(s) : s[h].of = j
    <3>1. k + o \in c..Len(s)
      BY <1>1
    <3> QED
      BY <1>2, <2>1, <3>1
  <2>2. ASSUME NEW k \in c..Len(s), s[k].of = j PROVE \E h \in 1..Len(t) : t[h].of = j
    <3>1. k - o \in 1..Len(t) /\ (k - o) + o = k
      BY <1>11
    <3>2. t[k - o] = s[k]
      BY <1>2, <3>1
    <3> QED
      BY <2>2, <3>1, <3>2
  <2> QED
    BY <2>1, <2>2
<1>9. Yet(t, q, H, 1) = Yet(s, q, H, c)
  BY <1>8 DEF Yet
<1> QED
  BY <1>7, <1>9

-------------------------------------------------------------------------------
(* The line, what the decoder holds back, and what it has decoded.             *)

\* What the line, the decoder and its results are, faults or not.
WireShape ==
  IsList(line) /\ IsList(buf) /\ IsList(got) /\ Len(buf) < MaxPayload + 6

\* The stream is what is held back, then what is under way.
LEMMA StreamIs ==
  ASSUME WireShape
  PROVE  /\ IsList(Stream) /\ Len(Stream) = Len(buf) + Len(line)
         /\ Len(Stream) \in Nat /\ Len(buf) \in Nat /\ Len(line) \in Nat
         /\ \A k \in 1..Len(buf) : Stream[k] = buf[k]
         /\ \A k \in (Len(buf) + 1)..(Len(buf) + Len(line)) : Stream[k] = line[k - Len(buf)]
<1>1. IsList(buf) /\ IsList(line)
  BY DEF WireShape
<1> QED
  BY <1>1, Joining, Lists DEF Stream

\* The bytes of a read, what they are decoded to, and what is left of the stream.
LEMMA ReadIs ==
  ASSUME WireShape, NEW n \in 1..Len(line), ReadChunk(n)
  PROVE  \E b : \E at \in 1..(Len(b) + 1) :
           /\ IsList(b) /\ Len(b) <= Len(Stream) /\ \A k \in 1..Len(b) : b[k] = Stream[k].v
           /\ at = Scan(b)[1].at /\ Len(b) - at + 1 < MaxPayload + 6
           /\ IsList(Scan(b)[1].msgs) /\ got' = got \o Scan(b)[1].msgs
           /\ IsList(buf') /\ Len(buf') = Len(b) - at + 1 /\ IsList(line')
           /\ IsList(Stream') /\ Len(Stream') = Len(Stream) - at + 1
           /\ \A k \in 1..Len(Stream') : Stream'[k] = Stream[k + (at - 1)]
<1> DEFINE part == SubSeq(line, 1, n)
           rest == SubSeq(line, n + 1, Len(line))
           all == buf \o part
           b == Bytes(all)
           at == Scan(b)[1].at
           left == SubSeq(all, at, Len(all))
           s == Stream
           t == left \o rest
<1>1. /\ IsList(s) /\ Len(s) = Len(buf) + Len(line)
      /\ Len(s) \in Nat /\ Len(buf) \in Nat /\ Len(line) \in Nat
      /\ \A k \in 1..Len(buf) : s[k] = buf[k]
      /\ \A k \in (Len(buf) + 1)..(Len(buf) + Len(line)) : s[k] = line[k - Len(buf)]
      /\ IsList(buf) /\ IsList(line)
  BY StreamIs DEF WireShape
<1>2. got' = got \o Scan(b)[1].msgs /\ buf' = left /\ line' = rest
  BY DEF ReadChunk, Feed
<1>3. Stream' = t
  BY <1>2 DEF Stream
<1> HIDE DEF s
<1>4. IsList(part) /\ Len(part) = n /\ \A k \in 1..n : part[k] = line[k]
  <2>1. 1 \in 1..(Len(line) + 1) /\ n \in (1 - 1)..Len(line) /\ n - 1 + 1 = n
    BY <1>1
  <2>2. IsList(part) /\ Len(part) = n - 1 + 1 /\ \A k \in 1..(n - 1 + 1) : part[k] = line[1 + k - 1]
    BY <1>1, <2>1, Stretch
  <2>3. \A k \in 1..n : 1 + k - 1 = k
    OBVIOUS
  <2> QED
    BY <2>1, <2>2, <2>3
<1>5. IsList(rest) /\ Len(rest) = Len(line) - n /\ \A k \in 1..Len(rest) : rest[k] = line[n + k]
  <2>1. /\ n + 1 \in 1..(Len(line) + 1) /\ Len(line) \in ((n + 1) - 1)..Len(line)
        /\ Len(line) - (n + 1) + 1 = Len(line) - n
    BY <1>1
  <2>2. /\ IsList(rest) /\ Len(rest) = Len(line) - (n + 1) + 1
        /\ \A k \in 1..(Len(line) - (n + 1) + 1) : rest[k] = line[(n + 1) + k - 1]
    BY <1>1, <2>1, Stretch
  <2>3. \A k \in 1..(Len(line) - n) : (n + 1) + k - 1 = n + k
    BY <1>1
  <2> HIDE DEF rest
  <2> QED
    BY <2>1, <2>2, <2>3
<1> HIDE DEF part, rest
<1>6. IsList(all) /\ Len(all) = Len(buf) + n /\ \A k \in 1..Len(all) : all[k] = s[k]
  <2>1. /\ IsList(all) /\ Len(all) = Len(buf) + Len(part)
        /\ \A k \in 1..Len(buf) : all[k] = buf[k]
        /\ \A k \in (Len(buf) + 1)..(Len(buf) + Len(part)) : all[k] = part[k - Len(buf)]
    BY <1>1, <1>4, Joining
  <2> HIDE DEF all
  <2>2. ASSUME NEW k \in 1..Len(all) PROVE all[k] = s[k]
    <3>1. CASE k <= Len(buf)
      <4>1. k \in 1..Len(buf)
        BY <3>1
      <4> QED
        BY <1>1, <2>1, <4>1
    <3>2. CASE ~(k <= Len(buf))
      <4>1. /\ k \in (Len(buf) + 1)..(Len(buf) + Len(part)) /\ k - Len(buf) \in 1..n
            /\ k \in (Len(buf) + 1)..(Len(buf) + Len(line))
        BY <1>1, <1>4, <2>1, <3>2
      <4> QED
        BY <1>1, <1>4, <2>1, <4>1
    <3> QED
      BY <3>1, <3>2
  <2> QED
    BY <1>4, <2>1, <2>2
<1> HIDE DEF all
<1>7. IsList(b) /\ Len(b) = Len(all) /\ \A k \in 1..Len(b) : b[k] = s[k].v
  <2>1. IsList(b) /\ Len(b) = Len(all) /\ \A k \in 1..Len(all) : b[k] = all[k].v
    BY <1>6, BytesIs
  <2> HIDE DEF b
  <2> QED
    BY <1>6, <2>1
<1> HIDE DEF b
<1>8. /\ IsList(Scan(b)[1].msgs) /\ at \in 1..(Len(b) + 1)
      /\ Look(b, at).move = 0
  <2>1. 1 \in 1..(Len(b) + 1)
    BY <1>1, <1>6, <1>7
  <2> QED
    BY <1>7, <2>1, ScanEnds
<1>9. Len(b) - at + 1 < MaxPayload + 6
  <2> HIDE DEF at
  <2> QED
    BY <1>7, <1>8, LookIs
<1> HIDE DEF at
<1>10. IsList(left) /\ Len(left) = Len(all) - at + 1 /\ \A k \in 1..Len(left) : left[k] = all[at + k - 1]
  <2>1. at \in 1..(Len(all) + 1) /\ Len(all) \in (at - 1)..Len(all)
    BY <1>1, <1>6, <1>7, <1>8
  <2> QED
    BY <1>6, <2>1, Stretch
<1> HIDE DEF left
<1>11. IsList(t) /\ Len(t) = Len(s) - at + 1 /\ \A k \in 1..Len(t) : t[k] = s[k + (at - 1)]
  <2>1. /\ IsList(t) /\ Len(t) = Len(left) + Len(rest)
        /\ \A k \in 1..Len(left) : t[k] = left[k]
        /\ \A k \in (Len(left) + 1)..(Len(left) + Len(rest)) : t[k] = rest[k - Len(left)]
    <3>1. IsList(left) /\ IsList(rest)
      BY <1>5, <1>10
    <3> QED
      BY ZenonT(30), <3>1, Joining
  <2> HIDE DEF t
  <2>2. Len(t) = Len(s) - at + 1
    BY <1>1, <1>5, <1>6, <1>7, <1>8, <1>10, <2>1
  <2>3. ASSUME NEW k \in 1..Len(t) PROVE t[k] = s[k + (at - 1)]
    <3>1. CASE k <= Len(left)
      <4>1. k \in 1..Len(left) /\ at + k - 1 = k + (at - 1) /\ at + k - 1 \in 1..Len(all)
        BY <1>1, <1>6, <1>7, <1>8, <1>10, <3>1
      <4>2. t[k] = all[at + k - 1]
        BY <1>10, <2>1, <4>1
      <4> QED
        BY <1>6, <4>1, <4>2
    <3>2. CASE ~(k <= Len(left))
      <4> DEFINE x == k + (at - 1)
      <4>1. /\ k \in (Len(left) + 1)..(Len(left) + Len(rest)) /\ k - Len(left) \in 1..Len(rest)
            /\ x \in (Len(buf) + 1)..(Len(buf) + Len(line))
            /\ n + (k - Len(left)) = x - Len(buf)
        BY SMTT(30), <1>1, <1>5, <1>6, <1>7, <1>8, <1>10, <2>1, <3>2
      <4> HIDE DEF x
      <4>2. t[k] = line[x - Len(buf)]
        BY <1>5, <2>1, <4>1
      <4>3. s[x] = line[x - Len(buf)]
        BY <1>1, <4>1
      <4> QED
        BY <4>2, <4>3 DEF x
    <3> QED
      BY <3>1, <3>2
  <2> QED
    BY <2>1, <2>2, <2>3
<1> HIDE DEF t
<1>12. Len(b) <= Len(s)
  BY <1>1, <1>6, <1>7
<1>13. /\ IsList(b) /\ Len(b) <= Len(s) /\ \A k \in 1..Len(b) : b[k] = s[k].v
       /\ at = Scan(b)[1].at /\ Len(b) - at + 1 < MaxPayload + 6
       /\ IsList(Scan(b)[1].msgs) /\ got' = got \o Scan(b)[1].msgs
       /\ IsList(buf') /\ Len(buf') = Len(b) - at + 1 /\ IsList(line')
       /\ IsList(t) /\ Len(t) = Len(s) - at + 1
       /\ \A k \in 1..Len(t) : t[k] = s[k + (at - 1)]
  BY <1>2, <1>5, <1>7, <1>8, <1>9, <1>10, <1>11, <1>12 DEF at
<1> QED
  BY <1>3, <1>8, <1>13 DEF s

-------------------------------------------------------------------------------
(* The line as it is sent on, damaged and read.                                *)

\* A sequence without one of its members.
LEMMA Snipped ==
  ASSUME NEW s, IsList(s), NEW i \in 1..Len(s)
  PROVE  /\ IsList(RemoveAt(s, i)) /\ Len(RemoveAt(s, i)) = Len(s) - 1 /\ Len(s) \in Nat
         /\ \A k \in 1..(i - 1) : RemoveAt(s, i)[k] = s[k]
         /\ \A k \in i..(Len(s) - 1) : RemoveAt(s, i)[k] = s[k + 1]
<1> DEFINE a == SubSeq(s, 1, i - 1)
           c == SubSeq(s, i + 1, Len(s))
           t == RemoveAt(s, i)
<1>1. Len(s) \in Nat
  BY Lists
<1>2. t = a \o c
  BY DEF RemoveAt
<1>3. IsList(a) /\ Len(a) = i - 1 /\ \A k \in 1..(i - 1) : a[k] = s[k]
  <2>1. 1 \in 1..(Len(s) + 1) /\ i - 1 \in (1 - 1)..Len(s) /\ (i - 1) - 1 + 1 = i - 1
    BY <1>1
  <2>2. /\ IsList(a) /\ Len(a) = (i - 1) - 1 + 1
        /\ \A k \in 1..((i - 1) - 1 + 1) : a[k] = s[1 + k - 1]
    BY <2>1, Stretch
  <2>3. \A k \in 1..(i - 1) : 1 + k - 1 = k
    OBVIOUS
  <2> HIDE DEF a
  <2> QED
    BY <2>1, <2>2, <2>3
<1>4. IsList(c) /\ Len(c) = Len(s) - i /\ \A k \in 1..(Len(s) - i) : c[k] = s[i + k]
  <2>1. /\ i + 1 \in 1..(Len(s) + 1) /\ Len(s) \in ((i + 1) - 1)..Len(s)
        /\ Len(s) - (i + 1) + 1 = Len(s) - i
    BY <1>1
  <2>2. /\ IsList(c) /\ Len(c) = Len(s) - (i + 1) + 1
        /\ \A k \in 1..(Len(s) - (i + 1) + 1) : c[k] = s[(i + 1) + k - 1]
    BY <2>1, Stretch
  <2>3. \A k \in 1..(Len(s) - i) : (i + 1) + k - 1 = i + k
    BY <1>1
  <2> HIDE DEF c
  <2> QED
    BY <2>1, <2>2, <2>3
<1> HIDE DEF a, c
<1> HIDE DEF t
<1>5. /\ IsList(t) /\ Len(t) = Len(a) + Len(c)
      /\ \A k \in 1..Len(a) : t[k] = a[k]
      /\ \A k \in (Len(a) + 1)..(Len(a) + Len(c)) : t[k] = c[k - Len(a)]
  <2>1. IsList(a) /\ IsList(c)
    BY <1>3, <1>4
  <2>2. /\ IsList(a \o c) /\ Len(a \o c) = Len(a) + Len(c)
        /\ \A k \in 1..Len(a) : (a \o c)[k] = a[k]
        /\ \A k \in (Len(a) + 1)..(Len(a) + Len(c)) : (a \o c)[k] = c[k - Len(a)]
    BY <2>1, Joining
  <2> QED
    BY <1>2, <2>2
<1>6. Len(t) = Len(s) - 1
  BY <1>1, <1>3, <1>4, <1>5
<1>7. \A k \in 1..(i - 1) : t[k] = s[k]
  BY <1>3, <1>5
<1>8. ASSUME NEW k \in i..(Len(s) - 1) PROVE t[k] = s[k + 1]
  <2>1. /\ k \in (Len(a) + 1)..(Len(a) + Len(c)) /\ k - Len(a) \in 1..(Len(s) - i)
        /\ i + (k - Len(a)) = k + 1
    BY <1>1, <1>3, <1>4
  <2> QED
    BY <1>4, <1>5, <2>1
<1> QED
  BY <1>1, <1>5, <1>6, <1>7, <1>8 DEF t

\* t is s with the bytes e after it, all of message j; s with the byte at h
\* changed; s without the byte at h.
BytesJoined(s, t, e, j) ==
  /\ IsList(t) /\ Len(t) = Len(s) + Len(e) /\ \A k \in 1..Len(s) : t[k] = s[k]
  /\ \A k \in 1..Len(e) : t[Len(s) + k] = [v |-> e[k], of |-> j]
ByteChanged(s, t, h, v) ==
  /\ IsList(t) /\ Len(t) = Len(s) /\ \A k \in 1..Len(s) : k # h => t[k] = s[k]
  /\ t[h] = [s[h] EXCEPT !.v = v]
ByteLost(s, t, h) ==
  /\ IsList(t) /\ Len(t) = Len(s) - 1 /\ \A k \in 1..(h - 1) : t[k] = s[k]
  /\ \A k \in h..(Len(s) - 1) : t[k] = s[k + 1]

\* A message put on the line.
LEMMA SendIs ==
  ASSUME WireShape, NEW m \in Traffic, Send(m), NEW n \in Nat, n = Len(sent)
  PROVE  /\ IsList(line') /\ buf' = buf /\ got' = got /\ hurt' = hurt
         /\ sent' = Append(sent, m) /\ BytesJoined(Stream, Stream', Encode(m), n + 1)
<1> DEFINE e == Encode(m)
           t == [i \in DOMAIN e |-> [v |-> e[i], of |-> Len(sent) + 1]]
           s == Stream
<1>1. /\ IsList(line) /\ IsList(buf) /\ IsList(s) /\ Len(s) \in Nat
  BY StreamIs DEF WireShape
<1>2. IsList(e) /\ Len(e) \in Nat /\ Len(e) > 0 /\ DOMAIN e = 1..Len(e)
  <2>1. IsList(e) /\ Len(e) = 6 + Len(m[2]) /\ Len(m[2]) \in 0..MaxPayload
    BY EncodeIs
  <2> HIDE DEF e
  <2>2. DOMAIN e = 1..Len(e)
    BY <2>1, Lists
  <2> QED
    BY <2>1, <2>2
<1>3. line' = line \o t /\ sent' = Append(sent, m) /\ buf' = buf /\ got' = got /\ hurt' = hurt
  BY DEF Send
<1> HIDE DEF e
<1>4. IsList(t) /\ Len(t) = Len(e) /\ \A k \in 1..Len(e) : t[k] = [v |-> e[k], of |-> n + 1]
  <2>1. t = [i \in 1..Len(e) |-> t[i]]
    BY <1>2
  <2>2. \A k \in 1..Len(e) : t[k] = [v |-> e[k], of |-> n + 1]
    BY <1>2
  <2> HIDE DEF t
  <2> QED
    BY <1>2, <2>1, <2>2, ListOf
<1> HIDE DEF t
<1>5. Stream' = s \o t
  <2>1. Stream' = buf \o (line \o t) /\ s = buf \o line
    BY <1>3 DEF Stream
  <2> QED
    BY SMTT(30), <1>1, <1>4, <2>1, JoinedThree
<1> HIDE DEF s
<1>6. /\ IsList(s \o t) /\ Len(s \o t) = Len(s) + Len(t)
      /\ \A k \in 1..Len(s) : (s \o t)[k] = s[k]
      /\ \A k \in (Len(s) + 1)..(Len(s) + Len(t)) : (s \o t)[k] = t[k - Len(s)]
  BY <1>1, <1>4, Joining
<1>7. ASSUME NEW k \in 1..Len(e) PROVE (s \o t)[Len(s) + k] = [v |-> e[k], of |-> n + 1]
  <2> DEFINE x == Len(s) + k
  <2>1. x \in (Len(s) + 1)..(Len(s) + Len(t)) /\ x - Len(s) = k
    BY <1>1, <1>2, <1>4
  <2> HIDE DEF x
  <2>2. (s \o t)[x] = t[k]
    BY <1>6, <2>1
  <2> QED
    BY <1>4, <2>2 DEF x
<1>8. IsList(line')
  BY <1>1, <1>3, <1>4, Joining
<1> QED
  <2> DEFINE w == Stream'
  <2>1. w = s \o t
    BY <1>5
  <2> HIDE DEF w
  <2>2. Len(w) = Len(s) + Len(e)
    BY <1>4, <1>6, <2>1
  <2>3. BytesJoined(s, w, e, n + 1)
    BY <1>6, <1>7, <2>1, <2>2 DEF BytesJoined
  <2> QED
    BY <1>3, <1>8, <2>3 DEF e, s, w

\* A byte of the line changed.
LEMMA DamageIs ==
  ASSUME WireShape, NEW i \in DOMAIN line, NEW v, Damage(i, v)
  PROVE  \E h \in 1..Len(Stream) :
           /\ IsList(line') /\ buf' = buf /\ got' = got /\ sent' = sent
           /\ hurt' = hurt \cup {Stream[h].of} /\ ByteChanged(Stream, Stream', h, v)
<1> DEFINE h == Len(buf) + i
           s == Stream
           u == [line EXCEPT ![i].v = v]
<1>1. /\ IsList(line) /\ IsList(buf) /\ IsList(s) /\ Len(s) = Len(buf) + Len(line)
      /\ Len(s) \in Nat /\ Len(buf) \in Nat /\ Len(line) \in Nat /\ DOMAIN line = 1..Len(line)
      /\ \A k \in 1..Len(buf) : s[k] = buf[k]
      /\ \A k \in (Len(buf) + 1)..(Len(buf) + Len(line)) : s[k] = line[k - Len(buf)]
  BY StreamIs, Lists DEF WireShape
<1>2. line' = u /\ hurt' = hurt \cup {line[i].of} /\ buf' = buf /\ got' = got /\ sent' = sent
  BY DEF Damage
<1>3. Stream' = buf \o u
  BY <1>2 DEF Stream
<1>4. /\ IsList(u) /\ Len(u) = Len(line) /\ \A k \in 1..Len(line) : k # i => u[k] = line[k]
      /\ u[i] = [line[i] EXCEPT !.v = v]
  <2>1. /\ u = [k \in 1..Len(line) |-> u[k]] /\ \A k \in 1..Len(line) : k # i => u[k] = line[k]
        /\ u[i] = [line[i] EXCEPT !.v = v]
    BY <1>1
  <2> HIDE DEF u
  <2> QED
    BY <1>1, <2>1, ListOf
<1> HIDE DEF u, s
<1>5. /\ IsList(buf \o u) /\ Len(buf \o u) = Len(buf) + Len(u)
      /\ \A k \in 1..Len(buf) : (buf \o u)[k] = buf[k]
      /\ \A k \in (Len(buf) + 1)..(Len(buf) + Len(u)) : (buf \o u)[k] = u[k - Len(buf)]
  <2>1. IsList(buf) /\ IsList(u)
    BY <1>1, <1>4
  <2> QED
    BY <2>1, Joining
<1>6. /\ h \in 1..Len(s) /\ h \in (Len(buf) + 1)..(Len(buf) + Len(line)) /\ h - Len(buf) = i
  BY <1>1
<1> HIDE DEF h
<1>7. s[h] = line[i] /\ (buf \o u)[h] = [s[h] EXCEPT !.v = v]
  BY <1>1, <1>4, <1>5, <1>6
<1>8. ASSUME NEW k \in 1..Len(s), k # h PROVE (buf \o u)[k] = s[k]
  <2>1. CASE k <= Len(buf)
    <3>1. k \in 1..Len(buf)
      BY <2>1
    <3> QED
      BY <1>1, <1>5, <3>1
  <2>2. CASE ~(k <= Len(buf))
    <3>1. /\ k \in (Len(buf) + 1)..(Len(buf) + Len(line)) /\ k - Len(buf) \in 1..Len(line)
          /\ k - Len(buf) # i
      BY <1>1, <1>6, <1>8, <2>2
    <3> QED
      BY <1>1, <1>4, <1>5, <3>1
  <2> QED
    BY <2>1, <2>2
<1>9. /\ IsList(line') /\ buf' = buf /\ got' = got /\ sent' = sent
      /\ hurt' = hurt \cup {s[h].of}
      /\ ByteChanged(s, Stream', h, v)
  <2> DEFINE w == Stream'
  <2>1. w = buf \o u /\ Len(buf \o u) = Len(s)
    BY <1>1, <1>3, <1>4, <1>5
  <2> HIDE DEF w
  <2>2. ByteChanged(s, w, h, v)
    BY <1>5, <1>7, <1>8, <2>1 DEF ByteChanged
  <2> QED
    BY <1>1, <1>2, <1>4, <1>7, <2>2 DEF w
<1> QED
  BY <1>6, <1>9 DEF s

\* A byte of the line lost.
LEMMA LoseIs ==
  ASSUME WireShape, NEW i \in DOMAIN line, LoseByte(i)
  PROVE  \E h \in 1..Len(Stream) :
           /\ IsList(line') /\ buf' = buf /\ got' = got /\ sent' = sent
           /\ hurt' = hurt \cup {Stream[h].of} /\ ByteLost(Stream, Stream', h)
<1> DEFINE h == Len(buf) + i
           s == Stream
           u == RemoveAt(line, i)
<1>1. /\ IsList(line) /\ IsList(buf) /\ IsList(s) /\ Len(s) = Len(buf) + Len(line)
      /\ Len(s) \in Nat /\ Len(buf) \in Nat /\ Len(line) \in Nat /\ i \in 1..Len(line)
      /\ \A k \in 1..Len(buf) : s[k] = buf[k]
      /\ \A k \in (Len(buf) + 1)..(Len(buf) + Len(line)) : s[k] = line[k - Len(buf)]
  BY StreamIs, Lists DEF WireShape
<1>2. line' = u /\ hurt' = hurt \cup {line[i].of} /\ buf' = buf /\ got' = got /\ sent' = sent
  BY DEF LoseByte
<1>3. Stream' = buf \o u
  BY <1>2 DEF Stream
<1>4. /\ IsList(u) /\ Len(u) = Len(line) - 1
      /\ \A k \in 1..(i - 1) : u[k] = line[k]
      /\ \A k \in i..(Len(line) - 1) : u[k] = line[k + 1]
  BY <1>1, Snipped
<1> HIDE DEF u, s
<1>5. /\ IsList(buf \o u) /\ Len(buf \o u) = Len(buf) + Len(u)
      /\ \A k \in 1..Len(buf) : (buf \o u)[k] = buf[k]
      /\ \A k \in (Len(buf) + 1)..(Len(buf) + Len(u)) : (buf \o u)[k] = u[k - Len(buf)]
  <2>1. IsList(buf) /\ IsList(u)
    BY <1>1, <1>4
  <2> QED
    BY <2>1, Joining
<1>6. /\ h \in 1..Len(s) /\ h \in (Len(buf) + 1)..(Len(buf) + Len(line)) /\ h - Len(buf) = i
      /\ h > Len(buf)
  BY <1>1
<1> HIDE DEF h
<1>7. s[h] = line[i]
  BY <1>1, <1>6
<1>8. ASSUME NEW k \in 1..(h - 1) PROVE (buf \o u)[k] = s[k]
  <2>1. CASE k <= Len(buf)
    <3>1. k \in 1..Len(buf)
      BY <2>1
    <3> QED
      BY <1>1, <1>5, <3>1
  <2>2. CASE ~(k <= Len(buf))
    <3>1. /\ k \in (Len(buf) + 1)..(Len(buf) + Len(line)) /\ k - Len(buf) \in 1..(i - 1)
          /\ k \in (Len(buf) + 1)..(Len(buf) + Len(u))
      BY <1>1, <1>4, <1>6, <2>2
    <3> QED
      BY <1>1, <1>4, <1>5, <3>1
  <2> QED
    BY <2>1, <2>2
<1>9. ASSUME NEW k \in h..(Len(s) - 1) PROVE (buf \o u)[k] = s[k + 1]
  <2> DEFINE x == k + 1
             y == k - Len(buf)
  <2>1. /\ k \in (Len(buf) + 1)..(Len(buf) + Len(u)) /\ y \in i..(Len(line) - 1)
        /\ x \in (Len(buf) + 1)..(Len(buf) + Len(line)) /\ x - Len(buf) = y + 1
    BY <1>1, <1>4, <1>6
  <2>2. (buf \o u)[k] = u[y]
    BY <1>5, <2>1
  <2> HIDE DEF x, y
  <2>3. u[y] = line[y + 1] /\ s[x] = line[y + 1]
    BY <1>1, <1>4, <2>1
  <2> QED
    BY <2>2, <2>3 DEF x
<1>10. Len(buf \o u) = Len(s) - 1
  BY <1>1, <1>4, <1>5
<1>11. IsList(line')
  BY <1>2, <1>4
<1>12. /\ IsList(line') /\ buf' = buf /\ got' = got /\ sent' = sent
       /\ hurt' = hurt \cup {s[h].of} /\ ByteLost(s, Stream', h)
  <2> DEFINE w == Stream'
  <2>1. w = buf \o u
    BY <1>3
  <2> HIDE DEF w
  <2>2. ByteLost(s, w, h)
    BY <1>5, <1>8, <1>9, <1>10, <2>1 DEF ByteLost
  <2> QED
    BY <1>2, <1>7, <1>11, <2>2 DEF w
<1> QED
  BY <1>6, <1>12 DEF s

-------------------------------------------------------------------------------
(* Reads may cut the stream anywhere.                                          *)

\* WireShape holds at first and is kept by every step of the line and its reader.
LEMMA WireShapeKept ==
  /\ WireInit => WireShape
  /\ WireShape /\ sent \in Seq(Traffic) /\ [WireNext]_wireVars => WireShape' /\ sent' \in Seq(Traffic)
<1>1. WireInit => WireShape
  <2>1. MaxPayload \in Nat /\ Len(<<>>) = 0
    BY WireAssumption
  <2> QED
    BY <2>1, Lists DEF WireInit, WireShape
<1>2. SUFFICES ASSUME WireShape, sent \in Seq(Traffic), [WireNext]_wireVars
               PROVE  WireShape' /\ sent' \in Seq(Traffic)
  BY <1>1
<1>3. ASSUME NEW m \in Traffic, Send(m) PROVE WireShape' /\ sent' \in Seq(Traffic)
  <2>1. Len(sent) \in Nat /\ Append(sent, m) \in Seq(Traffic)
    BY <1>2, <1>3
  <2> DEFINE n == Len(sent)
  <2>2. n \in Nat /\ n = Len(sent)
    BY <2>1
  <2> HIDE DEF n
  <2>3. IsList(line') /\ buf' = buf /\ got' = got /\ sent' = Append(sent, m)
    BY <1>2, <1>3, <2>2, SendIs
  <2> QED
    BY <1>2, <2>1, <2>3 DEF WireShape
<1>4. ASSUME NEW i \in DOMAIN line, NEW v, Damage(i, v) PROVE WireShape' /\ sent' \in Seq(Traffic)
  <2>1. IsList(line') /\ buf' = buf /\ got' = got /\ sent' = sent
    BY <1>2, <1>4, DamageIs
  <2> QED
    BY <1>2, <2>1 DEF WireShape
<1>5. ASSUME NEW i \in DOMAIN line, LoseByte(i) PROVE WireShape' /\ sent' \in Seq(Traffic)
  <2>1. IsList(line') /\ buf' = buf /\ got' = got /\ sent' = sent
    BY <1>2, <1>5, LoseIs
  <2> QED
    BY <1>2, <2>1 DEF WireShape
<1>6. ASSUME NEW n \in 1..Len(line), ReadChunk(n) PROVE WireShape' /\ sent' \in Seq(Traffic)
  <2>1. PICK b : \E at \in 1..(Len(b) + 1) :
           /\ Len(b) - at + 1 < MaxPayload + 6
           /\ IsList(Scan(b)[1].msgs) /\ got' = got \o Scan(b)[1].msgs
           /\ IsList(buf') /\ Len(buf') = Len(b) - at + 1 /\ IsList(line')
    BY <1>2, <1>6, ReadIs
  <2>2. /\ IsList(Scan(b)[1].msgs) /\ got' = got \o Scan(b)[1].msgs
        /\ IsList(buf') /\ Len(buf') < MaxPayload + 6 /\ IsList(line')
    BY <2>1
  <2>3. IsList(got')
    BY <1>2, <2>2, Joining DEF WireShape
  <2>4. sent' = sent
    BY <1>6 DEF ReadChunk
  <2> QED
    BY <1>2, <2>2, <2>3, <2>4 DEF WireShape
<1>7. CASE UNCHANGED wireVars
  BY <1>2, <1>7 DEF WireShape, wireVars
<1> QED
  BY <1>2, <1>3, <1>4, <1>5, <1>6, <1>7 DEF WireNext

\* A read cuts the stream, and with it what is decoded and what is to come.
LEMMA ReadCuts ==
  ASSUME WireShape, NEW n \in 1..Len(line), ReadChunk(n)
  PROVE  \E b : \E at \in 1..(Len(b) + 1) :
           LET d == Bytes(Stream) \o Quiet
           IN /\ IsList(b) /\ Len(b) <= Len(Stream) /\ \A k \in 1..Len(b) : b[k] = Stream[k].v
              /\ at = Scan(b)[1].at /\ at \in 1..(Len(Stream) + 1)
              /\ IsList(Scan(b)[1].msgs) /\ got' = got \o Scan(b)[1].msgs
              /\ IsList(Stream') /\ Len(Stream') = Len(Stream) - at + 1
              /\ \A k \in 1..Len(Stream') : Stream'[k] = Stream[k + (at - 1)]
              /\ Scan(d)[1].msgs = Scan(b)[1].msgs \o Scan(d)[at].msgs
              /\ Scan(Bytes(Stream') \o Quiet)[1].msgs = Scan(d)[at].msgs
              /\ IsList(Scan(d)[at].msgs)
<1>1. PICK b : \E at \in 1..(Len(b) + 1) :
           /\ IsList(b) /\ Len(b) <= Len(Stream) /\ \A k \in 1..Len(b) : b[k] = Stream[k].v
           /\ at = Scan(b)[1].at
           /\ IsList(Scan(b)[1].msgs) /\ got' = got \o Scan(b)[1].msgs
           /\ IsList(Stream') /\ Len(Stream') = Len(Stream) - at + 1
           /\ \A k \in 1..Len(Stream') : Stream'[k] = Stream[k + (at - 1)]
  BY ReadIs
<1>2. PICK at \in 1..(Len(b) + 1) :
           /\ IsList(b) /\ Len(b) <= Len(Stream) /\ \A k \in 1..Len(b) : b[k] = Stream[k].v
           /\ at = Scan(b)[1].at
           /\ IsList(Scan(b)[1].msgs) /\ got' = got \o Scan(b)[1].msgs
           /\ IsList(Stream') /\ Len(Stream') = Len(Stream) - at + 1
           /\ \A k \in 1..Len(Stream') : Stream'[k] = Stream[k + (at - 1)]
  BY <1>1
<1> DEFINE s == Stream
           t == Stream'
           c == Bytes(s)
           u == Bytes(t)
           d == c \o Quiet
           e == u \o Quiet
           o == at - 1
<1>3. IsList(s) /\ Len(s) \in Nat /\ Len(b) \in Nat
  BY <1>2, StreamIs, Lists
<1>4. IsList(t) /\ Len(t) = Len(s) - at + 1 /\ \A k \in 1..Len(t) : t[k] = s[k + o]
  BY <1>2
<1>6. IsList(b) /\ Len(b) <= Len(s) /\ \A k \in 1..Len(b) : b[k] = s[k].v
  BY <1>2
<1> HIDE DEF s, t
<1>5. o \in Nat /\ at = o + 1 /\ o + Len(t) = Len(s) /\ Len(t) \in Nat /\ at \in 1..(Len(s) + 1)
  BY <1>3, <1>4, <1>6
<1> HIDE DEF o
<1>7. IsList(c) /\ Len(c) = Len(s) /\ \A k \in 1..Len(s) : c[k] = s[k].v
  BY <1>3, BytesIs
<1>8. IsList(u) /\ Len(u) = Len(t) /\ \A k \in 1..Len(t) : u[k] = t[k].v
  BY <1>4, BytesIs
<1> HIDE DEF c, u
<1>9. /\ IsList(d) /\ Len(d) = Len(s) + MaxPayload + 6 /\ MaxPayload \in Nat
      /\ \A k \in 1..Len(s) : d[k] = c[k]
      /\ \A k \in (Len(s) + 1)..(Len(s) + MaxPayload + 6) : d[k] = Magic1
  BY <1>7, QuietAfter
<1>10. /\ IsList(e) /\ Len(e) = Len(t) + MaxPayload + 6
       /\ \A k \in 1..Len(t) : e[k] = u[k]
       /\ \A k \in (Len(t) + 1)..(Len(t) + MaxPayload + 6) : e[k] = Magic1
  BY <1>8, QuietAfter
<1> HIDE DEF d, e
<1>11. Scan(d)[1].msgs = Scan(b)[1].msgs \o Scan(d)[at].msgs
  <2>1. /\ IsList(b) /\ IsList(d) /\ Len(b) <= Len(d) /\ 1 \in 1..(Len(b) + 1)
        /\ \A k \in 1..Len(b) : d[k] = b[k]
    BY <1>3, <1>6, <1>7, <1>9
  <2>2. Scan(d)[1].msgs = Scan(b)[1].msgs \o Scan(d)[Scan(b)[1].at].msgs
    BY <2>1, CutScan
  <2> QED
    BY <1>2, <2>2
<1>12. Scan(e)[1].msgs = Scan(d)[at].msgs
  <2>1. IsList(e) /\ IsList(d) /\ o \in Nat /\ o + Len(e) = Len(d) /\ 1 \in 1..(Len(e) + 1)
    BY SMTT(30), <1>3, <1>5, <1>9, <1>10
  <2>2. ASSUME NEW k \in 1..Len(e) PROVE d[k + o] = e[k]
    <3> DEFINE x == k + o
    <3>1. CASE k <= Len(t)
      <4>1. k \in 1..Len(t) /\ x \in 1..Len(s)
        BY <1>5, <3>1
      <4>2. t[k] = s[x]
        BY <1>4, <4>1
      <4> HIDE DEF x
      <4>3. d[x] = s[x].v /\ e[k] = t[k].v
        BY <1>7, <1>8, <1>9, <1>10, <4>1
      <4> QED
        BY <4>2, <4>3 DEF x
    <3>2. CASE ~(k <= Len(t))
      <4>1. /\ k \in (Len(t) + 1)..(Len(t) + MaxPayload + 6)
            /\ x \in (Len(s) + 1)..(Len(s) + MaxPayload + 6)
        BY <1>3, <1>5, <1>9, <1>10, <3>2
      <4> HIDE DEF x
      <4>2. d[x] = Magic1 /\ e[k] = Magic1
        BY <1>9, <1>10, <4>1
      <4> QED
        BY <4>2 DEF x
    <3> QED
      BY <3>1, <3>2
  <2>3. Scan(e)[1].msgs = Scan(d)[1 + o].msgs
    BY <2>1, <2>2, ShiftScan
  <2>4. 1 + o = at
    BY <1>5
  <2> QED
    BY <2>3, <2>4
<1>13. IsList(Scan(d)[at].msgs)
  <2>1. at \in 1..(Len(d) + 1)
    BY <1>3, <1>5, <1>9
  <2> QED
    BY <1>9, <2>1, ScanEnds
<1>14. Scan(Bytes(Stream') \o Quiet)[1].msgs = Scan(Bytes(Stream) \o Quiet)[at].msgs
  BY <1>12 DEF e, u, t, d, c, s
<1>15. Scan(Bytes(Stream) \o Quiet)[1].msgs = Scan(b)[1].msgs \o Scan(Bytes(Stream) \o Quiet)[at].msgs
  BY <1>11 DEF d, c, s
<1>16. IsList(Scan(Bytes(Stream) \o Quiet)[at].msgs) /\ at \in 1..(Len(Stream) + 1)
  BY <1>5, <1>13 DEF d, c, s
<1> QED
  BY <1>2, <1>14, <1>15, <1>16

\* What is decoded and will be does not depend on where the reads cut the stream.
LEMMA CutSame ==
  ASSUME WireShape, NEW n \in 1..Len(line), ReadChunk(n)
  PROVE  Decoded' = Decoded
<1> DEFINE d == Bytes(Stream) \o Quiet
<1>1. PICK b : \E at \in 1..(Len(b) + 1) :
              /\ IsList(Scan(b)[1].msgs) /\ got' = got \o Scan(b)[1].msgs
              /\ Scan(d)[1].msgs = Scan(b)[1].msgs \o Scan(d)[at].msgs
              /\ Scan(Bytes(Stream') \o Quiet)[1].msgs = Scan(d)[at].msgs
              /\ IsList(Scan(d)[at].msgs)
  BY ReadCuts
<1>2. PICK at \in 1..(Len(b) + 1) :
              /\ IsList(Scan(b)[1].msgs) /\ got' = got \o Scan(b)[1].msgs
              /\ Scan(d)[1].msgs = Scan(b)[1].msgs \o Scan(d)[at].msgs
              /\ Scan(Bytes(Stream') \o Quiet)[1].msgs = Scan(d)[at].msgs
              /\ IsList(Scan(d)[at].msgs)
  BY <1>1
<1>3. Decoded' = (got \o Scan(b)[1].msgs) \o Scan(d)[at].msgs
  BY <1>2 DEF Decoded, Feed
<1>4. Decoded = got \o (Scan(b)[1].msgs \o Scan(d)[at].msgs)
  BY <1>2 DEF Decoded, Feed
<1>5. IsList(got)
  BY DEF WireShape
<1> HIDE DEF d
<1> DEFINE x == Scan(b)[1].msgs
           y == Scan(d)[at].msgs
<1>6. IsList(x) /\ IsList(y)
  BY <1>2
<1>7. Decoded' = (got \o x) \o y /\ Decoded = got \o (x \o y)
  BY <1>3, <1>4
<1> HIDE DEF x, y
<1>8. (got \o x) \o y = got \o (x \o y)
  BY <1>5, <1>6, JoinedThree
<1> QED
  BY <1>7, <1>8

\* Where a read cuts the stream does not change what comes out of it.
THEOREM CutsDoNotMatter ==
  WireSpec => [][\A n \in 1..Len(line) : ReadChunk(n) => Decoded' = Decoded]_wireVars
<1>1. WireInit => WireShape /\ sent \in Seq(Traffic)
  BY WireShapeKept DEF WireInit
<1>2. WireShape /\ sent \in Seq(Traffic) /\ [WireNext]_wireVars => (WireShape /\ sent \in Seq(Traffic))'
  BY WireShapeKept
<1>3. WireShape /\ sent \in Seq(Traffic) /\ [WireNext]_wireVars
        => [\A n \in 1..Len(line) : ReadChunk(n) => Decoded' = Decoded]_wireVars
  BY CutSame
<1> QED
  BY <1>1, <1>2, <1>3, PTL DEF WireSpec

-------------------------------------------------------------------------------
(* What a step does to the stream and to the messages that came out of it.     *)

\* The messages that no fault touched and that are no longer under way.
Through(s, q, H) ==
  {j \in DOMAIN q : /\ j \notin H /\ ParsePayload(q[j][1], q[j][2])
                    /\ \A k \in 1..Len(s) : s[k].of # j}

\* After a step: the stream t of the messages r, those in G damaged, has as past
\* what s had, and is of the same messages but for those in N.
StreamKept(s, q, H, t, r, G, N) ==
  /\ Framed(t, r, G) /\ Through(t, r, G) = Through(s, q, H)
  /\ \A k \in 1..Len(t) : t[k].of \in N \/ \E i \in 1..Len(s) : t[k].of = s[i].of

\* A message that is whole somewhere has a length, and its place is in the stream.
LEMMA WholeIs ==
  ASSUME NEW q \in Seq(Traffic), NEW j \in DOMAIN q
  PROVE  Len(Encode(q[j])) \in Nat /\ Len(Encode(q[j])) > 0
<1>1. q[j] \in Traffic
  <2>1. \A h \in DOMAIN q : q[h] \in Traffic
    OBVIOUS
  <2> QED
    BY <2>1
<1>2. Len(Encode(q[j])) = 6 + Len(q[j][2]) /\ Len(q[j][2]) \in 0..MaxPayload /\ MaxPayload \in Nat
  BY <1>1, EncodeIs, WireAssumption
<1> QED
  BY <1>2

\* A changed byte leaves the messages it is not of as they were.
LEMMA Damaged ==
  ASSUME NEW q \in Seq(Traffic), NEW H, NEW s, Framed(s, q, H), NEW h \in 1..Len(s), NEW v,
         NEW t, ByteChanged(s, t, h, v), NEW G, G = H \cup {s[h].of}
  PROVE  StreamKept(s, q, H, t, q, G, {})
<1> SUFFICES ASSUME IsList(t), Len(t) = Len(s), \A k \in 1..Len(s) : k # h => t[k] = s[k],
                    t[h] = [s[h] EXCEPT !.v = v]
             PROVE  StreamKept(s, q, H, t, q, G, {})
  BY DEF ByteChanged
<1> DEFINE j0 == s[h].of
<1>1. Len(s) \in Nat
  BY Lists DEF Framed
<1>2. \A k \in 1..Len(s) : t[k] = [v |-> t[k].v, of |-> t[k].of] /\ t[k].of = s[k].of
  <2>1. s[h] = [v |-> s[h].v, of |-> s[h].of]
    BY DEF Framed
  <2>2. t[h] = [v |-> v, of |-> s[h].of]
    BY <2>1
  <2>3. ASSUME NEW k \in 1..Len(s), k # h
        PROVE  t[k] = [v |-> t[k].v, of |-> t[k].of] /\ t[k].of = s[k].of
    BY <2>3 DEF Framed
  <2> QED
    BY <2>2, <2>3
<1>3. ASSUME NEW i \in 1..Len(t), t[i].of \notin G
      PROVE  \E p \in 1..Len(t) : Whole(t, p, t[i].of, q)
  <2> DEFINE j == s[i].of
  <2>1. j \notin H /\ j # j0 /\ t[i].of = j /\ j \in DOMAIN q
    BY <1>2, <1>3 DEF Framed
  <2>2. PICK p \in 1..Len(s) : Whole(s, p, j, q)
    BY <2>1 DEF Framed
  <2> DEFINE L == Len(Encode(q[j]))
  <2>3. L \in Nat
    BY <2>1, WholeIs
  <2>4. /\ p + L - 1 <= Len(s)
        /\ \A k \in 1..Len(s) : s[k].of = j <=> p <= k /\ k <= p + L - 1
        /\ \A k \in 1..L : s[p + k - 1].v = Encode(q[j])[k]
    BY <2>2 DEF Whole
  <2>5. ASSUME NEW k \in 1..L PROVE t[p + k - 1].v = Encode(q[j])[k]
    <3> DEFINE x == p + k - 1
    <3>1. x \in 1..Len(s) /\ p <= x /\ x <= p + L - 1 /\ s[x].v = Encode(q[j])[k]
      BY <1>1, <2>3, <2>4
    <3> HIDE DEF x
    <3>2. x # h
      BY <2>1, <2>4, <3>1
    <3>3. t[x].v = Encode(q[j])[k]
      BY <3>1, <3>2
    <3> QED
      BY <3>3 DEF x
  <2> HIDE DEF j
  <2>6. Whole(t, p, j, q)
    BY <1>2, <2>4, <2>5 DEF Whole
  <2> QED
    BY <2>1, <2>6
<1>4. Framed(t, q, G)
  <2>1. \A i \in 1..Len(t) : t[i] = [v |-> t[i].v, of |-> t[i].of] /\ t[i].of \in DOMAIN q
    BY <1>2 DEF Framed
  <2>2. \A i, k \in 1..Len(t) : i < k => t[i].of <= t[k].of
    BY <1>2 DEF Framed
  <2> QED
    BY <1>3, <2>1, <2>2 DEF Framed
<1>5. Through(t, q, G) = Through(s, q, H)
  <2>1. \A j : (\A k \in 1..Len(t) : t[k].of # j) <=> (\A k \in 1..Len(s) : s[k].of # j)
    BY <1>2
  <2>2. \A j : (\A k \in 1..Len(s) : s[k].of # j) => j # j0
    OBVIOUS
  <2> QED
    BY <2>1, <2>2 DEF Through
<1> QED
  <2>1. \A k \in 1..Len(t) : \E i \in 1..Len(s) : t[k].of = s[i].of
    BY <1>2
  <2> QED
    BY <1>4, <1>5, <2>1 DEF StreamKept

\* So does a lost one; what comes after it moves up.
LEMMA Snapped ==
  ASSUME NEW q \in Seq(Traffic), NEW H, NEW s, Framed(s, q, H), NEW h \in 1..Len(s),
         NEW t, ByteLost(s, t, h), NEW G, G = H \cup {s[h].of}
  PROVE  StreamKept(s, q, H, t, q, G, {})
<1> SUFFICES ASSUME IsList(t), Len(t) = Len(s) - 1, \A k \in 1..(h - 1) : t[k] = s[k],
                    \A k \in h..(Len(s) - 1) : t[k] = s[k + 1]
             PROVE  StreamKept(s, q, H, t, q, G, {})
  BY DEF ByteLost
<1> DEFINE j0 == s[h].of
           g(k) == IF k < h THEN k ELSE k + 1
<1>1. Len(s) \in Nat /\ Len(t) \in Nat
  BY Lists DEF Framed
<1>2. \A k \in 1..Len(t) : g(k) \in 1..Len(s) /\ g(k) # h /\ t[k] = s[g(k)]
  <2> TAKE k \in 1..Len(t)
  <2>1. CASE k < h
    <3>1. k \in 1..(h - 1) /\ g(k) = k /\ k \in 1..Len(s) /\ k # h
      BY <1>1, <2>1
    <3> QED
      BY <3>1
  <2>2. CASE ~(k < h)
    <3>1. k \in h..(Len(s) - 1) /\ g(k) = k + 1 /\ k + 1 \in 1..Len(s) /\ k + 1 # h
      BY <1>1, <2>2
    <3> QED
      BY <3>1
  <2> QED
    BY <2>1, <2>2
<1>3. \A i, k \in 1..Len(t) : i < k => g(i) < g(k)
  BY <1>1
<1>4. ASSUME NEW x \in 1..Len(s), x # h PROVE \E k \in 1..Len(t) : g(k) = x
  <2>1. CASE x < h
    <3>1. x \in 1..Len(t) /\ g(x) = x
      BY <1>1, <2>1
    <3> QED
      BY <3>1
  <2>2. CASE ~(x < h)
    <3>1. x - 1 \in 1..Len(t) /\ g(x - 1) = x
      BY <1>1, <1>4, <2>2
    <3> QED
      BY <3>1
  <2> QED
    BY <2>1, <2>2
<1>5. ASSUME NEW i \in 1..Len(t), t[i].of \notin G
      PROVE  \E p \in 1..Len(t) : Whole(t, p, t[i].of, q)
  <2> DEFINE j == s[g(i)].of
  <2>1. j \notin H /\ j # j0 /\ t[i].of = j /\ j \in DOMAIN q /\ g(i) \in 1..Len(s)
    <3>1. g(i) \in 1..Len(s) /\ t[i] = s[g(i)]
      BY <1>2
    <3> DEFINE x == g(i)
    <3> HIDE DEF x, g
    <3>2. s[x].of \in DOMAIN q /\ t[i].of = s[x].of
      BY <3>1 DEF Framed, x
    <3> QED
      BY <1>5, <3>1, <3>2 DEF x
  <2>2. PICK p \in 1..Len(s) : Whole(s, p, j, q)
    BY <2>1 DEF Framed
  <2> DEFINE L == Len(Encode(q[j]))
  <2>3. L \in Nat /\ L > 0
    BY <2>1, WholeIs
  <2>4. /\ p + L - 1 <= Len(s)
        /\ \A k \in 1..Len(s) : s[k].of = j <=> p <= k /\ k <= p + L - 1
        /\ \A k \in 1..L : s[p + k - 1].v = Encode(q[j])[k]
    BY <2>2 DEF Whole
  <2>5. ~(p <= h /\ h <= p + L - 1)
    BY <2>1, <2>4
  <2> DEFINE r == IF p < h THEN p ELSE p - 1
  <2> HIDE DEF j
  <2>6. r \in 1..Len(t) /\ r + L - 1 <= Len(t)
    BY <1>1, <2>3, <2>4, <2>5
  <2>7. \A k \in 1..Len(t) : (p <= g(k) /\ g(k) <= p + L - 1) <=> (r <= k /\ k <= r + L - 1)
    BY <1>1, <2>3, <2>4, <2>5
  <2>8. \A k \in 1..L : r + k - 1 \in 1..Len(t) /\ g(r + k - 1) = p + k - 1
    BY <1>1, <2>3, <2>4, <2>5
  <2> HIDE DEF r, g
  <2>9. \A k \in 1..Len(t) : t[k].of = j <=> r <= k /\ k <= r + L - 1
    BY SMTT(30), <1>2, <2>4, <2>7
  <2>10. ASSUME NEW k \in 1..L PROVE t[r + k - 1].v = Encode(q[j])[k]
    <3> DEFINE x == r + k - 1
    <3>1. x \in 1..Len(t) /\ g(x) = p + k - 1
      BY <2>8
    <3> HIDE DEF x
    <3>2. t[x] = s[p + k - 1]
      BY <1>2, <3>1
    <3>3. t[x].v = Encode(q[j])[k]
      BY <2>4, <3>2
    <3> QED
      BY <3>3 DEF x
  <2>11. Whole(t, r, j, q)
    BY <2>6, <2>9, <2>10 DEF Whole
  <2> QED
    BY <2>1, <2>6, <2>11
<1> HIDE DEF g
<1>6. Framed(t, q, G)
  <2>1. \A i \in 1..Len(t) : t[i] = [v |-> t[i].v, of |-> t[i].of] /\ t[i].of \in DOMAIN q
    BY <1>2 DEF Framed
  <2>2. \A i, k \in 1..Len(t) : i < k => t[i].of <= t[k].of
    BY <1>2, <1>3 DEF Framed
  <2> QED
    BY <1>5, <2>1, <2>2 DEF Framed
<1>7. Through(t, q, G) = Through(s, q, H)
  <2>1. ASSUME NEW j, j # j0
        PROVE  (\A k \in 1..Len(t) : t[k].of # j) <=> (\A k \in 1..Len(s) : s[k].of # j)
    <3>1. ASSUME NEW k \in 1..Len(t), t[k].of = j PROVE \E x \in 1..Len(s) : s[x].of = j
      BY <1>2, <3>1
    <3>2. ASSUME NEW x \in 1..Len(s), s[x].of = j PROVE \E k \in 1..Len(t) : t[k].of = j
      <4>1. x # h
        BY <2>1, <3>2
      <4> QED
        BY <1>2, <1>4, <3>2, <4>1
    <3> QED
      BY <3>1, <3>2
  <2>2. \A j : (\A k \in 1..Len(s) : s[k].of # j) => j # j0
    OBVIOUS
  <2> QED
    BY <2>1, <2>2 DEF Through
<1> QED
  <2>1. \A k \in 1..Len(t) : \E i \in 1..Len(s) : t[k].of = s[i].of
    BY <1>2
  <2> QED
    BY <1>6, <1>7, <2>1 DEF StreamKept

\* A message that is sent stands whole at the end.
LEMMA SentOn ==
  ASSUME NEW q \in Seq(Traffic), NEW H, H \subseteq DOMAIN q, NEW s, Framed(s, q, H),
         NEW n \in Nat, n = Len(q), NEW m \in Traffic, NEW t, BytesJoined(s, t, Encode(m), n + 1),
         NEW r, r = Append(q, m)
  PROVE  StreamKept(s, q, H, t, r, H, {n + 1})
<1> SUFFICES ASSUME IsList(t), Len(t) = Len(s) + Len(Encode(m)),
                    \A k \in 1..Len(s) : t[k] = s[k],
                    \A k \in 1..Len(Encode(m)) :
                      t[Len(s) + k] = [v |-> Encode(m)[k], of |-> n + 1]
             PROVE  StreamKept(s, q, H, t, r, H, {n + 1})
  BY DEF BytesJoined
<1> DEFINE E == Len(Encode(m))
<1>1. /\ r \in Seq(Traffic) /\ DOMAIN r = 1..(n + 1) /\ DOMAIN q = 1..n
      /\ r[n + 1] = m /\ \A j \in 1..n : r[j] = q[j]
  OBVIOUS
<1>2. E \in Nat /\ E > 0 /\ Len(r) = n + 1
  <2>1. n + 1 \in DOMAIN r
    BY <1>1
  <2>2. Len(r) = n + 1
    BY <1>1
  <2> QED
    BY <1>1, <2>1, <2>2, WholeIs
<1>3. Len(s) \in Nat /\ Len(t) = Len(s) + E /\ \A k \in 1..Len(s) : s[k].of \in 1..n
  BY <1>1, Lists DEF Framed
<1>4. \A k \in (Len(s) + 1)..Len(t) : t[k].of = n + 1 /\ t[k] = [v |-> t[k].v, of |-> t[k].of]
  <2> TAKE k \in (Len(s) + 1)..Len(t)
  <2> DEFINE x == k - Len(s)
  <2>1. x \in 1..E /\ Len(s) + x = k
    BY <1>2, <1>3
  <2> HIDE DEF x
  <2>2. t[k] = [v |-> Encode(m)[x], of |-> n + 1]
    BY <2>1
  <2> QED
    BY <2>2
<1>5. \A k \in 1..Len(t) : k \in 1..Len(s) \/ k \in (Len(s) + 1)..Len(t)
  BY <1>2, <1>3
<1>6. \A k \in 1..Len(t) : t[k] = [v |-> t[k].v, of |-> t[k].of] /\ t[k].of \in DOMAIN r
  <2> TAKE k \in 1..Len(t)
  <2>1. CASE k \in 1..Len(s)
    <3>1. t[k] = s[k] /\ s[k].of \in 1..n /\ s[k] = [v |-> s[k].v, of |-> s[k].of]
      BY <1>3, <2>1 DEF Framed
    <3> QED
      BY <1>1, <3>1
  <2>2. CASE k \in (Len(s) + 1)..Len(t)
    <3>1. n + 1 \in DOMAIN r
      BY <1>1
    <3>2. t[k].of = n + 1 /\ t[k] = [v |-> t[k].v, of |-> t[k].of]
      BY <1>4, <2>2
    <3> QED
      BY <3>1, <3>2
  <2> QED
    BY <1>5, <2>1, <2>2
<1>7. \A i, k \in 1..Len(t) : i < k => t[i].of <= t[k].of
  <2> TAKE i, k \in 1..Len(t)
  <2> HAVE i < k
  <2>1. CASE k \in 1..Len(s)
    <3>1. i \in 1..Len(s)
      BY <1>3, <2>1
    <3> QED
      BY <2>1, <3>1 DEF Framed
  <2>2. CASE k \in (Len(s) + 1)..Len(t)
    <3>1. t[k].of = n + 1 /\ t[i].of \in 1..(n + 1)
      BY <1>1, <1>4, <1>6, <2>2
    <3> QED
      BY <3>1
  <2> QED
    BY <1>5, <2>1, <2>2
<1>8. Whole(t, Len(s) + 1, n + 1, r)
  <2> DEFINE p == Len(s) + 1
  <2>1. p + E - 1 = Len(t) /\ p + E - 1 <= Len(t)
    BY <1>2, <1>3
  <2>2. ASSUME NEW k \in 1..Len(t) PROVE t[k].of = n + 1 <=> p <= k /\ k <= p + E - 1
    <3>1. CASE k \in 1..Len(s)
      <4>1. t[k].of \in 1..n /\ ~(p <= k)
        BY <1>3, <3>1
      <4> QED
        BY <4>1
    <3>2. CASE k \in (Len(s) + 1)..Len(t)
      <4>1. t[k].of = n + 1
        BY <1>4, <3>2
      <4>2. p <= k /\ k <= p + E - 1
        BY <1>3, <2>1, <3>2
      <4> QED
        BY <4>1, <4>2
    <3> QED
      BY <1>5, <3>1, <3>2
  <2>3. ASSUME NEW k \in 1..E PROVE t[p + k - 1].v = Encode(m)[k]
    <3>1. p + k - 1 = Len(s) + k
      BY <1>3
    <3>2. t[Len(s) + k] = [v |-> Encode(m)[k], of |-> n + 1]
      OBVIOUS
    <3>3. t[Len(s) + k].v = Encode(m)[k]
      BY <3>2
    <3> QED
      BY <3>1, <3>3
  <2> HIDE DEF p, E
  <2>4. Whole(t, p, n + 1, r)
    BY <1>1, <2>1, <2>2, <2>3 DEF Whole, E
  <2> QED
    BY <2>4 DEF p
<1>9. ASSUME NEW i \in 1..Len(t), t[i].of \notin H
      PROVE  \E p \in 1..Len(t) : Whole(t, p, t[i].of, r)
  <2>1. CASE i \in (Len(s) + 1)..Len(t)
    <3>1. t[i].of = n + 1
      BY <1>4, <2>1
    <3>2. Len(s) + 1 \in 1..Len(t)
      BY <1>2, <1>3
    <3> QED
      BY <1>8, <3>1, <3>2
  <2>2. CASE i \in 1..Len(s)
    <3> DEFINE j == s[i].of
    <3>1. t[i].of = j /\ j \in 1..n /\ j \notin H
      BY <1>3, <1>9, <2>2
    <3>2. PICK p \in 1..Len(s) : Whole(s, p, j, q)
      BY <2>2, <3>1 DEF Framed
    <3> DEFINE L == Len(Encode(q[j]))
    <3>3. L \in Nat
      BY <1>1, <3>1, WholeIs
    <3>4. /\ p + L - 1 <= Len(s)
          /\ \A k \in 1..Len(s) : s[k].of = j <=> p <= k /\ k <= p + L - 1
          /\ \A k \in 1..L : s[p + k - 1].v = Encode(q[j])[k]
      BY <3>2 DEF Whole
    <3> HIDE DEF j
    <3>5. r[j] = q[j] /\ p + L - 1 <= Len(t) /\ p \in 1..Len(t)
      BY <1>1, <1>2, <1>3, <3>1, <3>3, <3>4
    <3>6. ASSUME NEW k \in 1..Len(t) PROVE t[k].of = j <=> p <= k /\ k <= p + L - 1
      <4>1. CASE k \in 1..Len(s)
        BY <3>4, <4>1
      <4>2. CASE k \in (Len(s) + 1)..Len(t)
        <5>1. t[k].of = n + 1
          BY <1>4, <4>2
        <5>2. j # n + 1 /\ ~(k <= p + L - 1)
          BY <1>3, <3>1, <3>3, <3>4, <4>2
        <5> QED
          BY <5>1, <5>2
      <4> QED
        BY <1>5, <4>1, <4>2
    <3>7. ASSUME NEW k \in 1..L PROVE t[p + k - 1].v = Encode(q[j])[k]
      <4> DEFINE x == p + k - 1
      <4>1. x \in 1..Len(s) /\ s[x].v = Encode(q[j])[k]
        <5>1. p + k - 1 \in 1..Len(s)
          BY <3>3, <3>4
        <5> QED
          BY <3>4, <5>1
      <4> HIDE DEF x
      <4>2. t[x].v = Encode(q[j])[k]
        BY <4>1
      <4> QED
        BY <4>2 DEF x
    <3>8. Whole(t, p, j, r)
      BY <3>5, <3>6, <3>7 DEF Whole
    <3> QED
      BY <3>1, <3>5, <3>8
  <2> QED
    BY <1>5, <2>1, <2>2
<1>10. Framed(t, r, H)
  BY <1>6, <1>7, <1>9 DEF Framed
<1>11. Through(t, r, H) = Through(s, q, H)
  <2>1. ASSUME NEW j \in Through(t, r, H) PROVE j \in Through(s, q, H)
    <3>1. /\ j \in 1..(n + 1) /\ j \notin H /\ ParsePayload(r[j][1], r[j][2])
          /\ \A k \in 1..Len(t) : t[k].of # j
      BY <1>1 DEF Through
    <3>2. Len(t) \in (Len(s) + 1)..Len(t) /\ Len(t) \in 1..Len(t)
      BY <1>2, <1>3
    <3>3. t[Len(t)].of = n + 1
      BY <1>4, <3>2
    <3>4. j \in 1..n
      BY <3>1, <3>2, <3>3
    <3>5. \A k \in 1..Len(s) : k \in 1..Len(t)
      BY <1>2, <1>3
    <3>6. \A k \in 1..Len(s) : s[k].of # j
      BY <3>1, <3>5
    <3> QED
      BY <1>1, <3>1, <3>4, <3>6 DEF Through
  <2>2. ASSUME NEW j \in Through(s, q, H) PROVE j \in Through(t, r, H)
    <3>1. /\ j \in 1..n /\ j \notin H /\ ParsePayload(q[j][1], q[j][2])
          /\ \A k \in 1..Len(s) : s[k].of # j
      BY <1>1 DEF Through
    <3>2. \A k \in 1..Len(t) : t[k].of # j
      <4> TAKE k \in 1..Len(t)
      <4>1. CASE k \in 1..Len(s)
        BY <3>1, <4>1
      <4>2. CASE k \in (Len(s) + 1)..Len(t)
        <5>1. t[k].of = n + 1
          BY <1>4, <4>2
        <5>2. j # n + 1
          BY <3>1
        <5> QED
          BY <5>1, <5>2
      <4> QED
        BY <1>5, <4>1, <4>2
    <3>3. j \in DOMAIN r /\ r[j] = q[j]
      BY <1>1, <3>1
    <3> QED
      BY <3>1, <3>2, <3>3 DEF Through
  <2> QED
    BY <2>1, <2>2
<1>12. \A k \in 1..Len(t) : t[k].of = n + 1 \/ \E i \in 1..Len(s) : t[k].of = s[i].of
  <2> TAKE k \in 1..Len(t)
  <2>1. CASE k \in 1..Len(s)
    BY <2>1
  <2>2. CASE k \in (Len(s) + 1)..Len(t)
    BY <1>4, <2>2
  <2> QED
    BY <1>5, <2>1, <2>2
<1> QED
  BY <1>10, <1>11, <1>12 DEF StreamKept

-------------------------------------------------------------------------------
(* What came out are the messages that are past, and nothing else.             *)

\* What came out are the messages through, and they are before all that is under way.
WireInv ==
  /\ WireShape /\ sent \in Seq(Traffic) /\ hurt \subseteq DOMAIN sent
  /\ Framed(Stream, sent, hurt)
  /\ got = Delivered(Through(Stream, sent, hurt), sent)
  /\ \A j \in Through(Stream, sent, hurt), i \in 1..Len(Stream) : j < Stream[i].of

\* What is told of some messages depends on those alone.
LEMMA DeliveredSame ==
  ASSUME NEW S \in SUBSET Int, IsFiniteSet(S), NEW q, NEW r, \A j \in S : q[j] = r[j]
  PROVE  Delivered(S, q) = Delivered(S, r)
<1> DEFINE at == InOrder(S, <)
<1>1. DOMAIN at = 1..Cardinality(S) /\ \A k \in 1..Cardinality(S) : at[k] \in S
  BY PlaceIs
<1> HIDE DEF at
<1>2. \A k \in DOMAIN at : q[at[k]] = r[at[k]]
  BY <1>1
<1>3. Delivered(S, q) = [k \in DOMAIN at |-> q[at[k]]] /\ Delivered(S, r) = [k \in DOMAIN at |-> r[at[k]]]
  BY DEF Delivered, at
<1> QED
  BY <1>2, <1>3

\* The messages that are past are finitely many numbers.
LEMMA ThroughIs ==
  ASSUME NEW q \in Seq(Traffic), NEW H, NEW s
  PROVE  /\ Through(s, q, H) \in SUBSET Int /\ IsFiniteSet(Through(s, q, H))
         /\ \A j \in Through(s, q, H) : j \in 1..Len(q)
<1>1. Len(q) \in Nat /\ DOMAIN q = 1..Len(q)
  OBVIOUS
<1>2. IsFiniteSet(1..Len(q)) /\ 1..Len(q) \subseteq Int
  BY <1>1, FS_Interval
<1>3. Through(s, q, H) \subseteq 1..Len(q)
  BY <1>1 DEF Through
<1> QED
  BY <1>2, <1>3, FS_Subset

\* At first nothing was sent.
LEMMA WireInvInit == WireInit => WireInv
<1>1. SUFFICES ASSUME WireInit PROVE WireInv
  OBVIOUS
<1>2. WireShape /\ sent \in Seq(Traffic) /\ hurt \subseteq DOMAIN sent
  BY <1>1, WireShapeKept DEF WireInit
<1>3. IsList(Stream) /\ Len(Stream) = 0
  <2>1. Len(<<>>) = 0
    OBVIOUS
  <2>2. Len(Stream) = Len(buf) + Len(line) /\ IsList(Stream)
    BY <1>2, StreamIs
  <2> QED
    BY <1>1, <2>1, <2>2 DEF WireInit
<1>4. 1..Len(Stream) = {}
  BY <1>3
<1>5. Framed(Stream, sent, hurt)
  BY <1>3, <1>4 DEF Framed
<1>6. Through(Stream, sent, hurt) = {}
  <2>1. DOMAIN sent = {}
    BY <1>1 DEF WireInit
  <2> QED
    BY <2>1 DEF Through
<1>7. got = Delivered({}, sent)
  BY <1>1, DeliveredFew DEF WireInit
<1> QED
  BY <1>2, <1>5, <1>6, <1>7 DEF WireInv

\* A message that is sent is not past.
LEMMA WireInvSend ==
  ASSUME WireInv, NEW m \in Traffic, Send(m), WireShape', sent' \in Seq(Traffic)
  PROVE  WireInv'
<1> DEFINE n == Len(sent)
           E == Encode(m)
           s == Stream
           t == Stream'
           q == sent
           P == Through(s, q, hurt)
<1>1. n \in Nat /\ n = Len(q) /\ q \in Seq(Traffic) /\ hurt \subseteq DOMAIN q /\ DOMAIN q = 1..n
  BY DEF WireInv
<1>2. Framed(s, q, hurt) /\ got = Delivered(P, q) /\ \A j \in P, i \in 1..Len(s) : j < s[i].of
  BY DEF WireInv
<1>3. got' = got /\ hurt' = hurt /\ sent' = Append(q, m) /\ BytesJoined(s, t, E, n + 1)
  <2>1. WireShape
    BY DEF WireInv
  <2> HIDE DEF n
  <2> QED
    BY <1>1, <2>1, SendIs
<1> HIDE DEF n, s, t
<1>4. /\ Framed(t, Append(q, m), hurt) /\ Through(t, Append(q, m), hurt) = P
      /\ \A k \in 1..Len(t) : t[k].of = n + 1 \/ \E i \in 1..Len(s) : t[k].of = s[i].of
  <2> DEFINE r == Append(q, m)
  <2>1. /\ q \in Seq(Traffic) /\ hurt \subseteq DOMAIN q /\ Framed(s, q, hurt)
        /\ n \in Nat /\ n = Len(q) /\ r = Append(q, m) /\ BytesJoined(s, t, Encode(m), n + 1)
    BY <1>1, <1>2, <1>3
  <2> HIDE DEF P, q, E, r
  <2>2. StreamKept(s, q, hurt, t, r, hurt, {n + 1})
    BY <2>1, SentOn
  <2>3. \A x \in {n + 1} : x = n + 1
    OBVIOUS
  <2> QED
    BY <2>2, <2>3 DEF StreamKept, P, r
<1>5. P \in SUBSET Int /\ IsFiniteSet(P) /\ \A j \in P : j \in 1..n
  BY <1>1, ThroughIs
<1> HIDE DEF P
<1>6. got = Delivered(P, Append(q, m))
  <2>1. \A j \in P : q[j] = Append(q, m)[j]
    BY <1>1, <1>5
  <2>2. Delivered(P, q) = Delivered(P, Append(q, m))
    BY <1>5, <2>1, DeliveredSame
  <2> QED
    BY <1>2, <2>2
<1>7. \A j \in P, k \in 1..Len(t) : j < t[k].of
  <2> TAKE j \in P, k \in 1..Len(t)
  <2>1. CASE t[k].of = n + 1
    BY <1>1, <1>5, <2>1
  <2>2. CASE \E i \in 1..Len(s) : t[k].of = s[i].of
    BY <1>2, <2>2
  <2> QED
    BY <1>4, <2>1, <2>2
<1>8. hurt' \subseteq DOMAIN (sent')
  BY <1>1, <1>3
<1>9. Through(Stream', sent', hurt') = P /\ Framed(Stream', sent', hurt')
  BY <1>3, <1>4 DEF t
<1>10. got' = Delivered(P, sent')
  BY <1>3, <1>6
<1> QED
  BY <1>7, <1>8, <1>9, <1>10 DEF WireInv, t

\* A message that a fault touches is under way, so not past.
LEMMA WireInvFault ==
  ASSUME WireInv, WireShape', sent' = sent, got' = got, NEW h \in 1..Len(Stream),
         hurt' = hurt \cup {Stream[h].of},
         StreamKept(Stream, sent, hurt, Stream', sent, hurt', {})
  PROVE  WireInv'
<1> DEFINE P == Through(Stream, sent, hurt)
<1>1. /\ sent \in Seq(Traffic) /\ hurt \subseteq DOMAIN sent
      /\ got = Delivered(P, sent) /\ \A j \in P, i \in 1..Len(Stream) : j < Stream[i].of
  BY DEF WireInv
<1>2. Stream[h].of \in DOMAIN sent
  BY DEF WireInv, Framed
<1>3. \A j \in P, i \in 1..Len(Stream') : j < Stream'[i].of
  BY <1>1 DEF StreamKept
<1>4. Through(Stream', sent', hurt') = P /\ Framed(Stream', sent', hurt')
  BY DEF StreamKept
<1> HIDE DEF P
<1>5. got' = Delivered(P, sent') /\ hurt' \subseteq DOMAIN (sent') /\ sent' \in Seq(Traffic)
  BY <1>1, <1>2
<1> QED
  BY <1>3, <1>4, <1>5 DEF WireInv

\* A read takes off the stream what it hands on.
LEMMA WireInvRead ==
  ASSUME WireInv, Honest(Stream, hurt), NEW n \in 1..Len(line), ReadChunk(n), WireShape'
  PROVE  WireInv'
<1> DEFINE s == Stream
           t == Stream'
           q == sent
           H == hurt
           d == Bytes(s) \o Quiet
           P == Through(s, q, H)
<1>1. /\ WireShape /\ q \in Seq(Traffic) /\ H \subseteq DOMAIN q /\ Framed(s, q, H)
      /\ got = Delivered(P, q) /\ \A j \in P, i \in 1..Len(s) : j < s[i].of
      /\ Honest(s, H)
  BY DEF WireInv
<1>2. PICK b : \E at \in 1..(Len(b) + 1) :
              /\ IsList(b) /\ Len(b) <= Len(s) /\ \A k \in 1..Len(b) : b[k] = s[k].v
              /\ at = Scan(b)[1].at /\ at \in 1..(Len(s) + 1)
              /\ IsList(Scan(b)[1].msgs) /\ got' = got \o Scan(b)[1].msgs
              /\ IsList(t) /\ Len(t) = Len(s) - at + 1
              /\ \A k \in 1..Len(t) : t[k] = s[k + (at - 1)]
              /\ Scan(d)[1].msgs = Scan(b)[1].msgs \o Scan(d)[at].msgs
              /\ IsList(Scan(d)[at].msgs)
  BY <1>1, ReadCuts
<1>3. PICK at \in 1..(Len(b) + 1) :
              /\ IsList(b) /\ Len(b) <= Len(s) /\ \A k \in 1..Len(b) : b[k] = s[k].v
              /\ at = Scan(b)[1].at /\ at \in 1..(Len(s) + 1)
              /\ IsList(Scan(b)[1].msgs) /\ got' = got \o Scan(b)[1].msgs
              /\ IsList(t) /\ Len(t) = Len(s) - at + 1
              /\ \A k \in 1..Len(t) : t[k] = s[k + (at - 1)]
              /\ Scan(d)[1].msgs = Scan(b)[1].msgs \o Scan(d)[at].msgs
              /\ IsList(Scan(d)[at].msgs)
  BY <1>2
<1>4. sent' = q /\ hurt' = H
  BY DEF ReadChunk
<1> DEFINE x == Scan(b)[1].msgs
           y == Scan(d)[at].msgs
           Y == Yet(s, q, H, 1)
           Z == Yet(s, q, H, at)
<1>5. /\ IsList(s) /\ Len(s) \in Nat /\ Len(b) \in Nat /\ 1 \in 1..(Len(b) + 1) /\ 1 \in 1..(Len(s) + 1)
  BY <1>1, <1>3, Lists DEF Framed
<1>6. Outside(s, H, 1)
  BY <1>5 DEF Outside
<1> HIDE DEF s, t
<1>7. Outside(s, H, at)
  <2>1. Outside(s, H, Scan(b)[1].at)
    <3>1. /\ IsList(b) /\ Len(b) <= Len(s) /\ \A k \in 1..Len(b) : b[k] = s[k].v
      BY <1>3
    <3> QED
      BY <1>1, <1>5, <1>6, <3>1, EndsOutside
  <2> QED
    BY <1>3, <2>1
<1>8. at \in 1..(Len(s) + 1) /\ IsList(t) /\ Len(t) = Len(s) - at + 1 /\ \A k \in 1..Len(t) : t[k] = s[k + (at - 1)]
  BY <1>3
<1>9. Framed(t, q, H) /\ Yet(t, q, H, 1) = Z
  BY <1>1, <1>7, <1>8, TailFramed
<1>10. Scan(d)[1].msgs = Delivered(Y, q) /\ y = Delivered(Z, q)
  BY <1>1, <1>5, <1>6, <1>7, <1>8, FindsWhole
<1>11. Delivered(Y, q) = x \o y /\ IsList(x) /\ IsList(y) /\ got' = got \o x
  BY <1>3, <1>10
<1> HIDE DEF x, y, d
<1>12. /\ Y \in SUBSET Int /\ IsFiniteSet(Y) /\ Z \in SUBSET Int /\ IsFiniteSet(Z)
       /\ P \in SUBSET Int /\ IsFiniteSet(P)
  BY <1>1, YetIs, ThroughIs
<1> DEFINE N == Y \ Z
<1>13. N \in SUBSET Int /\ IsFiniteSet(N) /\ Z \subseteq Y /\ Y = N \cup Z
  <2>1. Z \subseteq Y
    <3>1. \A k \in at..Len(s) : k \in 1..Len(s)
      BY <1>5, <1>8
    <3> QED
      BY <3>1 DEF Yet
  <2>2. IsFiniteSet(N)
    <3>1. N \subseteq Y
      OBVIOUS
    <3> HIDE DEF N, Y, Z
    <3> QED
      BY <1>12, <3>1, FS_Subset
  <2> QED
    BY <1>12, <2>1, <2>2
<1>14. ASSUME NEW j \in N, NEW k \in at..Len(s) PROVE j < s[k].of
  <2>1. PICK g \in 1..Len(s) : s[g].of = j
    BY DEF Yet
  <2>2. s[k].of # j
    BY <1>14 DEF Yet
  <2>3. g \notin at..Len(s)
    BY <2>1, <1>14 DEF Yet
  <2>4. k \in 1..Len(s) /\ g < k
    BY <1>5, <1>8, <2>3
  <2>5. s[g].of <= s[k].of /\ s[g].of \in DOMAIN q /\ s[k].of \in DOMAIN q
    BY <1>1, <2>4 DEF Framed
  <2>6. \A z \in DOMAIN q : z \in Int
    BY <1>1
  <2> QED
    BY <2>1, <2>2, <2>5, <2>6
<1>15. \A a \in N, z \in Z : a < z
  <2> TAKE a \in N, z \in Z
  <2>1. PICK k \in at..Len(s) : s[k].of = z
    BY DEF Yet
  <2> QED
    BY <1>14, <2>1
<1>16. \A a \in P, z \in N : a < z
  <2> TAKE a \in P, z \in N
  <2>1. PICK k \in 1..Len(s) : s[k].of = z
    BY DEF Yet
  <2> QED
    BY <1>1, <2>1
<1>17. Through(t, q, H) = P \cup N
  <2>1. ASSUME NEW j PROVE (\A k \in 1..Len(t) : t[k].of # j) <=> (\A k \in at..Len(s) : s[k].of # j)
    <3> DEFINE o == at - 1
    <3>1. o \in Nat /\ Len(t) \in Nat /\ Len(s) = Len(t) + o /\ at = o + 1 /\ \A k \in 1..Len(t) : t[k] = s[k + o]
      BY <1>5, <1>8
    <3> HIDE DEF o
    <3>2. ASSUME NEW k \in 1..Len(t), t[k].of = j PROVE \E i \in at..Len(s) : s[i].of = j
      <4>1. k + o \in at..Len(s) /\ t[k] = s[k + o]
        BY <3>1
      <4> QED
        BY <3>2, <4>1
    <3>3. ASSUME NEW i \in at..Len(s), s[i].of = j PROVE \E k \in 1..Len(t) : t[k].of = j
      <4>1. i - o \in 1..Len(t) /\ (i - o) + o = i
        BY <1>5, <3>1
      <4>2. t[i - o] = s[i]
        BY <3>1, <4>1
      <4> QED
        BY <3>3, <4>1, <4>2
    <3> QED
      BY <3>2, <3>3
  <2>2. \A k \in at..Len(s) : k \in 1..Len(s)
    BY <1>5, <1>8
  <2>3. ASSUME NEW j \in Through(t, q, H) PROVE j \in P \cup N
    BY <2>1 DEF Through, Yet
  <2>4. ASSUME NEW j \in P PROVE j \in Through(t, q, H)
    BY <2>1, <2>2 DEF Through
  <2>5. ASSUME NEW j \in N PROVE j \in Through(t, q, H)
    BY <2>1 DEF Through, Yet
  <2> QED
    BY <2>3, <2>4, <2>5
<1> HIDE DEF Y, Z, P, N
<1>18. Delivered(Y, q) = Delivered(N, q) \o Delivered(Z, q)
  <2>1. Delivered(N \cup Z, q) = Delivered(N, q) \o Delivered(Z, q)
    <3>1. /\ N \in SUBSET Int /\ IsFiniteSet(N) /\ Z \in SUBSET Int /\ IsFiniteSet(Z)
          /\ \A a \in N, z \in Z : a < z
      BY <1>12, <1>13, <1>15
    <3> QED
      BY <3>1, DeliveredJoined
  <2> QED
    BY <1>13, <2>1
<1>19. IsList(Delivered(N, q)) /\ IsList(Delivered(P, q))
  BY <1>12, <1>13, DeliveredIs
<1>20. x = Delivered(N, q)
  <2> DEFINE f == Delivered(N, q)
  <2>1. IsList(f) /\ IsList(x) /\ IsList(y) /\ x \o y = f \o y
    BY <1>10, <1>11, <1>18, <1>19
  <2> HIDE DEF f
  <2>2. x = f
    BY <2>1, SameBefore
  <2> QED
    BY <2>2 DEF f
<1>21. got' = Delivered(P \cup N, q)
  <2>1. Delivered(P \cup N, q) = Delivered(P, q) \o Delivered(N, q)
    BY <1>12, <1>13, <1>16, DeliveredJoined
  <2> QED
    BY <1>1, <1>11, <1>20, <2>1
<1>22. \A j \in P \cup N, k \in 1..Len(t) : j < t[k].of
  <2> TAKE j \in P \cup N, k \in 1..Len(t)
  <2> DEFINE z == k + (at - 1)
  <2>1. z \in at..Len(s) /\ z \in 1..Len(s) /\ t[k] = s[z]
    BY <1>5, <1>8
  <2> HIDE DEF z
  <2>2. j < s[z].of
    BY <1>1, <1>14, <2>1
  <2> QED
    BY <2>1, <2>2
<1>23. Through(Stream', sent', hurt') = P \cup N /\ Framed(Stream', sent', hurt')
  BY <1>4, <1>9, <1>17 DEF t
<1>24. got' = Delivered(P \cup N, sent') /\ sent' \in Seq(Traffic) /\ hurt' \subseteq DOMAIN (sent')
  BY <1>1, <1>4, <1>21
<1> QED
  BY <1>22, <1>23, <1>24 DEF WireInv, t

\* Every step keeps it, as long as no byte of a damaged message starts a frame.
LEMMA WireInvStep == WireInv /\ Honest(Stream, hurt) /\ [WireNext]_wireVars => WireInv'
<1>1. SUFFICES ASSUME WireInv, Honest(Stream, hurt), [WireNext]_wireVars PROVE WireInv'
  OBVIOUS
<1>2. WireShape /\ sent \in Seq(Traffic) /\ Framed(Stream, sent, hurt)
  BY <1>1 DEF WireInv
<1>3. WireShape' /\ sent' \in Seq(Traffic)
  BY <1>1, <1>2, WireShapeKept
<1>4. ASSUME NEW m \in Traffic, Send(m) PROVE WireInv'
  BY <1>1, <1>3, <1>4, WireInvSend
<1>5. ASSUME NEW i \in DOMAIN line, NEW v \in Noise, Damage(i, v) PROVE WireInv'
  <2>1. PICK h \in 1..Len(Stream) :
           /\ got' = got /\ sent' = sent /\ hurt' = hurt \cup {Stream[h].of}
           /\ ByteChanged(Stream, Stream', h, v)
    BY <1>2, <1>5, DamageIs
  <2>2. StreamKept(Stream, sent, hurt, Stream', sent, hurt', {})
    <3> DEFINE s == Stream
               t == Stream'
               G == hurt'
    <3>1. /\ sent \in Seq(Traffic) /\ Framed(s, sent, hurt) /\ h \in 1..Len(s)
          /\ ByteChanged(s, t, h, v) /\ G = hurt \cup {s[h].of}
      BY <1>2, <2>1
    <3> HIDE DEF s, t, G
    <3>2. StreamKept(s, sent, hurt, t, sent, G, {})
      BY <3>1, Damaged
    <3> QED
      BY <3>2 DEF s, t, G
  <2> QED
    BY <1>1, <1>3, <2>1, <2>2, WireInvFault
<1>6. ASSUME NEW i \in DOMAIN line, LoseByte(i) PROVE WireInv'
  <2>1. PICK h \in 1..Len(Stream) :
           /\ got' = got /\ sent' = sent /\ hurt' = hurt \cup {Stream[h].of}
           /\ ByteLost(Stream, Stream', h)
    BY <1>2, <1>6, LoseIs
  <2>2. StreamKept(Stream, sent, hurt, Stream', sent, hurt', {})
    <3> DEFINE s == Stream
               t == Stream'
               G == hurt'
    <3>1. /\ sent \in Seq(Traffic) /\ Framed(s, sent, hurt) /\ h \in 1..Len(s)
          /\ ByteLost(s, t, h) /\ G = hurt \cup {s[h].of}
      BY <1>2, <2>1
    <3> HIDE DEF s, t, G
    <3>2. StreamKept(s, sent, hurt, t, sent, G, {})
      BY <3>1, Snapped
    <3> QED
      BY <3>2 DEF s, t, G
  <2> QED
    BY <1>1, <1>3, <2>1, <2>2, WireInvFault
<1>7. ASSUME NEW n \in 1..Len(line), ReadChunk(n) PROVE WireInv'
  BY <1>1, <1>3, <1>7, WireInvRead
<1>8. CASE UNCHANGED wireVars
  <2>1. line' = line /\ buf' = buf /\ got' = got /\ sent' = sent /\ hurt' = hurt
    BY <1>8 DEF wireVars
  <2>2. Stream' = Stream
    BY <2>1 DEF Stream
  <2> QED
    BY <1>1, <1>3, <2>1, <2>2 DEF WireInv
<1> QED
  BY <1>1, <1>4, <1>5, <1>6, <1>7, <1>8 DEF WireNext

-------------------------------------------------------------------------------
(* What comes out in the end.                                                  *)

\* The messages no fault touched are those that are past and those to come.
LEMMA IntactIs ==
  ASSUME WireInv
  PROVE  Intact = Through(Stream, sent, hurt) \cup Yet(Stream, sent, hurt, 1)
BY DEF Intact, Through, Yet

\* In a state in which no byte of a damaged message starts a frame, all of them are told.
LEMMA AllDelivered == WireInv /\ Honest(Stream, hurt) => NothingSkipped
<1> SUFFICES ASSUME WireInv, Honest(Stream, hurt) PROVE NothingSkipped
  OBVIOUS
<1> DEFINE P == Through(Stream, sent, hurt)
           Y == Yet(Stream, sent, hurt, 1)
           d == Bytes(Stream) \o Quiet
<1>1. /\ sent \in Seq(Traffic) /\ Framed(Stream, sent, hurt) /\ got = Delivered(P, sent)
      /\ \A j \in P, i \in 1..Len(Stream) : j < Stream[i].of
  BY DEF WireInv
<1>2. Len(Stream) \in Nat /\ 1 \in 1..(Len(Stream) + 1)
  BY <1>1, Lists DEF Framed
<1>3. Outside(Stream, hurt, 1)
  BY <1>2 DEF Outside
<1>4. Scan(d)[1].msgs = Delivered(Y, sent)
  BY <1>1, <1>2, <1>3, FindsWhole
<1>5. P \in SUBSET Int /\ IsFiniteSet(P) /\ Y \in SUBSET Int /\ IsFiniteSet(Y)
  BY <1>1, ThroughIs, YetIs
<1>6. \A j \in P, x \in Y : j < x
  <2> TAKE j \in P, x \in Y
  <2>1. PICK k \in 1..Len(Stream) : Stream[k].of = x
    BY DEF Yet
  <2> QED
    BY <1>1, <2>1
<1>7. Decoded = got \o Scan(d)[1].msgs
  BY DEF Decoded, Feed
<1>8. Intact = P \cup Y
  BY IntactIs
<1> HIDE DEF P, Y, d
<1>9. Delivered(P \cup Y, sent) = Delivered(P, sent) \o Delivered(Y, sent)
  BY <1>5, <1>6, DeliveredJoined
<1>10. Decoded = Delivered(Intact, sent)
  BY <1>1, <1>4, <1>7, <1>8, <1>9
<1> QED
  BY <1>10 DEF Delivered, NothingSkipped

\* What came out are messages of the traffic.
LEMMA WireTypes == WireInv => WireTypeOK
<1> SUFFICES ASSUME WireInv PROVE WireTypeOK
  OBVIOUS
<1> DEFINE P == Through(Stream, sent, hurt)
           n == Cardinality(P)
<1>1. /\ sent \in Seq(Traffic) /\ hurt \subseteq DOMAIN sent /\ got = Delivered(P, sent)
      /\ Len(buf) < MaxPayload + 6 /\ IsList(got)
  BY DEF WireInv, WireShape
<1>2. P \in SUBSET Int /\ IsFiniteSet(P) /\ \A j \in P : j \in 1..Len(sent)
  BY <1>1, ThroughIs
<1> HIDE DEF P
<1>3. Len(got) = n /\ n \in Nat /\ \A k \in 1..n : got[k] = sent[InOrder(P, <)[k]]
  BY <1>1, <1>2, DeliveredIs
<1>4. \A k \in 1..n : InOrder(P, <)[k] \in P
  BY <1>2, PlaceIs
<1>5. \A j \in P : sent[j] \in Traffic
  BY <1>1, <1>2
<1>6. \A k \in 1..n : got[k] \in Traffic
  BY <1>3, <1>4, <1>5
<1>7. got = [k \in 1..n |-> got[k]]
  BY <1>1, <1>3, ListIs
<1>8. got \in Seq(Traffic)
  <2>1. n \in Nat
    BY <1>3
  <2> HIDE DEF n
  <2>2. [k \in 1..n |-> got[k]] \in Seq(Traffic)
    BY <1>6, <2>1
  <2> QED
    BY <1>7, <2>2
<1> QED
  BY <1>1, <1>8 DEF WireTypeOK

\* The hypothesis in the terms of the proof.
LEMMA HonestIs == WireInv /\ NoForgery => Honest(Stream, hurt)
<1>1. WireInv => DOMAIN Stream = 1..Len(Stream)
  BY Lists DEF WireInv, Framed
<1> QED
  BY <1>1 DEF NoForgery, Honest

\* The decoder holds back less than one frame of the greatest length, whatever the
\* faults on the line (StreamDecoder.buf).
THEOREM BufferBounded == WireSpec => [](Len(buf) < MaxPayload + 6)
<1>1. WireInit => WireShape /\ sent \in Seq(Traffic)
  BY WireShapeKept DEF WireInit
<1>2. WireShape /\ sent \in Seq(Traffic) /\ [WireNext]_wireVars => (WireShape /\ sent \in Seq(Traffic))'
  BY WireShapeKept
<1>3. WireShape => Len(buf) < MaxPayload + 6
  BY DEF WireShape
<1> QED
  BY <1>1, <1>2, <1>3, PTL DEF WireSpec

\* Every message that no fault touched comes out once, in order and unchanged, and
\* nothing else does, if no byte of a damaged message starts a frame by chance.
THEOREM IntactComeOut == WireSpec /\ []NoForgery => []NothingSkipped
<1>1. WireInit => WireInv
  BY WireInvInit
<1>2. WireInv /\ NoForgery /\ [WireNext]_wireVars => WireInv'
  BY WireInvStep, HonestIs
<1>3. WireInv /\ NoForgery => NothingSkipped
  BY AllDelivered, HonestIs
<1> QED
  BY <1>1, <1>2, <1>3, PTL DEF WireSpec

\* The lists of messages stay lists of messages of the traffic, and a fault always
\* touches one that was sent.
THEOREM WireTyped == WireSpec /\ []NoForgery => []WireTypeOK
<1>1. WireInit => WireInv
  BY WireInvInit
<1>2. WireInv /\ NoForgery /\ [WireNext]_wireVars => WireInv'
  BY WireInvStep, HonestIs
<1>3. WireInv => WireTypeOK
  BY WireTypes
<1> QED
  BY <1>1, <1>2, <1>3, PTL DEF WireSpec

\* On a line that loses and changes nothing every message comes out, with no
\* hypothesis about the checksum.
THEOREM CleanLine == WireSpec => [](hurt = {} => NothingSkipped)
<1> DEFINE Clean == hurt = {} => WireInv
<1>1. WireInit => Clean
  BY WireInvInit
<1>2. hurt = {} => Honest(Stream, hurt)
  BY DEF Honest
<1>3. Clean /\ [WireNext]_wireVars => Clean'
  <2> SUFFICES ASSUME Clean, [WireNext]_wireVars, hurt' = {} PROVE WireInv'
    OBVIOUS
  <2>1. hurt = {}
    BY DEF WireNext, wireVars, Send, Damage, LoseByte, ReadChunk
  <2> QED
    BY <1>2, <2>1, WireInvStep
<1>4. Clean => (hurt = {} => NothingSkipped)
  BY <1>2, AllDelivered
<1> HIDE DEF Clean
<1> QED
  BY <1>1, <1>3, <1>4, PTL DEF WireSpec
===============================================================================
