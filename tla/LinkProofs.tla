----------------------------- MODULE LinkProofs -----------------------------
(***************************************************************************)
(* Proofs about the two links: the host's serial link (HostLink), whose    *)
(* watchdog and connect loop do not work against each other, for any set   *)
(* of ports and any number of faults; and the SPI link between the boards  *)
(* (SpiLink), for every size of ring, transaction and queue.               *)
(***************************************************************************)
EXTENDS HostLink, SpiLink, TLAPS

-----------------------------------------------------------------------------
(* The serial link                                                         *)

USE LinkAssumption DEF LinkAssumption

LEMMA MinOfTwo ==
  ASSUME NEW a \in Nat, NEW b \in Nat
  PROVE  Min({a, b}) = IF a <= b THEN a ELSE b
<1>1. Min({a, b}) \in {a, b} /\ \A y \in {a, b} : Min({a, b}) <= y
  <2>1. \E x \in {a, b} : \A y \in {a, b} : x <= y
    OBVIOUS
  <2> QED
    BY <2>1 DEF Min
<1> QED
  BY <1>1

--------------------------------------------------------------------------------
\* Stats.Open is set only while the connect loop has the reader open.
OpenBlocked == isOpen => loop \in {"marked", "blocked"}

\* While the loop waits to open the ports again, every read loop has returned.
OpenReadsNothing == loop = "open" => reading = {}

\* A loop that has the reader open sleeps in a start sequence only.  Before the first
\* message ever, such a sleep and the silence until then are a start sequence.
StartIsShort == loop = "blocked" => pause <= StartSleep
StartIsFresh ==
  ~ever => /\ loop = "marked" => silent = 0
           /\ loop = "blocked" /\ pause > 0 => silent + pause <= StartSleep

\* The watchdog's history starts anew with every disturbance.
FreshTally == forced = 0 => ~early

LinkInv ==
  /\ LinkTypeOK
  /\ OpenBlocked /\ OpenReadsNothing /\ StartIsShort /\ StartIsFresh /\ FreshTally

LEMMA LinkInvInit == LinkInit => LinkInv
<1> SUFFICES ASSUME LinkInit PROVE LinkInv
  OBVIOUS
<1>1. wake \in [Ports -> 0..WakeTime]
  BY DEF LinkInit
<1>2. silent \in 0..(OpenLimit + 1) /\ nap \in 0..24 /\ pause \in 0..RetrySleep
      /\ misses \in 0..9 /\ forced \in Nat
  BY DEF LinkInit, OpenLimit, RetrySleep
<1>3. faults \in 0..MaxFaults
  <2>1. faults = 0
    BY DEF LinkInit
  <2> QED
    BY <2>1
<1>4. LinkTypeOK
  BY <1>1, <1>2, <1>3 DEF LinkInit, LinkTypeOK
<1> QED
  BY <1>4 DEF LinkInit, LinkInv, OpenBlocked, OpenReadsNothing, StartIsShort, StartIsFresh, FreshTally

\* The steps that leave the clocks alone.
LEMMA UntimedStep ==
  ASSUME LinkInv,
         \/ OpenFails \/ Open \/ Mark \/ Publish \/ Drop
         \/ \E p \in Ports : ReadFails(p) \/ ReadStops(p) \/ Fault(p) \/ Replug(p)
         \/ ByHand \/ Ota
  PROVE  LinkInv'
<1> USE DEF LinkInv, LinkTypeOK, clock, tally, StartSleep, RetrySleep, LostSleep, OpenLimit,
            OpenBlocked, OpenReadsNothing, StartIsShort, StartIsFresh, FreshTally
<1>1. CASE OpenFails
  BY <1>1 DEF OpenFails
<1>2. CASE Open
  <2>1. wake' \in [Ports -> 0..WakeTime] /\ dev' \in [Ports -> {"up", "mute", "gone"}]
    BY <1>2 DEF Open
  <2>2. Wanted \subseteq Ports
    BY DEF Wanted, Present
  <2> QED
    BY <1>2, <2>1, <2>2 DEF Open
<1>3. CASE Mark
  BY <1>3 DEF Mark
<1>4. CASE Publish
  <2>1. loop = "marked" /\ loop' = "blocked" /\ pause' \in {0, 5}
    BY <1>4 DEF Publish
  <2>2. UNCHANGED <<dev, reading, stop, isOpen, misses, ota, faults, forced, early, wake, ever, silent, nap>>
    BY <1>4 DEF Publish
  <2>3. LinkTypeOK'
    BY <2>1, <2>2
  <2>4. OpenBlocked' /\ OpenReadsNothing' /\ StartIsShort'
    BY <2>1, <2>2
  <2>5. StartIsFresh'
    <3>1. ~ever => silent = 0
      BY <2>1
    <3>2. ever' = ever /\ silent' = silent
      BY <2>2
    <3>3. ~ever' => silent' = 0
      BY <3>1, <3>2
    <3>4. ASSUME silent' = 0 PROVE silent' + pause' <= 5
      <4>1. \A n \in {0, 5} : 0 + n <= 5
        BY ONLY TRUE
      <4> QED
        BY ONLY <2>1, <3>4, <4>1, Zenon
    <3> QED
      BY <2>1, <3>3, <3>4, Zenon
  <2>6. FreshTally'
    BY <2>2
  <2> QED
    BY <2>3, <2>4, <2>5, <2>6
<1>5. CASE Drop
  <2>1. loop = "blocked" /\ loop' = "open" /\ pause' = 3 /\ isOpen' = FALSE /\ reading = {}
    BY <1>5 DEF Drop
  <2>2. UNCHANGED <<dev, reading, stop, misses, ota, faults, forced, early, wake, ever, silent, nap>>
    BY <1>5 DEF Drop
  <2>3. isOpen' \in BOOLEAN /\ loop' \in {"open", "marking", "marked", "blocked"} /\ pause' \in 0..6
    <3>1. pause' \in 0..6
      BY <2>1
    <3> QED
      BY <2>1, <3>1, Zenon
  <2>4. LinkTypeOK'
    BY <2>2, <2>3
  <2> QED
    BY <2>1, <2>2, <2>4
<1>6. ASSUME NEW p \in Ports, ReadFails(p) PROVE LinkInv'
  BY <1>6 DEF ReadFails
<1>7. ASSUME NEW p \in Ports, ReadStops(p) PROVE LinkInv'
  BY <1>7 DEF ReadStops
<1>8. ASSUME NEW p \in Ports, Fault(p) PROVE LinkInv'
  <2>1. faults' \in 0..MaxFaults /\ dev' \in [Ports -> {"up", "mute", "gone"}]
    BY <1>8 DEF Fault
  <2> QED
    BY <1>8, <2>1 DEF Fault, Disturb
<1>9. ASSUME NEW p \in Ports, Replug(p) PROVE LinkInv'
  BY <1>9 DEF Replug, Disturb
<1>10. CASE ByHand
  <2>1. faults' \in 0..MaxFaults
    BY <1>10 DEF ByHand
  <2> QED
    BY <1>10, <2>1 DEF ByHand, Disturb
<1>11. CASE Ota
  BY <1>11 DEF Ota, Disturb
<1> QED
  BY <1>1, <1>2, <1>3, <1>4, <1>5, <1>6, <1>7, <1>8, <1>9, <1>10, <1>11

\* After a dead link the watchdog sleeps five seconds at least, six if the one before
\* was dead too.
LEMMA DeadSleeps ==
  ASSUME misses \in 0..9, Watch, isOpen, ~ota, LooksDead
  PROVE  /\ misses' = Min({misses + 1, 9}) /\ misses' \in 1..9
         /\ nap' = 2 * (4 + Min({misses', 8})) /\ nap' \in 10..24
         /\ misses >= 1 => nap' >= 12
<1>1. misses' = Min({misses + 1, 9}) /\ nap' \in {2 * (4 + Min({misses', 8}))}
  BY DEF Watch
<1>2. misses' \in 1..9 /\ (misses >= 1 => misses' >= 2)
  BY <1>1, MinOfTwo
<1>3. Min({misses', 8}) \in 1..8 /\ (misses >= 1 => Min({misses', 8}) >= 2)
  BY <1>2, MinOfTwo
<1> QED
  BY <1>1, <1>2, <1>3

LEMMA WatchStep == ASSUME LinkInv, Watch PROVE LinkInv'
<1> USE DEF LinkInv, LinkTypeOK
<1> DEFINE dead == isOpen /\ ~ota /\ LooksDead
<1>1. misses' \in 0..9 /\ nap' \in 0..24
  <2>1. CASE dead
    BY <2>1, DeadSleeps
  <2>2. CASE ~dead
    BY <2>2 DEF Watch
  <2> QED
    BY <2>1, <2>2
<1>2. forced' \in {forced, forced + 1} /\ (forced' = 0 => early' = early /\ forced = 0)
  BY DEF Watch
<1>3. stop' \in BOOLEAN /\ early' \in BOOLEAN
  BY DEF Watch
<1>4. UNCHANGED <<dev, loop, reading, isOpen, ota, faults, wake, pause, ever, silent>>
  BY DEF Watch
<1>5. LinkTypeOK'
  BY <1>1, <1>2, <1>3, <1>4
<1>6. FreshTally'
  BY <1>2 DEF FreshTally
<1> QED
  BY <1>4, <1>5, <1>6 DEF OpenBlocked, OpenReadsNothing, StartIsShort, StartIsFresh

LEMMA TimeStep == ASSUME LinkInv, HalfSecond PROVE LinkInv'
<1> USE DEF LinkInv, LinkTypeOK, tally
<1>1. nap' \in 0..24
  BY DEF HalfSecond, Waiting
<1>2. pause' = Down(pause) /\ pause' \in 0..RetrySleep /\ pause' <= pause
  BY DEF HalfSecond, Down, RetrySleep
<1>3. wake' \in [Ports -> 0..WakeTime]
  <2>1. \A p \in Ports : Down(wake[p]) \in 0..WakeTime
    BY DEF Down
  <2> QED
    BY <2>1 DEF HalfSecond
<1>4. /\ silent' \in 0..(OpenLimit + 1)
      /\ silent' <= silent + 1
  <2>1. silent \in Nat /\ OpenLimit + 1 = 31 /\ SilenceLimit + 1 = 17
    BY DEF OpenLimit, SilenceLimit
  <2>2. /\ Min({silent + 1, 31}) \in 0..31 /\ Min({silent + 1, 31}) <= silent + 1
        /\ Min({silent + 1, 17}) \in 0..31 /\ Min({silent + 1, 17}) <= silent + 1
    BY <2>1, MinOfTwo
  <2>3. silent' \in {0, Min({silent + 1, 31}), Min({silent + 1, 17})}
    BY <2>1 DEF HalfSecond, OpenLimit, SilenceLimit
  <2> QED
    BY <2>1, <2>2, <2>3
<1>5. ever' = (ever \/ Speaking) /\ ever' \in BOOLEAN
  BY DEF HalfSecond
<1>6. UNCHANGED <<dev, loop, reading, stop, isOpen, misses, ota, faults, forced, early>>
  BY DEF HalfSecond
<1>7. LinkTypeOK'
  BY <1>1, <1>2, <1>3, <1>4, <1>5, <1>6
<1>8. StartIsShort'
  BY <1>2, <1>6 DEF StartIsShort, StartSleep, RetrySleep
<1>9. StartIsFresh'
  <2>1. loop # "marked"
    BY DEF HalfSecond, Waiting
  <2>2. ASSUME ~ever', loop' = "blocked", pause' > 0 PROVE silent' + pause' <= StartSleep
    <3>1. ~ever /\ loop = "blocked" /\ pause > 0 /\ pause' = pause - 1
      BY <1>2, <1>5, <1>6, <2>2 DEF Down
    <3>2. silent + pause <= StartSleep
      BY <3>1 DEF StartIsFresh
    <3>3. silent \in Nat /\ pause \in Nat /\ silent' \in Nat
      BY <1>4 DEF RetrySleep, OpenLimit
    <3> QED
      BY <1>4, <3>1, <3>2, <3>3 DEF StartSleep
  <2> QED
    BY <1>6, <2>1, <2>2 DEF StartIsFresh
<1> QED
  BY <1>6, <1>7, <1>8, <1>9 DEF OpenBlocked, OpenReadsNothing, FreshTally

LEMMA LinkInvStep == LinkInv /\ [LinkNext]_linkVars => LinkInv'
<1> SUFFICES ASSUME LinkInv, [LinkNext]_linkVars PROVE LinkInv'
  OBVIOUS
<1>1. CASE UNCHANGED linkVars
  BY <1>1 DEF linkVars, clock, tally, LinkInv, LinkTypeOK, OpenBlocked, OpenReadsNothing,
              StartIsShort, StartIsFresh, FreshTally
<1>2. CASE LinkNext
  BY <1>2, UntimedStep, WatchStep, TimeStep DEF LinkNext
<1> QED
  BY <1>1, <1>2

--------------------------------------------------------------------------------
\* The five phases of a reconnect the watchdog forces, while no device fails and
\* none is put back.  First, those of one that comes up before the watchdog looks
\* again.  The reader is closed and the watchdog sleeps:
Closing == loop = "blocked" /\ stop /\ nap >= pause + 4 + WakeTime

\* the loop waits, and opens well before the watchdog looks, if it can open at all:
Openable == Wanted # {} /\ Wanted \subseteq Present
Reopening == loop = "open" /\ (Openable => nap >= pause + 1 + WakeTime)

\* every port is open, and its device is coming up:
AllUp == reading # {} /\ ~stop /\ \A p \in reading : dev[p] = "up" /\ wake[p] <= WakeTime
Starting == loop \in {"marking", "marked"} /\ AllUp
Marking == Starting /\ nap >= 1 + WakeTime

\* the first report arrives before the watchdog looks, or is there.
Running == loop = "blocked" /\ AllUp
Listening == Running /\ \E p \in reading : wake[p] + 1 <= nap
Heard == Running /\ ever /\ silent = 0 /\ \E p \in reading : wake[p] = 0

OnTime == Closing \/ Reopening \/ Marking \/ Listening \/ Heard

\* Then those of one that was forced in a start sequence.  The sleep of the start
\* sequence comes on top, and the watchdog may look too early; but by then the
\* next start sequence is half over.
LateClosing   == loop = "blocked" /\ stop /\ nap >= pause + 5
LateReopening == loop = "open" /\ (Openable => nap >= pause + 2)
LateMarking   == Starting /\ nap >= 2
LateListening == Running /\ pause <= nap + 3

Behind ==
  /\ ever /\ silent > SilenceLimit /\ misses >= 1
  /\ LateClosing \/ LateReopening \/ LateMarking \/ LateListening

ReconnectInv ==
  /\ LinkInv
  /\ forced <= 2
  /\ forced > 0 => ~ota
  /\ forced = 1 => OnTime \/ (early /\ Behind)
  /\ forced = 2 => early /\ OnTime

LEMMA ReconnectInit == LinkInit => ReconnectInv
<1> SUFFICES ASSUME LinkInit PROVE ReconnectInv
  OBVIOUS
<1>1. LinkInv
  BY LinkInvInit
<1>2. forced = 0
  BY DEF LinkInit
<1> QED
  BY <1>1, <1>2 DEF ReconnectInv

\* A step that keeps the tally and leaves a late reconnect late, or brings it in time.
LEMMA TallyKept ==
  ASSUME ReconnectInv, LinkInv',
         forced' = forced, early' = early, forced > 0 => ota' = ota,
         forced > 0 /\ OnTime => OnTime',
         forced > 0 /\ Behind => Behind' \/ OnTime'
  PROVE  ReconnectInv'
BY DEF ReconnectInv, LinkInv, LinkTypeOK

\* What happens from outside, or begins or ends an upload, starts the tally anew.
LEMMA TallyAnew == ASSUME LinkInv', forced' = 0 PROVE ReconnectInv'
BY DEF ReconnectInv

\* The connect loop goes on.
LEMMA LoopReconnects ==
  ASSUME ReconnectInv, LinkInv', OpenFails \/ Open \/ Mark \/ Publish \/ Drop
  PROVE  ReconnectInv'
<1>0. LinkTypeOK /\ OpenReadsNothing /\ LinkInv
  BY DEF ReconnectInv, LinkInv
<1>1. forced' = forced /\ early' = early /\ ota' = ota /\ nap' = nap /\ misses' = misses /\ ever' = ever
  BY DEF OpenFails, Open, Mark, Publish, Drop, tally
<1>2. ever => silent' = silent
  BY DEF OpenFails, Open, Mark, Publish, Drop
<1>3. nap \in Nat /\ pause \in Nat /\ \A p \in reading : wake[p] \in Nat
  BY <1>0 DEF LinkTypeOK, RetrySleep
<1> USE DEF Closing, Reopening, Marking, Listening, Heard, Running, Starting, AllUp
<1> USE DEF LateClosing, LateReopening, LateMarking, LateListening
<1>4. CASE OpenFails
  <2>1. loop = "open" /\ ~Openable /\ loop' = "open" /\ ~Openable'
    BY <1>4 DEF OpenFails, Openable, Wanted, Present
  <2>2. OnTime' /\ (Behind => Behind')
    BY <1>1, <1>2, <2>1 DEF OnTime, Behind
  <2> QED
    BY <1>1, <2>2, TallyKept
<1>5. CASE Open
  <2>1. /\ loop = "open" /\ pause = 0 /\ Openable
        /\ loop' = "marking" /\ stop' = FALSE /\ reading' = Wanted /\ Wanted # {}
    BY <1>5 DEF Open, Openable
  <2>2. \A p \in reading' : dev'[p] = "up" /\ wake'[p] <= WakeTime
    <3>1. Wanted \subseteq Ports
      BY DEF Wanted, Present
    <3>2. \A p \in Wanted : dev'[p] = "up" /\ wake'[p] \in {0, WakeTime}
      BY <1>5, <3>1 DEF Open
    <3> QED
      BY <2>1, <3>2
  <2>3. Starting'
    BY <2>1, <2>2
  <2>4. OnTime => OnTime'
    <3>1. OnTime => nap >= 1 + WakeTime
      BY <1>3, <2>1 DEF OnTime
    <3> QED
      BY <1>1, <2>3, <3>1 DEF OnTime
  <2>5. Behind => Behind'
    <3>1. Behind => nap >= 2
      BY <1>3, <2>1 DEF Behind
    <3> QED
      BY <1>1, <1>2, <2>3, <3>1 DEF Behind
  <2> QED
    BY <1>1, <2>4, <2>5, TallyKept
<1>6. CASE Mark
  <2>1. loop = "marking" /\ loop' = "marked" /\ (Starting => Starting')
    BY <1>6 DEF Mark
  <2>2. OnTime => OnTime'
    BY <1>1, <2>1 DEF OnTime
  <2>3. Behind => Behind'
    BY <1>1, <1>2, <2>1 DEF Behind
  <2> QED
    BY <1>1, <2>2, <2>3, TallyKept
<1>7. CASE Publish
  <2>1. /\ loop = "marked" /\ loop' = "blocked" /\ pause' \in {0, 5}
        /\ UNCHANGED <<wake, reading>> /\ (Starting => Running')
    BY <1>7 DEF Publish, StartSleep
  <2>2. OnTime => OnTime'
    <3>1. OnTime => Starting /\ nap >= 1 + WakeTime
      BY <2>1 DEF OnTime
    <3>2. OnTime => \E p \in reading : wake[p] + 1 <= nap
      BY <1>3, <3>1
    <3> QED
      BY <1>1, <2>1, <3>1, <3>2 DEF OnTime
  <2>3. Behind => Behind'
    <3>1. Behind => Starting /\ nap >= 2
      BY <2>1 DEF Behind
    <3>2. Behind => Running' /\ pause' <= nap' + 3
      BY <1>1, <1>3, <2>1, <3>1
    <3> QED
      BY <1>1, <1>2, <3>2 DEF Behind
  <2> QED
    BY <1>1, <2>2, <2>3, TallyKept
<1>8. CASE Drop
  <2>1. loop = "blocked" /\ pause = 0 /\ reading = {} /\ loop' = "open" /\ pause' = 3
    BY <1>8 DEF Drop, LostSleep
  <2>2. OnTime => OnTime'
    <3>1. OnTime => nap >= 4 + WakeTime
      BY <1>3, <2>1 DEF OnTime
    <3> QED
      BY <1>1, <2>1, <3>1 DEF OnTime
  <2>3. Behind => Behind'
    <3>1. Behind => nap >= 5
      BY <1>3, <2>1 DEF Behind
    <3> QED
      BY <1>1, <1>2, <2>1, <3>1 DEF Behind
  <2> QED
    BY <1>1, <2>2, <2>3, TallyKept
<1> QED
  BY <1>4, <1>5, <1>6, <1>7, <1>8

\* A read loop ends while the reader is being closed, and only then.
LEMMA ReadersReconnect ==
  ASSUME ReconnectInv, LinkInv', NEW p \in Ports, ReadFails(p) \/ ReadStops(p)
  PROVE  ReconnectInv'
<1>0. OpenReadsNothing
  BY DEF ReconnectInv, LinkInv
<1>1. p \in reading /\ (dev[p] = "gone" \/ stop) /\ loop # "open"
  BY <1>0 DEF ReadFails, ReadStops, OpenReadsNothing
<1>2. UNCHANGED <<dev, loop, stop, misses, ota, forced, early, pause, nap, ever, silent>>
  BY DEF ReadFails, ReadStops, clock, tally
<1>3. ~AllUp
  BY <1>1 DEF AllUp
<1>4. OnTime => Closing /\ Closing'
  BY <1>1, <1>2, <1>3 DEF OnTime, Closing, Reopening, Marking, Starting, Listening, Heard, Running
<1>5. Behind => LateClosing /\ LateClosing'
  BY <1>1, <1>2, <1>3 DEF Behind, LateClosing, LateReopening, LateMarking, Starting, LateListening, Running
<1>6. OnTime => OnTime'
  BY <1>4 DEF OnTime
<1>7. Behind => Behind'
  BY <1>2, <1>5 DEF Behind
<1> QED
  BY <1>2, <1>6, <1>7, TallyKept

\* The watchdog looks: it closes no reader whose reconnect is in time.
LEMMA WatchReconnects ==
  ASSUME WakeTime <= 5, ReconnectInv, LinkInv', Watch
  PROVE  ReconnectInv'
<1> DEFINE dead == isOpen /\ ~ota /\ LooksDead
<1>0. /\ LinkInv /\ LinkTypeOK /\ OpenBlocked /\ StartIsShort /\ StartIsFresh /\ FreshTally
      /\ forced \in {0, 1, 2} /\ pause \in Nat /\ WakeTime \in Nat /\ silent \in Nat
  BY DEF ReconnectInv, LinkInv, LinkTypeOK, RetrySleep, OpenLimit
<1>1. nap = 0 /\ nap' \in 1..24
  <2>1. dead => nap' \in 10..24
    BY <1>0, DeadSleeps DEF LinkTypeOK
  <2>2. ~dead => nap' \in 1..6
    BY DEF Watch
  <2> QED
    BY <2>1, <2>2 DEF Watch
<1>2. UNCHANGED <<dev, loop, reading, isOpen, ota, wake, pause, ever, silent>>
  BY DEF Watch
<1>3. \A p \in reading : wake[p] \in Nat
  BY <1>0 DEF LinkTypeOK
\* in time there is nothing left for the watchdog to find but a loop that cannot
\* open its ports, or a link that has been heard
<1>4. OnTime => (Reopening /\ ~Openable) \/ Heard
  BY <1>0, <1>1, <1>3 DEF OnTime, Closing, Reopening, Marking, Listening
<1>5. dead => loop # "open" /\ ~Heard
  BY <1>0 DEF OpenBlocked, Heard, LooksDead, SilenceLimit
<1>6. dead => ~OnTime
  BY <1>4, <1>5 DEF Reopening
<1>7. Behind => LateListening \/ (LateReopening /\ ~Openable)
  BY <1>0, <1>1 DEF Behind, LateClosing, LateReopening, LateMarking, LateListening
<1>8. CASE dead /\ loop = "blocked"
  <2>1. forced' = forced + 1 /\ early' = (early \/ pause > 0) /\ stop' /\ loop' = "blocked" /\ ~ota'
    <3>1. forced' = forced + 1
      BY <1>8 DEF Watch
    <3>2. early' = (early \/ pause > 0) /\ stop'
      BY <1>8, Zenon DEF Watch
    <3> QED
      BY <1>2, <1>8, <3>1, <3>2
  <2>2. misses' \in 1..9 /\ nap' >= 10 /\ (misses >= 1 => nap' >= 12)
    BY <1>0, <1>8, DeadSleeps DEF LinkTypeOK
  <2>3. nap' \in Nat
    BY <1>1
  <2>4. CASE forced = 0 /\ pause = 0
    <3>1. Closing'
      BY <1>0, <1>2, <2>1, <2>2, <2>3, <2>4 DEF Closing
    <3> QED
      BY <2>1, <2>4, <3>1 DEF ReconnectInv, OnTime
  <2>5. CASE forced = 0 /\ pause # 0
    <3>1. pause <= 5
      BY <1>0, <1>8 DEF StartIsShort, StartSleep
    <3>2. ever
      <4>1. ~ever => silent <= 5
        BY <1>0, <1>8, <2>5 DEF StartIsFresh, StartSleep
      <4> QED
        BY <1>0, <1>8, <4>1 DEF LooksDead, OpenLimit
    <3>3. silent > SilenceLimit
      BY <1>8, <3>2 DEF LooksDead
    <3>4. LateClosing'
      BY <1>0, <1>2, <2>1, <2>2, <2>3, <3>1 DEF LateClosing
    <3>5. Behind'
      BY <1>2, <2>2, <3>2, <3>3, <3>4 DEF Behind
    <3>6. early' /\ forced' = 1
      <4>1. pause > 0
        BY <1>0, <2>5
      <4>2. early'
        BY <2>1, <4>1, Zenon
      <4> QED
        BY <2>1, <2>5, <4>2
    <3> QED
      BY <2>1, <3>5, <3>6 DEF ReconnectInv
  <2>6. CASE forced # 0
    <3>1. forced = 1 /\ early /\ Behind
      BY <1>0, <1>6, <1>8, <2>6 DEF ReconnectInv
    <3>2. pause <= 3
      BY <1>0, <1>1, <1>7, <1>8, <3>1 DEF LateListening, LateReopening
    <3>3. nap' >= 12
      BY <1>0, <2>2, <3>1 DEF Behind, LinkTypeOK
    <3>4. Closing'
      BY <1>0, <1>2, <2>1, <2>3, <3>2, <3>3 DEF Closing
    <3>5. early' /\ forced' = 2
      <4>1. forced' = 2
        BY <2>1, <3>1
      <4>2. early'
        BY <2>1, <3>1, Zenon
      <4> QED
        BY <4>1, <4>2
    <3> QED
      BY <2>1, <3>4, <3>5 DEF ReconnectInv, OnTime
  <2> QED
    BY <2>4, <2>5, <2>6
<1>9. CASE ~(dead /\ loop = "blocked")
  <2>1. forced' = forced /\ early' = early /\ stop' = stop
    <3>1. stop \in BOOLEAN /\ early \in BOOLEAN
      BY <1>0 DEF LinkTypeOK
    <3> QED
      BY <1>9, <3>1 DEF Watch
  <2>2. OnTime => OnTime'
    <3>1. Reopening /\ ~Openable => Reopening'
      BY <1>2 DEF Reopening, Openable, Wanted, Present
    <3>2. Heard => Heard'
      BY <1>2, <2>1 DEF Heard, Running, AllUp
    <3> QED
      BY <1>4, <3>1, <3>2 DEF OnTime
  <2>3. forced > 0 /\ Behind => Behind'
    <3>1. LateReopening /\ ~Openable => LateReopening'
      BY <1>2 DEF LateReopening, Openable, Wanted, Present
    <3>2. LateListening => LateListening'
      <4>1. Running => Running'
        BY <1>2, <2>1 DEF Running, AllUp
      <4>2. pause <= nap + 3 => pause' <= nap' + 3
        <5>1. \A n, m \in Nat : n <= 0 + 3 => n <= m + 3
          OBVIOUS
        <5>2. pause \in Nat /\ pause' = pause /\ nap = 0 /\ nap' \in Nat
          BY <1>0, <1>1, <1>2
        <5> QED
          BY ONLY <5>1, <5>2, Zenon
      <4> QED
        BY <4>1, <4>2 DEF LateListening
    <3>3. forced > 0 /\ Behind => misses' >= 1
      <4>1. SUFFICES ASSUME forced > 0, Behind PROVE misses' >= 1
        OBVIOUS
      <4>2. ~ota /\ LooksDead
        BY <4>1 DEF ReconnectInv, Behind, LooksDead
      <4>3. CASE isOpen
        BY <1>0, <4>2, <4>3, DeadSleeps DEF LinkTypeOK
      <4>4. CASE ~isOpen
        <5>1. misses' = misses
          BY <4>4 DEF Watch
        <5> QED
          BY <4>1, <5>1 DEF Behind
      <4> QED
        BY <4>3, <4>4
    <3> QED
      BY <1>2, <1>7, <3>1, <3>2, <3>3 DEF Behind
  <2> QED
    BY <1>2, <2>1, <2>2, <2>3, TallyKept
<1> QED
  BY <1>8, <1>9

\* Time passes.
LEMMA TimeReconnects ==
  ASSUME ReconnectInv, LinkInv', HalfSecond
  PROVE  ReconnectInv'
<1>0. LinkInv /\ LinkTypeOK /\ OpenReadsNothing
  BY DEF ReconnectInv, LinkInv
<1>1. /\ nap \in Nat /\ nap > 0 /\ nap' = nap - 1
      /\ pause \in Nat /\ pause' = Down(pause)
      /\ WakeTime \in Nat
  BY <1>0 DEF HalfSecond, Waiting, LinkTypeOK, RetrySleep
<1>2. UNCHANGED <<dev, loop, reading, stop, misses, ota, forced, early>>
  BY DEF HalfSecond, tally
<1>3. loop \notin {"marking", "marked"} /\ (loop = "open" => pause > 0)
      /\ (loop = "blocked" /\ stop => pause > 0)
  BY DEF HalfSecond, Waiting
<1>4. pause > 0 => pause' = pause - 1
  BY <1>1 DEF Down
<1>5. \A q \in reading : wake[q] \in Nat /\ wake'[q] = Down(wake[q])
  <2>1. \A q \in Ports : wake[q] \in Nat
    BY <1>0 DEF LinkTypeOK
  <2>2. reading \subseteq Ports
    BY <1>0 DEF LinkTypeOK
  <2> QED
    BY <2>1, <2>2 DEF HalfSecond
<1>6. Openable' <=> Openable
  BY <1>2 DEF Openable, Wanted, Present
<1>7. Running => Running'
  <2>1. \A q \in reading : wake[q] <= WakeTime => wake'[q] <= WakeTime
    BY <1>1, <1>5 DEF Down
  <2> QED
    BY <1>2, <2>1 DEF Running, AllUp
<1>8. Running /\ Speaking => Heard'
  <2>1. SUFFICES ASSUME Running, Speaking PROVE Heard'
    OBVIOUS
  <2>2. PICK p \in reading : wake[p] = 0
    BY <2>1 DEF Speaking
  <2>3. wake'[p] = 0 /\ ever' /\ silent' = 0
    BY <1>5, <2>1, <2>2 DEF Down, HalfSecond
  <2> QED
    BY <1>2, <1>7, <2>1, <2>2, <2>3 DEF Heard
<1>9. Running => \A p \in reading : wake[p] = 0 => Speaking
  BY DEF Running, AllUp, Speaking
<1>10. OnTime => OnTime'
  <2>1. Closing => Closing'
    BY <1>1, <1>2, <1>3, <1>4 DEF Closing
  <2>2. Reopening => Reopening'
    BY <1>1, <1>2, <1>3, <1>4, <1>6 DEF Reopening
  <2>3. ~Marking
    BY <1>3 DEF Marking, Starting
  <2>4. Listening => Listening' \/ Heard'
    <3>1. SUFFICES ASSUME Listening, ~Speaking PROVE Listening'
      BY <1>8 DEF Listening
    <3>2. PICK p \in reading : wake[p] + 1 <= nap
      BY <3>1 DEF Listening
    <3>3. wake[p] # 0
      BY <1>9, <3>1, <3>2 DEF Listening
    <3>4. wake'[p] + 1 <= nap'
      BY <1>1, <1>5, <3>2, <3>3 DEF Down
    <3> QED
      BY <1>2, <1>7, <3>1, <3>2, <3>4 DEF Listening
  <2>5. Heard => Heard'
    <3>1. Heard => Running /\ Speaking
      BY <1>9 DEF Heard
    <3> QED
      BY <1>8, <3>1
  <2> QED
    BY <2>1, <2>2, <2>3, <2>4, <2>5 DEF OnTime
<1>11. Behind => Behind' \/ OnTime'
  <2>1. SUFFICES ASSUME Behind, ~OnTime' PROVE Behind'
    OBVIOUS
  <2>2. ~Speaking
    <3>1. LateListening => ~Speaking
      BY <1>8, <2>1 DEF LateListening, OnTime
    <3>2. LateReopening => ~Speaking
      BY <1>0 DEF LateReopening, OpenReadsNothing, Speaking
    <3>3. LateClosing => ~Speaking
      BY DEF LateClosing, Speaking
    <3>4. ~LateMarking
      BY <1>3 DEF LateMarking, Starting
    <3> QED
      BY <2>1, <3>1, <3>2, <3>3, <3>4 DEF Behind
  <2>3. ever' /\ silent' > SilenceLimit
    <3>1. ever /\ silent > 16 /\ silent \in Nat
      BY <1>0, <2>1 DEF Behind, SilenceLimit, LinkTypeOK, OpenLimit
    <3>2. silent' = Min({silent + 1, 1 + 16}) /\ ever'
      BY <2>2, <3>1 DEF HalfSecond, SilenceLimit
    <3>3. Min({silent + 1, 1 + 16}) = 17
      BY <3>1, MinOfTwo
    <3> QED
      BY <3>2, <3>3 DEF SilenceLimit
  <2>4. LateClosing => LateClosing'
    BY <1>1, <1>2, <1>3, <1>4 DEF LateClosing
  <2>5. LateReopening => LateReopening'
    BY <1>1, <1>2, <1>3, <1>4, <1>6 DEF LateReopening
  <2>6. ~LateMarking
    BY <1>3 DEF LateMarking, Starting
  <2>7. LateListening => LateListening'
    <3>1. pause <= nap + 3 => pause' <= nap' + 3
      BY <1>1 DEF Down
    <3> QED
      BY <1>7, <3>1 DEF LateListening
  <2> QED
    BY <1>2, <2>1, <2>3, <2>4, <2>5, <2>6, <2>7 DEF Behind
<1> QED
  BY <1>2, <1>10, <1>11, TallyKept

LEMMA ReconnectStep ==
  ASSUME WakeTime <= 5
  PROVE  ReconnectInv /\ [LinkNext]_linkVars => ReconnectInv'
<1> SUFFICES ASSUME ReconnectInv, [LinkNext]_linkVars PROVE ReconnectInv'
  OBVIOUS
<1>1. LinkInv'
  BY LinkInvStep DEF ReconnectInv
<1>2. CASE UNCHANGED linkVars
  BY <1>2 DEF linkVars, clock, tally, ReconnectInv, LinkInv, LinkTypeOK, OpenBlocked, OpenReadsNothing,
              StartIsShort, StartIsFresh, FreshTally, OnTime, Behind, Closing, Reopening, Openable,
              Wanted, Present, AllUp, Starting, Marking, Running, Listening, Heard, LateClosing,
              LateReopening, LateMarking, LateListening
<1>3. CASE \/ \E p \in Ports : Fault(p) \/ Replug(p)
           \/ ByHand \/ Ota
  <2>1. forced' = 0
    BY <1>3 DEF Fault, Replug, ByHand, Ota, Disturb
  <2> QED
    BY <1>1, <2>1, TallyAnew
<1>4. CASE LinkNext
  BY <1>1, <1>3, <1>4, LoopReconnects, ReadersReconnect, WatchReconnects, TimeReconnects DEF LinkNext
<1> QED
  BY <1>2, <1>4

--------------------------------------------------------------------------------
\* The types of the link's state hold throughout: the counters that stop at a
\* bound stay below it, and the history counts on.
THEOREM LinkTyped == LinkSpec => []LinkTypeOK
<1>1. LinkInv => LinkTypeOK
  BY DEF LinkInv
<1> QED
  BY <1>1, LinkInvInit, LinkInvStep, PTL DEF LinkSpec

\* While the program waits with no port open, Stats.Open says so, however read
\* loops, faults and forced reconnects interleave: the watchdog leaves such a
\* link to the connect loop.
THEOREM OpenIsReported == LinkSpec => []OpenIsKnown
<1>1. LinkInv => OpenIsKnown
  BY DEF LinkInv, OpenBlocked, OpenIsKnown
<1> QED
  BY <1>1, LinkInvInit, LinkInvStep, PTL DEF LinkSpec

\* A device that reports within two and a half seconds of being reopened costs one
\* reconnect by the watchdog, or two if the first fell into a start sequence, for any
\* number of ports and of faults: the watchdog's sleep after it closed the link
\* outlasts what the connect loop sleeps and the device takes, and a reconnect that
\* comes too late for it has used up half of the next start sequence.
THEOREM ReconnectsFew ==
  ASSUME WakeTime <= 5
  PROVE  LinkSpec => []FewReconnects
<1>1. ReconnectInv => FewReconnects
  <2>1. SUFFICES ASSUME ReconnectInv PROVE forced <= IF early THEN 2 ELSE 1
    BY DEF FewReconnects
  <2>2. forced \in Nat /\ forced <= 2
    BY <2>1 DEF ReconnectInv, LinkInv, LinkTypeOK
  <2>3. forced = 2 => early
    BY <2>1 DEF ReconnectInv
  <2> QED
    BY <2>2, <2>3
<1>2. ReconnectInv /\ [LinkNext]_linkVars => ReconnectInv'
  BY ReconnectStep
<1> QED
  BY <1>1, <1>2, ReconnectInit, PTL DEF LinkSpec

-----------------------------------------------------------------------------
(* The SPI link                                                            *)

USE SpiAssumption DEF SpiAssumption

----------------------------------------------------------------------------
(* Sequences                                                               *)

\* What \o gives, element by element.
LEMMA Joined ==
  ASSUME NEW S, NEW s \in Seq(S), NEW t \in Seq(S)
  PROVE  /\ s \o t \in Seq(S) /\ Len(s \o t) = Len(s) + Len(t)
         /\ \A i \in 1..(Len(s) + Len(t)) :
              (s \o t)[i] = IF i <= Len(s) THEN s[i] ELSE t[i - Len(s)]
OBVIOUS

\* Sequences of the same length with the same elements are the same.
LEMMA SameElements ==
  ASSUME NEW S, NEW s \in Seq(S), NEW t \in Seq(S), Len(s) = Len(t),
         \A i \in 1..Len(s) : s[i] = t[i]
  PROVE  s = t
OBVIOUS

\* What SubSeq gives, element by element.
LEMMA Cut ==
  ASSUME NEW S, NEW q \in Seq(S), NEW n \in 0..Len(q)
  PROVE  /\ SubSeq(q, 1, n) \in Seq(S) /\ Len(SubSeq(q, 1, n)) = n
         /\ \A i \in 1..n : SubSeq(q, 1, n)[i] = q[i]
         /\ SubSeq(q, n + 1, Len(q)) \in Seq(S)
         /\ Len(SubSeq(q, n + 1, Len(q))) = Len(q) - n
         /\ \A i \in 1..(Len(q) - n) : SubSeq(q, n + 1, Len(q))[i] = q[n + i]
OBVIOUS

\* A queue cut in two and put together again is the queue.
LEMMA CutAndJoin ==
  ASSUME NEW S, NEW d \in Seq(S), NEW q \in Seq(S), NEW n \in 0..Len(q)
  PROVE  d \o SubSeq(q, 1, n) \o SubSeq(q, n + 1, Len(q)) = d \o q
<1> DEFINE a == SubSeq(q, 1, n)
           b == SubSeq(q, n + 1, Len(q))
           x == d \o a
           y == x \o b
           z == d \o q
<1>0. Len(d) \in Nat /\ Len(q) \in Nat /\ n \in Nat /\ n <= Len(q)
  OBVIOUS
<1>1. /\ a \in Seq(S) /\ Len(a) = n
      /\ \A i \in 1..n : a[i] = q[i]
      /\ b \in Seq(S) /\ Len(b) = Len(q) - n
      /\ \A i \in 1..(Len(q) - n) : b[i] = q[n + i]
  BY Cut
<1> HIDE DEF a, b
<1>2. /\ x \in Seq(S) /\ Len(x) = Len(d) + n
      /\ \A i \in 1..(Len(d) + n) : x[i] = IF i <= Len(d) THEN d[i] ELSE a[i - Len(d)]
  BY <1>1, Joined
<1> HIDE DEF x
<1>3. /\ y \in Seq(S) /\ Len(y) = Len(x) + Len(b)
      /\ \A i \in 1..(Len(x) + Len(b)) : y[i] = IF i <= Len(x) THEN x[i] ELSE b[i - Len(x)]
  <2>1. x \in Seq(S) /\ b \in Seq(S)
    BY <1>1, <1>2
  <2> QED
    BY <2>1, Joined DEF y
<1>4. /\ z \in Seq(S) /\ Len(z) = Len(d) + Len(q)
      /\ \A i \in 1..(Len(d) + Len(q)) : z[i] = IF i <= Len(d) THEN d[i] ELSE q[i - Len(d)]
  BY Joined
<1> HIDE DEF y, z
<1>5. Len(y) = Len(z)
  BY <1>0, <1>1, <1>2, <1>3, <1>4
<1>6. ASSUME NEW i \in 1..Len(y) PROVE y[i] = z[i]
  <2>1. CASE i <= Len(d)
    <3>1. y[i] = x[i] /\ z[i] = d[i]
      BY <2>1, <1>0, <1>1, <1>2, <1>3, <1>4
    <3>2. x[i] = d[i]
      BY <2>1, <1>0, <1>2, <1>3
    <3> QED
      BY <3>1, <3>2
  <2>2. CASE i > Len(d) /\ i <= Len(d) + n
    <3>1. y[i] = x[i] /\ z[i] = q[i - Len(d)] /\ i - Len(d) \in 1..n
      BY <2>2, <1>0, <1>1, <1>2, <1>3, <1>4
    <3>2. x[i] = a[i - Len(d)]
      <4>1. Len(d) \in Nat /\ i \in 1..(Len(d) + n) /\ ~(i <= Len(d))
        BY <2>2, <1>0, <1>3
      <4> QED
        BY <4>1, <1>2
    <3> QED
      BY <3>1, <3>2, <1>1
  <2>3. CASE i > Len(d) + n
    <3> DEFINE k == i - (Len(d) + n)
    <3>1. y[i] = b[k] /\ z[i] = q[i - Len(d)] /\ k \in 1..(Len(q) - n)
      BY <2>3, <1>0, <1>1, <1>2, <1>3, <1>4
    <3>2. n + k = i - Len(d)
      BY <1>0, <1>3
    <3> QED
      BY <3>1, <3>2, <1>1
  <2> QED
    BY <1>0, <2>1, <2>2, <2>3
<1>7. y = z
  BY <1>3, <1>4, <1>5, <1>6, SameElements
<1> QED
  BY <1>7 DEF a, b, x, y, z

\* Appending to the last of three pieces appends to the whole.
LEMMA AppendLast ==
  ASSUME NEW S, NEW d \in Seq(S), NEW t \in Seq(S), NEW q \in Seq(S), NEW m \in S
  PROVE  d \o t \o Append(q, m) = Append(d \o t \o q, m)
OBVIOUS

\* What Append gives.
LEMMA AppendType ==
  ASSUME NEW S, NEW s \in Seq(S), NEW m \in S
  PROVE  Append(s, m) \in Seq(S) /\ Len(Append(s, m)) = Len(s) + 1
OBVIOUS

Increasing(s) == \A i, j \in DOMAIN s : i < j => s[i] < s[j]

\* Appending what is above all of an increasing sequence.
LEMMA AppendIncreasing ==
  ASSUME NEW s \in Seq(Nat), NEW m \in Nat, Increasing(s), \A i \in DOMAIN s : s[i] < m
  PROVE  /\ Increasing(Append(s, m))
         /\ \A i \in DOMAIN Append(s, m) :
              \/ i \in DOMAIN s /\ Append(s, m)[i] = s[i]
              \/ Append(s, m)[i] = m
<1> DEFINE a == Append(s, m)
<1>1. /\ DOMAIN s = 1..Len(s) /\ DOMAIN a = 1..(Len(s) + 1) /\ Len(s) \in Nat
      /\ \A i \in 1..Len(s) : a[i] = s[i]
      /\ a[Len(s) + 1] = m
  OBVIOUS
<1> HIDE DEF a
<1>2. \A i \in DOMAIN a : (i \in DOMAIN s /\ a[i] = s[i]) \/ (i = Len(s) + 1 /\ a[i] = m)
  BY <1>1
<1>3. ASSUME NEW i \in DOMAIN a, NEW j \in DOMAIN a, i < j PROVE a[i] < a[j]
  <2>1. i \in DOMAIN s /\ a[i] = s[i]
    BY <1>1, <1>3
  <2>2. CASE j \in DOMAIN s /\ a[j] = s[j]
    BY <2>1, <2>2, <1>3 DEF Increasing
  <2>3. CASE a[j] = m
    BY <2>1, <2>3
  <2> QED
    BY <1>2, <2>2, <2>3
<1> QED
  BY <1>2, <1>3 DEF a, Increasing

\* Taking the head of an increasing sequence.
LEMMA TailIncreasing ==
  ASSUME NEW s \in Seq(Nat), s # <<>>, Increasing(s)
  PROVE  /\ Increasing(Tail(s))
         /\ \E k \in DOMAIN s : Head(s) = s[k]
         /\ \A i \in DOMAIN Tail(s) :
              /\ Head(s) < Tail(s)[i]
              /\ \E k \in DOMAIN s : Tail(s)[i] = s[k]
<1> DEFINE t == Tail(s)
<1>1. /\ DOMAIN s = 1..Len(s) /\ DOMAIN t = 1..(Len(s) - 1) /\ Len(s) \in Nat /\ Len(s) >= 1
      /\ \A i \in 1..(Len(s) - 1) : t[i] = s[i + 1]
      /\ Head(s) = s[1]
  OBVIOUS
<1> HIDE DEF t
<1>2. \A i \in DOMAIN t : i + 1 \in DOMAIN s /\ 1 \in DOMAIN s /\ 1 < i + 1 /\ t[i] = s[i + 1]
  BY <1>1
<1>3. ASSUME NEW i \in DOMAIN t, NEW j \in DOMAIN t, i < j PROVE t[i] < t[j]
  <2>1. i + 1 < j + 1
    BY <1>1, <1>3
  <2> QED
    BY <1>2, <2>1 DEF Increasing
<1>4. ASSUME NEW i \in DOMAIN t
      PROVE  Head(s) < t[i] /\ \E k \in DOMAIN s : t[i] = s[k]
  BY <1>1, <1>2 DEF Increasing
<1>5. \E k \in DOMAIN s : Head(s) = s[k]
  BY <1>1
<1> QED
  BY <1>3, <1>4, <1>5 DEF t, Increasing

\* An empty piece in the middle makes no difference.
LEMMA EmptyMiddle ==
  ASSUME NEW S, NEW d \in Seq(S), NEW q \in Seq(S)
  PROVE  d \o <<>> \o q = d \o q
OBVIOUS

----------------------------------------------------------------------------
(* The inductive invariant                                                 *)

\* Only an armed satellite has something staged.
StagedWhenArmed == slave # "armed" => tx = <<>>

\* A command is in one place: taken from the queue only until the transaction,
\* received only until it is handled.
CommandInOnePlace ==
  /\ slave # "handle" => rx = 0
  /\ master # "transact" => item = 0

\* From the satellite back to the queue, command numbers grow.
Ordered ==
  /\ Increasing(obeyed) /\ Increasing(out)
  /\ \A i \in DOMAIN obeyed :
       /\ rx # 0 => obeyed[i] < rx
       /\ item # 0 => obeyed[i] < item
       /\ \A j \in DOMAIN out : obeyed[i] < out[j]
       /\ obeyed[i] <= issued
  /\ rx # 0 /\ item # 0 => rx < item
  /\ rx <= issued /\ item <= issued
  /\ \A j \in DOMAIN out : rx < out[j] /\ item < out[j] /\ out[j] <= issued

\* A ring that holds something is signalled, or some sender still owes it.
Signalled == ring # <<>> /\ raising = 0 => ready

IInv ==
  /\ TypeOK
  /\ StagedWhenArmed
  /\ NothingLost
  /\ CommandInOnePlace
  /\ Ordered
  /\ Signalled

----------------------------------------------------------------------------
(* Types                                                                   *)

LEMMA InitType == Init => TypeOK
<1> SUFFICES ASSUME Init PROVE TypeOK
  OBVIOUS
<1>1. ready \in BOOLEAN
  BY Zenon DEF Init
<1>2. \A S : <<>> \in Seq(S) /\ Len(<<>>) = 0
  OBVIOUS
<1> QED
  BY <1>1, <1>2 DEF Init, TypeOK

\* What fill_tx moves is a part of the ring that fits the buffer.
LEMMA FillCut ==
  ASSUME TypeOK, Fill
  PROVE  \E n \in 0..Len(ring) :
           /\ n <= Xfer /\ tx' = SubSeq(ring, 1, n) /\ ring' = SubSeq(ring, n + 1, Len(ring))
<1> DEFINE n == IF Len(ring) < Xfer THEN Len(ring) ELSE Xfer
<1>1. n \in 0..Len(ring) /\ n <= Xfer
  BY DEF TypeOK
<1>2. tx' = SubSeq(ring, 1, n) /\ ring' = SubSeq(ring, n + 1, Len(ring))
  BY DEF Fill
<1> QED
  BY <1>1, <1>2

LEMMA NextType == TypeOK /\ [Next]_vars => TypeOK'
<1> SUFFICES ASSUME TypeOK, [Next]_vars PROVE TypeOK'
  OBVIOUS
<1>1. CASE Send
  <2>1. sends' \in 1..MaxSends
    BY <1>1 DEF TypeOK, Send
  <2>2. CASE Len(ring) < RingSize
    <3>1. ring' = Append(ring, sends') /\ sent' = Append(sent, sends') /\ raising' = raising + 1
      BY <1>1, <2>2 DEF Send
    <3>2. ring' \in Seq(1..MaxSends) /\ Len(ring') = Len(ring) + 1 /\ sent' \in Seq(1..MaxSends)
      BY <2>1, <3>1, AppendType DEF TypeOK
    <3> QED
      BY <1>1, <2>1, <2>2, <3>1, <3>2 DEF TypeOK, Send, priVars
  <2>3. CASE ~(Len(ring) < RingSize)
    BY <1>1, <2>1, <2>3 DEF TypeOK, Send, priVars
  <2> QED
    BY <2>2, <2>3
<1>2. CASE Raise
  BY <1>2 DEF TypeOK, Raise, priVars
<1>3. CASE Fill
  <2>1. PICK n \in 0..Len(ring) :
          n <= Xfer /\ tx' = SubSeq(ring, 1, n) /\ ring' = SubSeq(ring, n + 1, Len(ring))
    BY <1>3, FillCut
  <2>2. tx' \in Seq(1..MaxSends) /\ Len(tx') <= Xfer
    <3>1. ring \in Seq(1..MaxSends)
      BY DEF TypeOK
    <3>2. tx' = SubSeq(ring, 1, n) /\ n <= Xfer /\ n \in 0..Len(ring)
      BY <2>1
    <3>3. SubSeq(ring, 1, n) \in Seq(1..MaxSends) /\ Len(SubSeq(ring, 1, n)) = n
      BY <3>1, Cut
    <3> QED
      BY <3>2, <3>3
  <2>3. ring' \in Seq(1..MaxSends) /\ Len(ring') <= RingSize
    <3>1. Len(ring') = Len(ring) - n /\ ring' \in Seq(1..MaxSends)
      BY <2>1, Cut DEF TypeOK
    <3> QED
      BY <3>1 DEF TypeOK
  <2>4. ready' \in BOOLEAN
    BY <1>3, Zenon DEF TypeOK, Fill
  <2> QED
    BY <1>3, <2>2, <2>3, <2>4 DEF TypeOK, Fill, priVars
<1>4. CASE Handle
  <2>1. obeyed' \in Seq(1..MaxCommands)
    <3>1. CASE rx = 0
      BY <1>4, <3>1 DEF TypeOK, Handle
    <3>2. CASE rx # 0
      <4>1. obeyed' = Append(obeyed, rx) /\ rx \in 1..MaxCommands
        BY <1>4, <3>2 DEF TypeOK, Handle
      <4> QED
        BY <4>1, AppendType DEF TypeOK
    <3> QED
      BY <3>1, <3>2
  <2> QED
    BY <1>4, <2>1 DEF TypeOK, Handle, priVars
<1>5. CASE Queue
  BY <1>5 DEF TypeOK, Queue, satVars
<1>6. CASE Look
  <2>1. CASE out = <<>>
    BY <1>6, <2>1 DEF TypeOK, Look, satVars
  <2>2. CASE out # <<>>
    <3>1. item' = Head(out) /\ out' = Tail(out)
      BY <1>6, <2>2 DEF Look
    <3>2. /\ Head(out) \in 1..MaxCommands /\ Tail(out) \in Seq(1..MaxCommands)
          /\ Len(Tail(out)) = Len(out) - 1
      BY <2>2 DEF TypeOK
    <3>3. master' \in {"transact", "wait"}
      BY <1>6, Zenon DEF Look
    <3> QED
      BY <1>6, <3>1, <3>2, <3>3 DEF TypeOK, Look, satVars
  <2> QED
    BY <2>1, <2>2
<1>7. CASE Wait
  BY <1>7 DEF TypeOK, Wait, satVars
<1>8. CASE Transact
  <2>1. delivered \o tx \in Seq(1..MaxSends)
    BY Joined DEF TypeOK
  <2>2. <<>> \in Seq(1..MaxSends) /\ Len(<<>>) = 0
    OBVIOUS
  <2>3. CASE slave = "armed"
    <3>1. delivered' = delivered \o tx /\ tx' = <<>> /\ rx' = item /\ slave' = "handle"
      BY <1>8, <2>3 DEF Transact
    <3>2. tx' \in Seq(1..MaxSends) /\ Len(tx') <= Xfer
      BY <3>1, <2>2
    <3>3. UNCHANGED <<ring, raising, sends, sent, obeyed, out, issued, ready>> /\ master' = "look" /\ item' = 0
      BY <1>8 DEF Transact
    <3>4. delivered' \in Seq(1..MaxSends)
      BY <2>1, <3>1
    <3> QED
      BY <3>1, <3>2, <3>3, <3>4 DEF TypeOK
  <2>4. CASE slave # "armed"
    BY <1>8, <2>4 DEF TypeOK, Transact
  <2> QED
    BY <2>3, <2>4
<1>9. CASE UNCHANGED vars
  BY <1>9 DEF TypeOK, vars, satVars, priVars
<1> QED
  BY <1>1, <1>2, <1>3, <1>4, <1>5, <1>6, <1>7, <1>8, <1>9 DEF Next

\* Ring and queue keep to their sizes, the staging buffer to one transaction.
THEOREM TypeCorrect == Spec => []TypeOK
BY InitType, NextType, PTL DEF Spec

----------------------------------------------------------------------------
(* Delivery                                                                *)

LEMMA NextStaged == TypeOK /\ StagedWhenArmed /\ [Next]_vars => StagedWhenArmed'
BY DEF StagedWhenArmed, TypeOK, Next, vars, satVars, priVars,
       Send, Raise, Fill, Handle, Queue, Look, Wait, Transact

LEMMA NextNothingLost ==
  TypeOK /\ StagedWhenArmed /\ NothingLost /\ [Next]_vars => NothingLost'
<1> SUFFICES ASSUME TypeOK, StagedWhenArmed, NothingLost, [Next]_vars PROVE NothingLost'
  OBVIOUS
<1> USE DEF NothingLost
<1>1. CASE Send
  <2>1. CASE Len(ring) < RingSize
    <3>1. /\ ring' = Append(ring, sends') /\ sent' = Append(sent, sends')
          /\ tx' = tx /\ delivered' = delivered
      BY <1>1, <2>1 DEF Send, priVars
    <3>2. sends' \in 1..MaxSends
      BY <1>1 DEF Send, TypeOK
    <3>3. delivered \o tx \o Append(ring, sends') = Append(delivered \o tx \o ring, sends')
      <4>1. delivered \in Seq(1..MaxSends) /\ tx \in Seq(1..MaxSends) /\ ring \in Seq(1..MaxSends)
        BY DEF TypeOK
      <4> QED
        BY ONLY <3>2, <4>1
    <3> QED
      BY <3>1, <3>3
  <2>2. CASE ~(Len(ring) < RingSize)
    BY <1>1, <2>2 DEF Send, priVars
  <2> QED
    BY <2>1, <2>2
<1>2. CASE Fill
  <2>1. PICK n \in 0..Len(ring) :
          tx' = SubSeq(ring, 1, n) /\ ring' = SubSeq(ring, n + 1, Len(ring))
    BY <1>2, FillCut
  <2>2. tx = <<>> /\ sent' = sent /\ delivered' = delivered
    BY <1>2 DEF Fill, StagedWhenArmed, priVars
  <2>3. delivered \o SubSeq(ring, 1, n) \o SubSeq(ring, n + 1, Len(ring)) = delivered \o ring
    BY CutAndJoin DEF TypeOK
  <2>4. delivered \o <<>> \o ring = delivered \o ring
    BY EmptyMiddle DEF TypeOK
  <2> QED
    BY <2>1, <2>2, <2>3, <2>4
<1>3. CASE Transact
  <2>1. CASE slave = "armed"
    <3>1. delivered' = delivered \o tx /\ tx' = <<>> /\ ring' = ring /\ sent' = sent
      BY <1>3, <2>1 DEF Transact
    <3>2. \A d \in Seq(1..MaxSends) : d \o <<>> \o ring = d \o ring
      BY EmptyMiddle DEF TypeOK
    <3>3. (delivered \o tx) \o <<>> \o ring = (delivered \o tx) \o ring
      <4>1. delivered \o tx \in Seq(1..MaxSends)
        BY Joined DEF TypeOK
      <4> QED
        BY <3>2, <4>1
    <3> QED
      BY <3>1, <3>3
  <2>2. CASE slave # "armed"
    BY <1>3, <2>2 DEF Transact
  <2> QED
    BY <2>1, <2>2
<1>4. CASE Raise \/ Handle \/ Queue \/ Look \/ Wait \/ UNCHANGED vars
  BY <1>4 DEF Raise, Handle, Queue, Look, Wait, vars, satVars, priVars
<1> QED
  BY <1>1, <1>2, <1>3, <1>4 DEF Next

----------------------------------------------------------------------------
(* Order and signalling                                                    *)

LEMMA NextInOnePlace == CommandInOnePlace /\ [Next]_vars => CommandInOnePlace'
BY DEF CommandInOnePlace, Next, vars, satVars, priVars,
       Send, Raise, Fill, Handle, Queue, Look, Wait, Transact

LEMMA NextOrdered ==
  TypeOK /\ CommandInOnePlace /\ Ordered /\ [Next]_vars => Ordered'
<1> SUFFICES ASSUME TypeOK, CommandInOnePlace, Ordered, [Next]_vars PROVE Ordered'
  OBVIOUS
<1>1. CASE Handle
  <2>1. CASE rx = 0
    BY <1>1, <2>1 DEF Ordered, Handle, priVars
  <2>2. CASE rx # 0
    <3>1. obeyed' = Append(obeyed, rx) /\ rx' = 0 /\ UNCHANGED <<out, item, issued>>
      BY <1>1, <2>2 DEF Handle, priVars
    <3>2. obeyed \in Seq(Nat) /\ rx \in Nat
      BY DEF TypeOK
    <3>3. /\ Increasing(obeyed')
          /\ \A i \in DOMAIN obeyed' : (i \in DOMAIN obeyed /\ obeyed'[i] = obeyed[i]) \/ obeyed'[i] = rx
      BY <2>2, <3>1, <3>2, AppendIncreasing DEF Ordered
    <3>4. item \in Nat /\ issued \in Nat /\ \A j \in DOMAIN out : out[j] \in Nat
      BY DEF TypeOK
    <3>5. \A i \in DOMAIN obeyed' :
            /\ item # 0 => obeyed'[i] < item
            /\ \A j \in DOMAIN out : obeyed'[i] < out[j]
            /\ obeyed'[i] <= issued
      BY ONLY <2>2, <3>3, Ordered DEF Ordered
    <3>6. \A j \in DOMAIN out : 0 < out[j]
      BY DEF TypeOK
    <3> QED
      BY <3>1, <3>3, <3>4, <3>5, <3>6 DEF Ordered
  <2> QED
    BY <2>1, <2>2
<1>2. CASE Queue
  <2>1. /\ out' = Append(out, issued') /\ issued' = issued + 1
        /\ UNCHANGED <<obeyed, rx, item>>
    BY <1>2 DEF Queue, satVars
  <2>2. out \in Seq(Nat) /\ issued \in Nat /\ rx \in Nat /\ item \in Nat
    BY DEF TypeOK
  <2>3. \A j \in DOMAIN out : out[j] < issued'
    BY <2>1, <2>2 DEF Ordered
  <2>4. /\ Increasing(out')
        /\ \A j \in DOMAIN out' : (j \in DOMAIN out /\ out'[j] = out[j]) \/ out'[j] = issued'
    BY <2>1, <2>2, <2>3, AppendIncreasing DEF Ordered
  <2>5. \A i \in DOMAIN obeyed : obeyed[i] \in Nat
    BY DEF TypeOK
  <2>6. /\ \A i \in DOMAIN obeyed : obeyed[i] < issued' /\ \A j \in DOMAIN out' : obeyed[i] < out'[j]
        /\ \A j \in DOMAIN out' : rx < out'[j] /\ item < out'[j] /\ out'[j] <= issued'
    BY <2>1, <2>2, <2>3, <2>4, <2>5 DEF Ordered
  <2> QED
    BY <2>1, <2>2, <2>4, <2>5, <2>6 DEF Ordered
<1>3. CASE Look
  <2>1. CASE out = <<>>
    BY <1>3, <2>1 DEF Look, Ordered, TypeOK, satVars
  <2>2. CASE out # <<>>
    <3>1. item' = Head(out) /\ out' = Tail(out) /\ UNCHANGED <<obeyed, rx, issued>>
      BY <1>3, <2>2 DEF Look, satVars
    <3>2. out \in Seq(Nat)
      BY DEF TypeOK
    <3>3. /\ Increasing(out')
          /\ \E k \in DOMAIN out : item' = out[k]
          /\ \A i \in DOMAIN out' : item' < out'[i] /\ \E k \in DOMAIN out : out'[i] = out[k]
      BY <2>2, <3>1, <3>2, TailIncreasing DEF Ordered
    <3> QED
      BY <3>1, <3>3 DEF Ordered
  <2> QED
    BY <2>1, <2>2
<1>4. CASE Transact
  BY <1>4 DEF Transact, Ordered, TypeOK, CommandInOnePlace
<1>5. CASE Send \/ Raise \/ Fill \/ Wait \/ UNCHANGED vars
  BY <1>5 DEF Ordered, Send, Raise, Fill, Wait, vars, satVars, priVars
<1> QED
  BY <1>1, <1>2, <1>3, <1>4, <1>5 DEF Next

LEMMA NextSignalled == TypeOK /\ Signalled /\ [Next]_vars => Signalled'
<1> SUFFICES ASSUME TypeOK, Signalled, [Next]_vars PROVE Signalled'
  OBVIOUS
<1>1. CASE Send
  BY <1>1 DEF Send, Signalled, TypeOK
<1>2. CASE Raise
  BY <1>2 DEF Raise, Signalled
<1>3. CASE Fill
  <2>1. ring' # <<>> => ring # <<>>
    <3>1. PICK n \in 0..Len(ring) : ring' = SubSeq(ring, n + 1, Len(ring))
      BY <1>3, FillCut
    <3> QED
      BY <3>1 DEF TypeOK
  <2>2. raising' = raising /\ (ring' # <<>> => ready' = ready)
    BY <1>3 DEF Fill
  <2> QED
    BY <2>1, <2>2 DEF Signalled
<1>4. CASE Handle \/ Queue \/ Look \/ Wait \/ Transact \/ UNCHANGED vars
  BY <1>4 DEF Signalled, Handle, Queue, Look, Wait, Transact, vars, satVars, priVars
<1> QED
  BY <1>1, <1>2, <1>3, <1>4 DEF Next

----------------------------------------------------------------------------
(* The invariant holds, and what follows from it                           *)

LEMMA InitIInv == Init => IInv
<1> SUFFICES ASSUME Init PROVE IInv
  OBVIOUS
<1>1. TypeOK
  BY InitType
<1>2. StagedWhenArmed /\ CommandInOnePlace /\ Signalled
  BY DEF Init, StagedWhenArmed, CommandInOnePlace, Signalled
<1>3. NothingLost
  BY DEF Init, NothingLost
<1>4. Ordered
  BY DEF Init, Ordered, Increasing
<1> QED
  BY <1>1, <1>2, <1>3, <1>4 DEF IInv

LEMMA NextIInv == IInv /\ [Next]_vars => IInv'
BY NextType, NextStaged, NextNothingLost, NextInOnePlace, NextOrdered, NextSignalled DEF IInv

LEMMA AlwaysIInv == Spec => []IInv
BY InitIInv, NextIInv, PTL DEF Spec

\* What the ring accepted is delivered once and in order, however senders and
\* transactions interleave and whatever transactions miss the satellite.
THEOREM DeliveryCorrect == Spec => []NothingLost
<1>1. IInv => NothingLost
  BY DEF IInv
<1> QED
  BY <1>1, AlwaysIInv, PTL

\* Relayed commands are obeyed in the order they were queued, none twice.
THEOREM OrderCorrect == Spec => []ObeyedInOrder
<1>1. IInv => ObeyedInOrder
  BY DEF IInv, Ordered, Increasing, ObeyedInOrder
<1> QED
  BY <1>1, AlwaysIInv, PTL

\* A ring that holds something has DATA_READY up once the senders are through.
THEOREM SignalCorrect == Spec => []RingSignalled
<1>1. IInv => RingSignalled
  BY DEF IInv, Signalled, RingSignalled, Settled
<1> QED
  BY <1>1, AlwaysIInv, PTL
=============================================================================
