------------------------------ MODULE HostLink ------------------------------
(***************************************************************************)
(* The host's serial link: the connect loop of main.go, which opens the    *)
(* ports and opens them again when the reader is done; the reader's read   *)
(* loops, one per port (serialio/reader.go); and the watchdog, which closes*)
(* a link that has gone quiet without an error.  Time passes in half       *)
(* seconds, the unit of every time below; whatever the program does takes  *)
(* no time but for its sleeps, and a running device reports all the time.  *)
(***************************************************************************)
EXTENDS Naturals, FiniteSetsExt

CONSTANTS
  Ports,      \* serial ports with a radio on them
  AutoDetect, \* TRUE iff the ports are looked for, FALSE iff given with --port
  WakeTime,   \* how long a device takes to report once its port is opened
  FaultKinds, \* what may happen to a device: "mute", "gone"
  MaxFaults,  \* bound: such faults and reconnects by hand
  OtaMayRun   \* TRUE iff OtaActive may be set

ASSUME LinkAssumption ==
  /\ Ports # {} /\ AutoDetect \in BOOLEAN /\ OtaMayRun \in BOOLEAN
  /\ FaultKinds \subseteq {"mute", "gone"}
  /\ WakeTime \in Nat /\ MaxFaults \in Nat

\* Limits of the watchdog (8 s and 15 s) and sleeps of the connect loop: after an
\* open that failed (3 s), after a lost link (1.5 s), in a start sequence (5 x 0.5 s).
SilenceLimit == 16
OpenLimit    == 30
RetrySleep   == 6
LostSleep    == 3
StartSleep   == 5

VARIABLES
  dev,       \* each device: "up", "mute" (wedged, no error) or "gone"
  wake,      \* time until a device that is up reports
  loop,      \* the connect loop: "open" (to be tried next), "marking" (in Start),
             \* "marked" (Start is done, readerPtr not set) or "blocked"
  pause,     \* how long the connect loop still sleeps
  reading,   \* ports whose read loop runs
  stop,      \* the reader's stop channel is closed, and its ports with it
  isOpen,    \* Stats.Open
  ever,      \* a message has been received, in whatever session
  silent,    \* LastMsgAge if ever, else OpenAge; it stops above its limit
  nap,       \* time until the watchdog looks
  misses,    \* the watchdog's count of reconnects in a row
  ota,       \* OtaActive
  faults,    \* faults so far
  forced,    \* history: reconnects by the watchdog since the last disturbance (a
             \* fault, a replug, a reconnect by hand, the begin or end of an upload)
  early      \* history: one of them fell into a start sequence

clock    == <<wake, pause, ever, silent, nap>>
tally    == <<faults, forced, early>>
linkVars == <<dev, loop, reading, stop, isOpen, misses, ota, tally, clock>>

LinkTypeOK ==
  /\ dev \in [Ports -> {"up", "mute", "gone"}]
  /\ wake \in [Ports -> 0..WakeTime]
  /\ loop \in {"open", "marking", "marked", "blocked"}
  /\ pause \in 0..RetrySleep
  /\ reading \subseteq Ports
  /\ {stop, isOpen, ota, ever, early} \subseteq BOOLEAN
  /\ silent \in 0..(OpenLimit + 1)
  /\ nap \in 0..24 /\ misses \in 0..9
  /\ faults \in 0..MaxFaults /\ forced \in Nat

LinkInit ==
  /\ dev = [p \in Ports |-> "up"] /\ wake = [p \in Ports |-> 0]
  /\ loop = "open" /\ pause = 0
  /\ reading = {} /\ stop = FALSE /\ isOpen = FALSE
  /\ ever = FALSE /\ silent = 0
  /\ nap = 6 /\ misses = 0
  /\ ota = FALSE /\ faults = 0 /\ forced = 0 /\ early = FALSE

Present == {p \in Ports : dev[p] # "gone"}

----------------------------------------------------------------------------
(* The connect loop                                                        *)

\* The ports to open: those found now, or those asked for.
Wanted == IF AutoDetect THEN Present ELSE Ports

\* No port, or one that cannot be opened: try again after a while.
OpenFails ==
  /\ loop = "open" /\ pause = 0
  /\ Wanted = {} \/ ~(Wanted \subseteq Present)
  /\ pause' = RetrySleep
  /\ UNCHANGED <<dev, loop, reading, stop, isOpen, misses, ota, tally, wake, ever, silent, nap>>

\* Reader.Start opens every port and starts its read loop.  Opening revives a
\* wedged device.
Open ==
  /\ loop = "open" /\ pause = 0
  /\ Wanted # {} /\ Wanted \subseteq Present
  /\ loop' = "marking"
  /\ reading' = Wanted /\ stop' = FALSE
  /\ dev' = [p \in Ports |-> IF p \in Wanted THEN "up" ELSE dev[p]]
  /\ wake' = [p \in Ports |-> IF p \in Wanted THEN WakeTime ELSE 0]
  /\ UNCHANGED <<isOpen, misses, ota, tally, pause, ever, silent, nap>>

\* Stats.MarkOpen at the end of Start, with the read loops already running.
Mark ==
  /\ loop = "marking"
  /\ loop' = "marked"
  /\ isOpen' = TRUE
  /\ silent' = IF ever THEN silent ELSE 0
  /\ UNCHANGED <<dev, reading, stop, misses, ota, tally, wake, pause, ever, nap>>

\* readerPtr is set.  A primary without a role is now sent the start sequence, and
\* only after its last sleep does the loop wait for Done.
Publish ==
  /\ loop = "marked"
  /\ loop' = "blocked"
  /\ pause' \in {0, StartSleep}
  /\ UNCHANGED <<dev, reading, stop, isOpen, misses, ota, tally, wake, ever, silent, nap>>

\* A variant: the loop leaves Stats.Open to the read loops.
DropUnmarked ==
  /\ loop = "blocked" /\ pause = 0 /\ reading = {}
  /\ loop' = "open" /\ pause' = LostSleep
  /\ UNCHANGED <<dev, reading, stop, isOpen, misses, ota, tally, wake, ever, silent, nap>>

\* Done: every read loop has returned.
Drop ==
  /\ loop = "blocked" /\ pause = 0 /\ reading = {}
  /\ loop' = "open" /\ pause' = LostSleep
  /\ isOpen' = FALSE
  /\ UNCHANGED <<dev, reading, stop, misses, ota, tally, wake, ever, silent, nap>>

----------------------------------------------------------------------------
(* The read loops                                                          *)

\* Read returns an error: the device is gone or the port was closed.
ReadFails(p) ==
  /\ p \in reading /\ (dev[p] = "gone" \/ stop)
  /\ reading' = reading \ {p}
  /\ isOpen' = FALSE
  /\ UNCHANGED <<dev, loop, stop, misses, ota, tally, clock>>

\* The loop sees the stop channel first.
ReadStops(p) ==
  /\ p \in reading /\ stop
  /\ reading' = reading \ {p}
  /\ UNCHANGED <<dev, loop, stop, isOpen, misses, ota, tally, clock>>

----------------------------------------------------------------------------
(* The watchdog                                                            *)

\* A variant: only a link that never produced a message is looked at.
LooksDeadFresh == ~ever /\ silent > OpenLimit

\* Silent for too long: since the last message ever seen, or since the port
\* was opened if there never was one.
LooksDead == silent > (IF ever THEN SilenceLimit ELSE OpenLimit)

\* A variant: no sleep after a forced reconnect.
WatchNoSleep ==
  /\ nap = 0
  /\ LET dead   == isOpen /\ ~ota /\ LooksDead
         closes == dead /\ loop = "blocked"
     IN  /\ misses' = IF ~isOpen THEN misses ELSE IF dead THEN Min({misses + 1, 9}) ELSE 0
         /\ nap' \in 1..6
         /\ stop' = (stop \/ closes)
         /\ forced' = IF closes THEN forced + 1 ELSE forced
         /\ early' = (early \/ (closes /\ pause > 0))
  /\ UNCHANGED <<dev, loop, reading, isOpen, ota, faults, wake, pause, ever, silent>>

\* One tick: nothing while not open, the count restarts while OtaActive is set
\* or the link is alive; a dead link is closed, if readerPtr is set, and the
\* watchdog sleeps.  The ticker's next tick is 3 s away at most, one that was kept
\* waiting by a sleep comes at once.
Watch ==
  /\ nap = 0
  /\ LET dead   == isOpen /\ ~ota /\ LooksDead
         closes == dead /\ loop = "blocked"
     IN  /\ misses' = IF ~isOpen THEN misses ELSE IF dead THEN Min({misses + 1, 9}) ELSE 0
         /\ nap' \in IF dead THEN {2 * (4 + Min({misses', 8}))} ELSE 1..6
         /\ stop' = (stop \/ closes)
         /\ forced' = IF closes THEN forced + 1 ELSE forced
         /\ early' = (early \/ (closes /\ pause > 0))
  /\ UNCHANGED <<dev, loop, reading, isOpen, ota, faults, wake, pause, ever, silent>>

----------------------------------------------------------------------------
(* The devices, the operator and time                                      *)

\* What happens from outside starts the watchdog's tally anew.
Disturb == forced' = 0 /\ early' = FALSE

Fault(p) ==
  /\ faults < MaxFaults
  /\ dev[p] = "up"
  /\ \E d \in FaultKinds : dev' = [dev EXCEPT ![p] = d]
  /\ faults' = faults + 1 /\ Disturb
  /\ UNCHANGED <<loop, reading, stop, isOpen, misses, ota, clock>>

Replug(p) ==
  /\ dev[p] = "gone"
  /\ p \notin reading
  /\ dev' = [dev EXCEPT ![p] = "up"]
  /\ Disturb
  /\ UNCHANGED <<loop, reading, stop, isOpen, misses, ota, faults, clock>>

\* /api/reconnect closes the reader.
ByHand ==
  /\ loop = "blocked" /\ ~stop /\ faults < MaxFaults
  /\ stop' = TRUE
  /\ faults' = faults + 1 /\ Disturb
  /\ UNCHANGED <<dev, loop, reading, isOpen, misses, ota, clock>>

Ota ==
  /\ OtaMayRun
  /\ ota' = ~ota
  /\ Disturb
  /\ UNCHANGED <<dev, loop, reading, stop, isOpen, misses, faults, clock>>

Speaking == \E p \in reading : dev[p] = "up" /\ wake[p] = 0 /\ ~stop

\* The program has nothing to do but wait.
Waiting ==
  /\ nap > 0
  /\ loop = "open" => pause > 0
  /\ loop \notin {"marking", "marked"}
  /\ loop = "blocked" => reading # {} \/ pause > 0
  /\ \A p \in reading : ~(dev[p] = "gone" \/ stop)

\* A variant: a counter runs below zero.
DownBelow(n) == n - 1

Down(n) == IF n = 0 THEN 0 ELSE n - 1

HalfSecond ==
  /\ Waiting
  /\ nap' = nap - 1
  /\ pause' = Down(pause)
  /\ wake' = [p \in Ports |-> IF p \in reading THEN Down(wake[p]) ELSE wake[p]]
  /\ ever' = (ever \/ Speaking)
  /\ silent' = IF Speaking THEN 0
               ELSE Min({silent + 1, 1 + (IF ever THEN SilenceLimit ELSE OpenLimit)})
  /\ UNCHANGED <<dev, loop, reading, stop, isOpen, misses, ota, tally>>

LinkNext ==
  \/ OpenFails
  \/ Open
  \/ Mark
  \/ Publish
  \/ Drop
  \/ \E p \in Ports : ReadFails(p)
  \/ \E p \in Ports : ReadStops(p)
  \/ Watch
  \/ \E p \in Ports : Fault(p)
  \/ \E p \in Ports : Replug(p)
  \/ ByHand
  \/ Ota
  \/ HalfSecond

LinkSpec == LinkInit /\ [][LinkNext]_linkVars

\* The loops run, time passes, a device that is taken out is put back.
FairLinkSpec ==
  /\ LinkSpec
  /\ WF_linkVars(OpenFails \/ Open \/ Mark \/ Publish \/ Drop)
  /\ \A p \in Ports : WF_linkVars(ReadFails(p) \/ ReadStops(p)) /\ WF_linkVars(Replug(p))
  /\ WF_linkVars(Watch)
  /\ WF_linkVars(HalfSecond)

----------------------------------------------------------------------------
(* Properties                                                              *)

\* A device that is there is read again and again: dropped, wedged or
\* unplugged, it is picked up without anybody's help, unless an upload holds
\* the watchdog off for ever.
PortsHeal ==
  <>[]~ota => \A p \in Ports : []<>(p \in reading /\ dev[p] = "up" /\ ~stop)

\* A wedged link costs one reconnect by the watchdog, and so does one that is put
\* back: the watchdog gives it time to come up before it looks again.  Two, if the
\* first fell into a start sequence, whose end the connect loop sleeps through
\* before it notices; never three.
FewReconnects == forced <= IF early THEN 2 ELSE 1

\* Stats.Open and the connect loop agree when the program waits: while the loop is
\* about to open the ports the watchdog sees that, and leaves it to the loop.
OpenIsKnown == Waiting /\ loop = "open" => ~isOpen
=============================================================================
