# Verification of zigbee-sniffer

TLA+ modules that model the concurrent and failure-handling parts of this
repository, TLC configurations that check them on small instances, and theorems
about them that TLAPS checks. `PROJECT.json` maps every definition to the lines
it translates and lists the runs, the hazards and the theorems.

## 1. The system

A radio board (ESP32-C6, `firmware/`) captures 802.15.4 frames and sends them
over USB to a Go host (`tether/`), which decodes and stores them, serves a web
UI and commands the radios. A *primary* board has a USB port; up to three
*satellites* hang on its SPI bus and are reached through it. A *standalone*
build of the primary replaces the host by a web server on the chip.

### 1.1 Components

| Component | State | Operations | Interacts with |
|---|---|---|---|
| OTA engine (`core/ota.c`) | append position, erased-up-to, target slot, otadata | begin, write, end, abort, restart | called by the satellite's OTA task and the primary's command task |
| OTA upload (`/api/ota`, `otaprogress.go`, `ota_task`) | goroutine's position, tries, progress entry, two message paths | begin/chunk/end with resends, `OtaProg.Reset`/`Update`, abort | engine, serial link, SPI link |
| OTA session (`/api/ota`, prologue and epilogue) | `OtaActive`, saved roles, five-second timer | accept, pause all, transfer, resume all, clear flag | role map, radios, watchdog |
| Radio roles (`main.go`, `radios.go`) | role map, config file, tracker entries, readers | `setRole`, `applyRole`, `saveConfig`, `Saw`, `List`, restart | handler goroutines, ingest loop, radios |
| Radio of one board (`radio_capture.c`, `ed_scan.c`, `probe.c`, `sdr_mode.c`, `app_main.c`) | mode, channel, running, suspended, driver state, radio lock | commands, hopping, ED sweep, probe, lend RF to the SDR | command task and main loop share the driver |
| Serial link (`main.go` connect loop and watchdog, `reader.go`, `stats.go`) | reader, read loops, `Stats.Open`, ages, miss count | open, read, fail, force a reconnect, reconnect by hand | `OtaActive` holds the watchdog off |
| SPI link (`transport_spi.c`, `spi_master.c`) | ring, transmit buffer, DATA_READY, relay queue | send, fill, transact, handle, poll | tasks of two chips |
| Wire codec and stream decoders (`proto.go`, `codec.c`) | bytes held back | encode, feed, parse | both ends of USB and SPI |
| Radio allocation and jobs (`server.go`, `api/sdr.go`) | none of its own: tracker's snapshot, configuration | allocate, survey, monitor snapshot, channel, mode, hop, start, stop, SDR | goroutines that command the same radios |
| Device store, incidents, route failures (`store/db.go`) | thirteen SQLite tables, write counters | ingest, detect, prune, reset, reports | ingest loop, detector, API, scheduler |
| Ingest loop, detector, requests on the store (`main.go`, `server.go`) | watch set, threshold, home PAN | per message; every 20 s; per request | store, registry |
| Names (`names/`): registry, Home Assistant, Hue | five maps; a poller and a status per source | set, look up; connect, fetch, refresh, cancel | ingest learns addresses; pollers learn names; API reads |
| SDR traces (`sdr/sdr.go`) | sweep under way and history per radio | add a segment, stitch, clear | ingest loop, API |
| Configuration and secrets (`config/`, start of `main.go`) | YAML file, key file, `Config`, `Runtime` | start, save, the requests that save | every component reads it |
| Scheduler (`sched/`) | rows of the store | tick | store, radios |
| On-device incidents (`standalone/incidents.c`) | device table, log file | note frame, tick, rotate | SPI poll task and main task |
| Desktop shell (`cmd/zbsniff-desktop`) | child process, window, goroutines | start, await, tell of a crash, stop | runs the host |
| Decoding, demo, LED, web UIs, Python host, web server and WiFi of the standalone build, packaging | none that matters here | – | – |

### 1.2 What is hard

* **Concurrency**: handler goroutines, the ingest loop, pollers, the watchdog and
  timers on the host; two tasks around one radio driver on a board, and around
  the device table of the standalone build; tasks of two chips around one SPI
  bus; window, signal and crash handling of the desktop shell. Several of them
  check a flag and act later.
* **Failure**: every link drops messages when a queue is full; radios reset and
  come back with the settings they boot with; the host may be restarted, also
  in the middle of saving; flash operations and remote fetches fail; serial
  bytes are lost or damaged; power is lost between any two steps of an update.
* **Ordering**: an answer of an earlier attempt arrives in a later one; a
  status that waits in a buffer is not announced; a poller that was cancelled
  still has an answer to deliver; segments of two sweeps follow each other.
* **Forgetting**: tables are pruned, purged and trimmed while other tables and
  the registry go on referring to what they held.
* **Time**: waits of 2 s and 5 s with resends, the 5 s timer behind an upload,
  the 10 s after which a radio is forgotten, the watchdog's 8 s and 15 s, the
  2.5 s in which the connect loop sends its start sequence and does nothing else.

### 1.3 What makes the components correct

* An update never leaves the device without a bootable image, never installs
  anything but the image asked for, and never counts a byte that is not in its
  place; with fewer losses than resends it succeeds.
* Uploads exclude each other; while one runs the radios are quiet and the
  watchdog is held off; afterwards the radios are back in their roles.
* The config file follows the role map; a radio that is heard serves its role;
  a role that is left in place comes into force for good.
* The driver is never used while the RF is lent; a radio that listens is on its
  channel; capture that was started listens; the RF comes back.
* A link that drops or wedges is picked up without help and is not torn down
  again while it comes up.
* What an SPI ring took is delivered once and in order; commands are obeyed in
  order; a ring that holds something is announced.
* An intact frame comes out of the decoder once, whatever surrounds it.
* Silence and recovery of a device alternate, on the host through prunes and
  restarts, on the chip under two tasks; a deaf sniffer accuses nobody.
* Tables that say the same thing agree; what was learned outlives a restart.
* A radio that a job borrowed is given back as the configuration wants it.
* A trace shows one sweep. The status of a source is that of the last connect.
* A start finds the settings as they were saved. The host ends with its shell.

## 2. Modules

| Module | Models | Used by |
|---|---|---|
| `OtaImage` | images, flash contents, chunk and sector arithmetic | `OtaDevice` |
| `OtaDevice` | `core/ota.c` and the restart of the chip, as effects of one call | `OtaTransfer` |
| `OtaTransfer` | upload goroutine, `OtaProgress`, both paths, `ota_task` | `MCOtaTransfer`, proofs |
| `OtaInstall` | the promise of an update: boots a whole image, replaced only by the one requested | refined by `OtaTransfer` |
| `RadioCommands` | what a command does to a radio's settings; the frames of each role | `RadioRoles`, `OtaSession` |
| `RadioRoles` | the connect loop's start sequence, `setRole`, `saveConfig`, `applyRole`, `Tracker`, ingest, resets, link drops, host restarts | `MCRadioRoles` |
| `OtaSession` | what surrounds a transfer: flag, pause, resume, timer | `MCOtaSession` |
| `RadioDevice` | two tasks, the radio lock, the driver, sweeps, hopping, the SDR | run directly |
| `HostLink` | connect loop, read loops, watchdog, `Stats`, in half seconds | `MCHostLink` |
| `SpiLink` | ring, transmit buffer, DATA_READY, poll task, relay queue | run directly, proofs |
| `Listing` | a set, and the rows of a table, in an order: the library's `SortSeq` and `SelectSeq` in terms the prover can expand | `DeviceStore`, `WireStream` |
| `WireStream` | `Encode`, `StreamDecoder.Feed`, `ParsePayload`, the read loop, and a line that loses and damages bytes | `HostSystem` |
| `RadioJobs` (over `RadioCommands`) | allocation, jobs and requests that command radios, frame by frame | `HostSystem` |
| `DeviceStore` | every operation of `DB` that writes, as an operator from database to database | `DeviceFindings`, `NameRegistry` |
| `DeviceFindings` | what is read back: incidents, routing, failures in bursts, diagnostics, airtime, device analysis | `HostIngest` |
| `NameRegistry` | `Registry`, vendors, what learns names and what `enrich`, `traceroute` and the network labels make of them | `NameSources` |
| `NameSources` | `HAManager` and `HueManager`: connect, cancel, fetch, error, refresh | `HostIngest` |
| `HostIngest` | ingest loop, detector, scheduler tick, requests on store and registry, restart | `HostSystem` |
| `SdrStore` | segments to traces | `HostSystem` |
| `SettingsFile` | file, secrets, start, requests that save, a crash in a save | `HostSystem` |
| `DesktopShell` | the shell's goroutines around the host process | `HostSystem` |
| `ChipIncidents` | the two tasks of `incidents.c` | `HostSystem` |
| `HostSystem` | the parts of the host beside each other: `HostSpec`, the store with all that writes to it; `SystemSpec`, everything | `MCHost`, `HostProofs` |
| `OtaTransferProofs`, `OtaSessionProofs`, `RadioRolesProofs`, `RadioDeviceProofs` | theorems of the module they are named after | – |
| `LinkProofs` | theorems of the two links, `HostLink` and `SpiLink` | – |
| `RadioCommandsProofs` | lemmas: what a role's frames make of a radio | three of the proofs |
| `HostPartsProofs` | theorems of the parts of `HostSystem` that run for themselves: wire, shell, chip, settings, jobs, SDR | `HostProofs` |
| `HostProofs` | theorems of store and names, and of `HostSystem` | – |
| `MC*` | the small sets of the runs; `MCHost` lets one part of `HostSystem` move at a time | – |

Definitions keep the names of the code where they can. An operator introduced
by "Mutant:" or "A variant:" is not part of the specification: it is a wrong
form of the definition below it, used to see that the properties notice.

### 2.1 OTA: `OtaImage`, `OtaDevice`, `OtaTransfer`, `OtaInstall`

Byte *k* of image *i* is the pair `<<i, k>>`, so a byte in the wrong place and a
byte of the wrong image both show. `BeginImage`, `WriteChunk`, `EndImage`,
`AbortImage` and `Restart` are the functions of `ota.c` with their early returns
and their failing flash operations (a `Fault` each). `recv`, `erased`, `part` are
`s_recv`, `s_erasedUpTo`, `s_part`; `boot` is the slot otadata names, `run` the
slot that is running, and `Restart` is the bootloader's choice.

`OtaTransfer` adds the goroutine (`pc`, `off`, `tries`), `OtaProg`'s entry
(`prog`), the two bounded FIFO paths (`cmds`, `stats`) and the satellite's task,
which answers each command with a status. Messages may be lost at any point,
the satellite may lose power, and the host process may die. `upload` and
`accepted` are history variables. Three specifications share the actions:

* `Spec`: an upload may start while messages of an earlier one are under way;
* `QuietSpec`: an upload starts when the link has drained and the device has
  restarted (`Quiet`), which an operator who waits between attempts provides;
* `PromptSpec`: moreover a wait times out only when no answer can come any more,
  since the 2 s and 5 s of the code outlast a round trip; no crashes.

Not modelled: uploads to the primary itself (target 0, paced and unconfirmed),
the image's total size and error counters that are only displayed, the rule by
which uptime stands in for a lost final status. A satellite's statuses carry its
own id; here there is one satellite.

### 2.2 Roles: `RadioCommands`, `RadioRoles`

A radio is its settings: mode, running, hop dwell, channel. `Exec` is the effect
of a command, the same in both builds; `RoleFrames` and `SatRoleFrames` are the
two tables of `main.go`; `Serves` is what a role means. `RadioRoles` has one call
record per handler goroutine and one for the ingest loop; `Ask`, `Save`,
`Apply`, `Send` are the steps of `setRole` and `applyRole`, one frame at a time.
`Seen` is `Tracker.Saw` with its answer used, `SeenAnswer` the handlers that drop
it, `List` the pruning of entries. `loop` is the connect loop: `Reconnect` opens
the port and stores the reader, `LookUpPrimary` asks once whether radio 0 has a
role, and if it has none `SendStart` sends channel, hop, mode and start, one frame
at a time and round after round, whatever role the radio is given meanwhile.
Frames are executed when sent; the relay's queue is in `SpiLink`. One port is
modelled. `spoilt` is a history variable: the radios whose role was lost to a
reset, to a dead link, to a frame of a start sequence that began before the role
was set and changed what the radio does, or to a first message that does not apply
it, so that `RoleInForce` and `RolePrevails` say exactly what the code gives.

Calls run one at a time (`OneAtATime`), and the connect loop beside them. The
code does not enforce that: two requests can save their copies of the map in the other order, and the frames
of two calls can mix. Both are hazards in `PROJECT.json`.

### 2.3 Sessions: `OtaSession`

`active` is `OtaActive`, `timers` the `time.AfterFunc` of returned uploads,
`saved` the roles an upload found, `left` the radios it still has to pause or
resume. The transfer is one step, completed or aborted, and so is `setRole`;
their insides are in the modules above. `Abort` clears the flag before the
radios are resumed and `Return` arms the timer in either case, as the code does.

### 2.4 One board: `RadioDevice`

Each locked section of a task is `Take`, its steps, `Done`. `SetChannel` and
`Retune` are the halves of `radio_capture_set_channel` (park, tune, listen);
`Sweep`, `Measure`, `Restore` are `ed_sweep`; `Lend` and `ResumeCapture` hand the
RF over and back. `CmdMode` needs no lock. Both give it back by `Resume`
(`radio_capture_resume`), in which `esp_ieee802154_enable()` may fail: the code
logs that and goes on as if it had not. `broken` records it until the next loan.
Driver calls on a disabled driver are errors without effect, which nobody looks at
but `radio_capture_start`, where the chip then restarts (`StartAborts`). `fault`
records a call of the driver while it is disabled and not `broken`, that is, while
it is lent. Sampling and FFT are not modelled.

### 2.5 Host link: `HostLink`

Time is in half seconds, and what the program does takes none but for its sleeps:
`HalfSecond` fires when all loops wait (`Waiting`). `Open`, `Mark`, `Publish`,
`Drop` are the connect loop (`Reader.Start` starts the read loops before it calls
`MarkOpen`, and `readerPtr` is set after it). `Publish` goes on to the start
sequence or not, as the primary has a role or not: 2.5 s in which a closed reader
goes unnoticed. `ReadFails` and `ReadStops` are the two ends of a read loop,
`Watch` the watchdog's tick with its back-off. A device may wedge ("mute") or
vanish ("gone"). The clocks stop at the first half second after which nothing
depends on them. `forced` and `early` are history: the watchdog's reconnects
since something last happened from outside, and whether one of them fell into a
start sequence.

### 2.6 SPI: `SpiLink`

Messages and commands are numbered in the order they are handed over. `Send` and
`Raise` are the halves of `spi_slave_send` (append under the lock, raise the line
outside), `Fill` is `fill_tx`, `Transact` one exchange. `Fill` is one step because
the SPI task has the highest priority on a single core. A satellite that has not
queued its side neither sends nor receives, so a command can be lost and a staged
message cannot. One satellite; messages are units, framing is left out, and so is
the semaphore that only shortens the poll task's 50 ms wait.

### 2.7 Store and ingest: `DeviceStore`, `DeviceFindings`, `HostIngest`

A database is a record of tables; a table with a primary key is a function, one
with an automatic id a sequence, oldest row first. `d.mu` and the single
connection make every call one step. `writes` are the counters that trigger
prunes; they belong to the process and start at 0 with it, as in the code.
`IngestFrame` is the whole transaction: packet, PAN, minute of airtime,
maintenance, devices, links. `DetectIncidents` walks the devices and writes
silence and recovery; `Ingest` is the `CapturedFrame` case of the loop with all
that follows from it (learned addresses, network label, route failure, rejoin).
A purge and a factory reset empty the store (`Wipe`), then the names (`WipeNames`),
then the settings (`WipeSettings`), with frames and everything else between these
steps; `torn` is history: the addresses a frame stored before the names went. The
operations of one frame are one step, as the header of `HostIngest` explains: a
half that a wipe separates from the rest leaves what the whole frame leaves before
or after the wipe, but for two kinds of rows that nothing is claimed of. Two
wipes at a time are left out.
Every answer of the API is evaluated in every state by `HostTypeOK`, which says
(`AnswersOK`) that it is well formed: lists sorted and bounded, severities
graded (`ListsOK`), labels of networks and channels (`NetworksOK`), what is said
of a device and the way to it (`DevicesOK`), acknowledged probes no more than
probes sent (`ProbesOK`). The wording is left out; of a finding its kind, subject
and severity are kept. Failures of SQLite are
ignored by the code and left out; `Diagnostics`' 10 s cache is left out, so what
it returns is computed afresh.

### 2.8 Names: `NameRegistry`, `NameSources`

A poller is a record with its target and phase. A fetch is two requests; each
may fail, be overtaken by a cancel (`Cut`: only Home Assistant's client is given
the context), or answer. `Answers` are what the remote services say. `want` is a
history variable: the target connected last. `Traceroute` is the set of paths that
the code's search may return: `Parents` and `Linked` are the hops of the neighbour
tables and of the observed links, `PathsTo` the paths along them. Pairing with a bridge, TLS pinning,
the JSON of the answers and two concurrent calls of one `Connect` are left out.

### 2.9 Jobs: `RadioJobs`

A request or job is the list of what it still has to do, one frame on the wire
or one entry saved per step (`Advance`), beside every other. `view` is what the
tracker reports, `role` the role map, `cfg` the saved settings; `Allocate`,
`AllocateSdr` and `SpareRadio` choose from them. `Deliver` is one call of
`sendToRadio`, which asks as it begins whether the radio is relayed (`Reaches`): a
satellite that `Forget` has removed from the tracker is taken for the port's own
radio, and so are the frames for it. Each frame may be lost (a satellite that is
not armed yet, a link that is down). A radio that is heard anew is given its role
(`Identify`). `BorrowedComesBack` follows, per radio, the last job that was on it,
and excepts (`clean`) radios a user or another radio's frames commanded, those
whose configuration changed meanwhile, and those whose restore was lost or went
elsewhere; a survey's own frames may be lost, since its restore mends them. Commands that leave a radio's settings
alone (probe, beacon request, raw frame) are in `RadioDevice`.

### 2.10 Wire: `WireStream`

Bytes are numbers, the checksum a function of the body that tells the bodies of
the run apart. `Look` is one position of `Feed`'s scan: wait, move on, reject,
take, with what the read loop hands on of the frame taken (`Message`); `Scan`
follows it from every position of the buffer. A byte on the line or in the buffer
carries the number of its message beside its value (history), and `hurt` holds
the messages that `Damage` and `LoseByte` hit. `Stream` is all that was sent and
not yet decoded. `NoForgery` says that no byte of a damaged message passes for
the start of a frame, which no checksum of fixed width can guarantee for all
traffic: `HostTypeOK` includes it, so the run shows that it holds of the traffic
and faults there, and the theorems that need it name it.

### 2.11 SDR traces: `SdrStore`

A board sends the segments of its plan, some of which are lost. `Collect` is
`Store.Add`; `Stitch` puts levels on the grid and `FillGaps` interpolates. A
level is the LO it was measured from, so that a trace shows whose it is.

### 2.12 Settings: `SettingsFile`

Of the settings one of each treatment is kept. `StartHost` is `main` up to the
radios: flags before the file, the file before the backup, the result saved.
`Encrypt` marks a secret with the number of the key file it was sealed by.
`DieSaving` leaves the first lines of a file. A preference is changed by its
quotes, as `Save` and `Load` do.

### 2.13 Shell: `DesktopShell`

Main goroutine, signal goroutine, crash teller, readiness probe and `stop` are
five program counters around one child. The 5 s between SIGTERM and the kill are
the choice the host has to end first.

### 2.14 Chip: `ChipIncidents`

The poll task notes a frame in one step (it has the higher priority on the one
core) and logs a recovery in another, since it waits for the file system there.
The main task's walk is one step per entry and part: look, flag, log. `told`
counts silences less recoveries. Left out: the parse of the MAC header, a file
system that fails, `incidents_set_threshold`, which nothing calls.

## 3. Runs

| Run | Shows | Bounds |
|---|---|---|
| `ota_quiet` | type, `InPlace`, `GateIsFresh`, `ConfirmedIsWritten`, `BootSlotIsWhole`, and the refinement of `OtaInstall` (`InstallsRequested`) under losses, crashes, power cycles, flash failures | three images (1½ chunks, 2 chunks, too large), slots of 4 bytes in sectors of 2, two tries each, 3 uploads, 3 failures: enough for a failure in one upload, its retry and the next upload |
| `ota_prompt` | `UploadSucceeds`: three losses do not stop an upload | the code's 4, 8 and 5 tries, 2 uploads |
| `ota_stale_status` | **violation**: `OtaProg.Reset` does not keep a late status of the attempt before out | no failures at all, 2 uploads |
| `roles` | `RolesPersisted`, `RoleInForce`, `RolePrevails` with resets, silences, drops and restarts | a primary and a satellite, four roles, 2 requests, 1 reset or restart; a start sequence of 2 rounds, so that one is sent after the role it overwrites has been applied |
| `roles_reset` | **violation**: a primary that resets and is back within ten seconds keeps the settings it booted with | one request, one reset, and no role set during a start sequence |
| `session` | `NoOverlap`, `FlagCovers`, `CapturesPaused`, `RolesResumed`, `FlagClears` | two uploads, two radios, every initial role map over two roles |
| `session_timer` | **violation**: the timer of an aborted upload clears the flag under the next | two uploads |
| `radio` | `DriverOwned`, `TunedWhenListening`, `CaptureListens`, `RadioGivenBack`, and no deadlock | three channels (first, middle, last), hopping on |
| `link` | `FewReconnects`, `OpenIsKnown`, `PortsHeal` | one port, 2.5 s to wake, 3 faults |
| `link_lost_port` | **violation**: one of two ports is unplugged, put back and never opened again | two ports, 1 fault |
| `spi` | `NothingLost`, `ObeyedInOrder`, `RingSignalled`, `NextDelivers` | 5 messages, ring of 3, 2 a transaction; 3 commands, queue of 2: the ring overflows and a command is missed |
| `host` | ten scenes, below | below |

`host` (`MCHost`) holds the parts of the host, the shell and the chip's incident
engine in one state, and lets the part that `scene` names move. The parts share
nothing but the registry of names, which the frames and the sources fill by
operations under one lock; a behaviour in which two parts move is an interleaving
of behaviours in which each moves alone, so nothing is lost by it. (A setting
that several parts read is a variable of each.) What a part is checked for:

| Scene | Moves | Shows | Bounds |
|---|---|---|---|
| `detect` | frames of two devices, rejoins, a minute passes, detector, threshold, restart | `DownIsSilent` | 7 operations after 5 frames; one incident kept, so that the row that says "silent" is pruned |
| `mesh` | route errors, announcements that move an address, stray frames, purge and reset step by step, restart | `TablesAgree` (`FailuresAgree`, `ExtsAgree`) | 5 operations |
| `tables` | samples, probe answers, HA log, watch set, schedules, settings | `HostTypeOK` | 4 operations, enough for each of these tables to pass its cap |
| `names` | two Home Assistant targets and a bridge | `StatusSettles` | 3 connects |
| `wire` | four kinds of messages, one of them malformed | `NothingSkipped` | 2 messages, 1 fault, reads of any length |
| `jobs` | two radios, every job and request, frames lost and satellites forgotten | `BorrowedComesBack` | 2 at a time, one of them a job; a channel is configured at first |
| `sdr` | a radio with three segments a sweep, one with one | `TraceIsSweep` | 2 sweeps, a history of 2 |
| `settings` | starts with and without flags, backup, key file; requests; crashes | `SettingsSurvive` | 4 starts and requests |
| `shell` | everything | `HostGoesWithShell` | none needed |
| `chip` | three addresses, a table of two | `TablesAgree` (`SilencesAgree`) | time 3, silent after 2, log of 1 |

The caps of the store, and the frames, seconds and points of the code, are small
numbers here; what matters is that each is reached. Every property is an
invariant or action property of all scenes, and holds trivially where its part
rests.

Deadlock is checked where the system runs for ever within the bounds (`radio`).
In the others the bounded environment stops: all uploads made, all messages
sent, all requests answered.

Every property has a mutant in `PROJECT.json`: a plausible mistake in one mapped
definition with which TLC finds the property violated under the same
configuration.

### 3.1 Fairness

* `PromptSpec`: the satellite handles what arrives, the goroutine sees what it
  polls for, statuses are taken in, and a wait ends. Losses are not fair; they
  are bounded below the number of resends.
* `FairSerialSpec` (roles): a call goes on, the connect loop opens the port and
  gets through its start sequence. A
  radio's report is strongly fair: radios report at 1 Hz and reports queue
  while the ingest loop is busy, so one is read although the loop is busy again
  and again.
* `FairSpec` (session): goroutine and timer go on. Every wait of the transfer
  has a deadline, so it ends. `Undisturbed` leaves out what breaks the
  properties and is recorded as findings or hazards: a post while an earlier
  upload is wound up or its timer pending, a role assigned during an upload, a
  radio starved off the tracker's list in the middle of one.
* `FairSpec` (radio): tasks run on inside the lock; a sweep measures finitely
  many channels; the main loop gets the lock it asks for again and again
  (FreeRTOS mutexes wake their waiters).
* `FairLinkSpec` (link): loops run, time passes, what is unplugged is put back.
  That includes what the connect loop does after `MarkOpen` (`Publish`).
  `PortsHeal` assumes that uploads do not hold the watchdog off for ever.
* `FairSpec` (SPI): the tasks get their turns; nobody is obliged to send.
* `NamesFairness` (host): a fetch ends, with an answer or without: Hue's client
  gives up after 8 s, a cancelled fetch of Home Assistant is ended by its
  context, a lost connection is noticed; and the 30 s timer fires. A cancelled
  poller's end is strongly fair, because a `select` with several channels ready
  picks one at random. A Home Assistant that keeps its connection open and never
  answers is excluded: the code sets no read deadline.

## 4. Proofs

All theorems hold for every value of the constants that satisfies the modules'
assumptions (`ImageAssumption`, `FaultAssumption`, `TransferAssumption`,
`SessionAssumption`, `RoleAssumption`, `ChannelAssumption`, `DeviceAssumption`,
`LinkAssumption`, `SpiAssumption`, `ChipAssumption`, `SettingsAssumption`,
`JobsAssumption`, `SdrAssumption`, `StoreAssumption`, `HostAssumption`,
`SourcesAssumption`, `WireAssumption`): sizes and bounds are naturals, positive where
the code divides by them or needs room for one; radios are numbers, finitely many
where a job or an upload goes through all of them; a sweep has a segment at
least; a payload fits its frame. What a theorem assumes beyond that is in its statement, and named below.

**`OtaTransferProofs`, of `Spec`.** `TypeCorrect`: `TypeOK` is not inductive,
because the chunk in hand must lie in the image for its length to be a natural;
`TypeInv` adds that (`ChunkInside`). `InPlaceCorrect`: whatever the links lose or
delay and however uploads are abandoned, every byte counted lies at its own
offset. The invariant `AsyncInv` adds `WriteAhead`: the append position never
passes what has been erased, and the slot written is not the one running.

**The same module, of `QuietSpec`.** The gate, confirmation and boot properties
need to know who is behind a status. `IInv` (at the end of `OtaTransfer`) says:
commands in flight belong to the last upload, BEGINs first (`CmdsCurrent`); until
the BEGIN is accepted no status can open the gate (`Unaccepted`); while a BEGIN
may still reset the satellite nothing counts as confirmed (`Early`); every count
in flight is backed by the slot (`Backed`); the boot slot verifies and is not
written (`SlotsApart`). From it: `GateCorrect`, `ConfirmedCorrect`, `BootCorrect`,
and `InstallCorrect`, the refinement of `OtaInstall`: `InstallInit` maps the
initial states, `InstallStep` every step to a step or a stutter.

**`OtaSessionProofs`, of `QuietSpec`.** `SessionTyped`, `OneUpload` (`NoOverlap`),
`FlagHeld` (`FlagCovers`) and `RadiosPaused` (`CapturesPaused`) follow from
`SessionInv`: one upload at a time is under way, and no timer is pending while it
is (`OneUnder`); what the upload that is under way has paused stays paused
(`Stopped1`). `RolesComeBack` (`RolesResumed`) needs `RolesInv`: until an upload
has paused a radio, all are in their roles; from then on the roles are those it
saved, and the radios it has resumed are back in theirs. It assumes
`MonitorAlone`: where "monitor" is in use, so are at most "sniffer" and "hopper".
The code needs that: a satellite's frames for "monitor" do not set its mode
(`satRoleFrames`, `main.go:347-350`), so after "spectrum" or "ed" it would not
capture.

**`RadioRolesProofs`.** `RolesTyped`, of `Spec`. `FileIsCurrent` (`RolesPersisted`),
of `SerialSpec`, the calls one at a time: a call about to save holds a copy of
the map in use (`Saving`); of `Spec` it is false, as one of the divergences says.
`RolesInForce` (`RoleInForce`), also under `MonitorAlone`: whoever is tracked
serves its role, or a call is on its way whose remaining frames bring it there
whatever was heard before (`ForceInv`, with `OnItsWay`); the lemmas on frames are
those of `RadioCommandsProofs`. A frame of the start sequence changes nothing of
that (`StartEffect`): it leaves radio 0 as it is, radio 0 has no role, or its role
is spoilt. Since that sequence may set any saved mode, what "monitor" leaves alone
is asked of satellites only (`Monitors`).

**`RadioDeviceProofs`, of `Spec`.** `TypeCorrect`, `RadioIsOwned` (`DriverOwned`),
`RadioIsTuned` (`TunedWhenListening`) and `RadioListens` (`CaptureListens`), from
one invariant, `DeviceInv`: a task is inside a locked section exactly when it
holds the lock (`LockAgrees`); the driver is enabled exactly while the RF is not
lent, unless it is broken, and a task that checked inside the lock that the RF is
there still finds it so (`RfOwned`); with the driver enabled, between the halves of a change of channel, and only there, the radio is parked
on the old one (`Settled`). The restart in `StartAborts` establishes it anew.

**`LinkProofs`, of `LinkSpec`, the serial link.** `LinkTyped` and `OpenIsReported` (`OpenIsKnown`)
from `LinkInv`. `ReconnectsFew` (`FewReconnects`) for a device that reports within
2.5 s of being reopened (`WakeTime <= 5`; with 6 it is false): after a forced
reconnect the link is `OnTime`, in one of five phases each of which bounds what is
left of the watchdog's sleep by what is left of the reopening; or, if the
reconnect fell into a start sequence, `Behind`, where the sleep is short of that by
what was left of the start sequence. Being behind costs one more reconnect, and by
then the link is so far into its next start sequence that this one is on time.

**`LinkProofs`, of `Spec`, the SPI link.** `TypeCorrect`; `DeliveryCorrect` (`NothingLost`),
which needs that only an armed satellite has something staged, and lemmas on
cutting and joining sequences; `OrderCorrect` (`ObeyedInOrder`), which needs the
order of all commands from the satellite back to the queue (`Ordered`) and that
a command is in one place at a time; `SignalCorrect` (`RingSignalled`), which
needs that a line still down is owed by some sender (`Signalled`).

**`HostPartsProofs`**, one part of the host after the other, each under its own
initial states and steps. Each part has its type theorem: `ShellTyped`,
`ChipTyped`, `SettingsTyped`, `JobsTyped`, `SdrTyped`, `WireTyped`. The others:

* `ShellCorrect` (`HostGoesWithShell`): `stop` is done only with a host that has
  ended, no second host is started, and without an early signal the shell is
  gone only when there was no host or `stop` is done (`ShellInv`).
* `ChipCorrect` (`SilencesAgree`). The balance is not inductive as it stands: a
  step of the main task that raises the flag must know that the poll task has not
  raised it meanwhile (`Unflagged`: only the main task raises flags), and a device
  that enters the table must have nothing told of it (`Untold`). That the poll
  task may lower the flag between two steps of the main task is what the two
  corrections of `SilencesAgree` absorb.
* `SettingsKept` (`SettingsSurvive`): memory and disk say the same (`InMemory`,
  `OnDisk`: the file is what was saved last, under the key there is or under
  none), and a backup in use has filled in channel and PAN before anything was
  saved (`BackupTaken`), so the next start fills in nothing.
* `BorrowedReturns` (`BorrowedComesBack`), for any number of radios and of calls
  at a time: whatever a radio that nobody asked for lacks of its configuration,
  mode, receiver, hop or channel, a job that is on it still mends (`Repaired`),
  because a job ends in a restore or, once that is read out, in frames that agree
  with the configuration (`Borrowed`), and nothing is saved meanwhile (`Unsaved`).
  A frame that is lost, or goes to another radio, either leaves that restore to
  come or takes the radio out of `clean` (`Misses`), and so with the other radio.
* `TracesAreSweeps` (`TraceIsSweep`): what a radio made of the sweep in hand is
  collected or counted as lost (`Collecting`), and the traces of the history are
  those of sweeps that are over, in their order (`Ordered`).

The wire (`WireSpec`), for any traffic, sizes and noise:

* `CutsDoNotMatter`: reading a stream in two pieces yields what reading it at
  once yields. A position decides alike in a longer buffer unless it waits
  (`LookSame`), a scan of a prefix is a scan of the whole up to where it waits
  (`CutScan`), and a scan does not know what was before it (`ShiftScan`).
* `BufferBounded`: less than a frame is held back, whatever came in; so the
  decoder never waits for bytes it has.
* `CleanLine`: without faults every message that parses comes out, once and in
  order, also where payloads contain the start of a frame.
* `IntactComeOut` (`NothingSkipped`), if `NoForgery` holds all the while: messages
  no fault touched come out and nothing else does. Its invariant, `WireInv`: the
  stream is messages in the order they were sent, intact ones whole and of
  damaged ones what is left (`Framed`); what came out is what was due before them.
  The scan then steps over damaged bytes one at a time and takes each intact
  message as a whole (`FindsWhole`).

**`HostProofs`**, of the store and the names, and of the whole. Store and names
are one part, since frames and sources both fill the registry: `HostSpec` is
`HostNext` with the pollers of `NameSources` beside it.

* `SilenceIsTold` (`DownIsSilent`). After a round of the detector the last word on
  an address tells whether its device is silent, and no silence follows another
  without a recovery between them. The invariant is `StoreInv`: of an address that
  is alone in its low 16 bits, silence and recovery take turns among the
  incidents. Cutting the oldest rows keeps that, and so do rejoins and a device
  that joins, which can only make fewer addresses stand alone; the detector keeps
  it because it writes only what differs from the last word (`DetectNotes`).
* `AddressesAgree` (`ExtsAgree`): the registry goes by every address stored with a
  device (`Known`), also that of a new process, which loads the stored addresses
  after the backup's (`SeedKnows`). Addresses stored between the halves of a wipe
  are `torn`: of these the registry knows nothing or the right one.
* `OnePollerStays` (`NamesTypeOK`, a part of `HostTypeOK`): of each kind of source at
  most one poller is not cancelled.
* `FailuresCount` (`FailuresAgree`). The code keeps a target's failures beside those
  of each reason; that the first is the sum of the others (`Books`) must be
  followed through a fold. Where the library's induction theorems cannot help, a
  counterexample that is least (of the numbers, or of finite sets under strict
  inclusion) leads to a contradiction (`LowestIs`, `Backwards`). So
  are shown that the sum counts pairs (`SumIs`), that `InOrder` lists each member
  once and in order (`RankedIs`), and that the bursts cut from the log join to it
  again (`RunsAre`, `Flat`).
* `TablesBounded` (`TablesTypeOK`): caps, one id a schedule, and airtime that
  counts a minute's frames as its histogram does.
* `StoreTyped` (`StoreTypeOK`, with every answer of the API): what is read back is
  shaped by what was written, so its invariant (`Logs`) types every row of every
  table. A path of the traceroute starts at the coordinator and ends at the
  device, whatever hops the tables hold (`PathsLead`: the paths of a round are
  those of the round before and one hop); a diagnosis has a severity the UI
  knows, after decay too (`DiagnosesGraded`); of a device's probes no more are
  acknowledged than were sent (`FewerAcks`).

Of `SystemSpec`, where all parts move in any order: `PartsAlone` projects its
behaviours on each part, which are behaviours of that part's own specification
(`PartsStep`). So `TablesStayAgreed` (`TablesAgree`) and, with `NoForgery`,
`SystemTyped` (`HostTypeOK`) follow from the theorems above.

**Only model-checked.** All liveness (`StatusSettles`, `PortsHeal`,
`UploadSucceeds`, `RolePrevails`, `RadioGivenBack`, `FlagClears`, `NextDelivers`),
which is outside the prover's reach, and `NoForgery`, which is true of an
instance and not of all.

## 5. Where code and documents disagree

Shown by a run, with the lines quoted in `PROJECT.json`: a late status opens the
gate of a new upload (`otaprogress.go`); a reset radio keeps its boot settings
(`radios.go`); the timer of an aborted upload clears the flag of the next
(`server.go`); one lost port of several is never reopened (`reader.go`).

Noticed while modelling, each in the model as the code has it:

* Roles and radios: two role requests may save in the other order; SDR segments
  and probe results drop `Saw`'s answer; a satellite's sniffer and monitor frames
  leave the hop dwell, the monitor frames the mode as well (a monitor that was a
  spectrum analyser does not capture); a sweep or a probe switches a stopped receiver on;
  a role set for the primary in the 2.5 s of a start sequence is overwritten by the
  rounds that follow, though the comment at `main.go:505-513` is there to prevent
  that; a driver that fails to come back from the SDR is logged and used all the
  same (`radio_capture.c:164`), until `radio_capture_start` aborts on it;
  `CMD_STOP` leaves ED and SDR modes running during an upload; an upload that
  gives up clears the flag before it resumes the radios, leaves radios without a
  role stopped, and writes back roles the operator changed meanwhile.
* Links: `LastMsgAge` is not reset by a reconnect; a reader the watchdog closes
  during a start sequence is noticed after it only, and may be closed again; staged SPI data is not
  announced; the firmware's decoder loses frames behind a damaged length; a slow
  WebSocket subscriber loses events without a word.
* Jobs: a survey or snapshot on a radio in the role "spectrum", or on a stopped
  one, ends with that radio capturing; a satellite comes back on the channel and
  hop configured for the primary (`server.go:474-502`); without a configured
  channel the momentary one of a status is taken for the intended one; the
  restore sends what it read before a concurrent change; a stop during a survey
  is undone by it; the frames of a job on a satellite that is pruned from the
  tracker meanwhile, its restore too, go to the primary's own radio
  (`server.go:428`).
* Store: an address learned for a device without a row is never stored, though
  names are to be known after a restart (`main.go:217`, `db.go:334`);
  `upsertLink` replaces a row's layer, so `latestEdgePerSrc` may prefer a stale
  MAC edge, contrary to its comment; a reused short address keeps the old name
  (`db.go:346`); incidents print the low 16 bits of an address, and two devices
  that agree in them fire every tick, against "never double-fires"; a device
  whose silence row is pruned or purged is logged again; `Reset` leaves the
  airtime minutes ("every captured-data table"); `Open` cuts neither packets,
  route failures nor airtime, whose counters restart with the process; a
  schedule's run is always marked unacknowledged (`sched.go:44`); a frame that
  arrives between the two halves of a purge (`server.go:1469`, `1475`) leaves an
  address stored that the registry does not know; a factory reset
  keeps the PAN, and the live role map is saved again later.
* Names: after `hue_forget` a fetch under way may show the bridge connected for
  good, against the comment at `hue.go:95`; a cancelled poller may write over the
  status, or take the refresh, of its successor until it ends.
* SDR: with a failed first segment the duration of a trace counts from zero
  (`sdr.go:201`); after a clear in mid-sweep the rest counts as dropped.
* Settings: a malformed key is saved and keeps the host from starting
  (`server.go:1944`); a key file that cannot be read is replaced, and the save at
  the start then erases every secret; a save is not atomic; a preference loses
  its double quotes; a key cleared in the UI is back after a restart with a
  backup that holds one.
* Chip: a frame noted after the tick read the time makes its device "silent"
  (`incidents.c:121`); a recovery may be logged before its silence; rotation
  removes the whole log, though its comment keeps half; a device the full table
  has no room for is never followed.
* Shell: a signal between the start of the host and `signal.Notify` ends the
  shell and leaves the host running.

## 6. Plan

Done: OTA with its proofs; roles and sessions; host link; SPI link with its
proofs; the radio of one board; wire decoder of the host; jobs; store, findings
and ingest; names; SDR traces; settings; desktop shell; incidents on the chip.

Proved: what section 4 lists.

Left, in this order:

1. The firmware's byte-wise decoder beside `Feed`, and what it loses.
2. Uploads to the primary itself (target 0), whose chunks are not confirmed.

### Not modelled

Frame decoding (`decode/`: bit-level parsing and AES-CCM, pure and well tested);
numeric SDR code; the demo source; browser code, the web server and WiFi of the
standalone build (library code around requests that answer at once); the LED;
the Python host that `tether` replaced; hardware, packaging and documents. Of
modelled parts: authentication and the text of the API's answers, the trace's
display flags, pairing with a Hue bridge, two ports with satellites at once, and
concurrent calls of one `Connect`. `MSG_INCIDENT` is sent by the standalone
firmware only, which has no host; the host's case for it is not reached.
