----------------------------- MODULE RadioRoles -----------------------------
(***************************************************************************)
(* How a radio comes to run its role: the role map and its copy in the     *)
(* config file (main.go, setRole and saveConfig), the tracker that notices *)
(* which radios report (radios.go), the ingest loop that applies a role    *)
(* when a radio is first seen, and applyRole, which sends the role's       *)
(* frames one by one while other calls of it run.  Beside them the connect *)
(* loop opens the port and, if it finds radio 0 without a role, goes on    *)
(* for 2.5 s sending it the settings of old, whatever it is given since.   *)
(*                                                                         *)
(* One serial port: radio 0 is its own radio, the others are satellites    *)
(* behind it.  A call is either a goroutine serving /api/radio_role or the *)
(* ingest loop, which is blocked for as long as it applies a role.         *)
(***************************************************************************)
EXTENDS RadioCommands

CONSTANTS
  Radios,      \* radio ids; 0 is the primary
  Requests,    \* the HTTP handler goroutines that may set a role
  Ingest,      \* the ingest loop
  AskRoles,    \* the roles the operator uses
  MaxAsks,     \* bound: role requests made
  MaxResets,   \* bound: radio resets and host restarts
  Resetting,   \* radios that may reset (power, crash, OTA)
  Answering,   \* radios whose first message may be a probe result or an SDR segment
  LinkDrops,   \* TRUE iff the serial link may drop by itself
  HostRestarts,\* TRUE iff the host program may be restarted
  SavedMode,   \* the mode of the start sequence (cfg.Mode; capture if none is saved)
  SavedDwell,  \* its hop dwell (cfg.HopDwellMs); 0 leaves hopping as it is
  StartRounds  \* how often the start sequence is sent (5 in the code)

ASSUME RoleAssumption ==
  /\ Radios \subseteq Nat /\ 0 \in Radios
  /\ Ingest \notin Requests
  /\ AskRoles \subseteq Roles
  /\ MaxAsks \in Nat /\ MaxResets \in Nat
  /\ Resetting \subseteq Radios /\ Answering \subseteq Radios
  /\ LinkDrops \in BOOLEAN /\ HostRestarts \in BOOLEAN
  /\ SavedMode \in Modes \ {"idle"} /\ SavedDwell \in Dwells
  /\ StartRounds \in Nat \ {0}

VARIABLES
  roles,    \* the role map, under rolesMu
  file,     \* RadioRoles in the config file
  tracked,  \* radios with an entry in the tracker
  stale,    \* radios not heard from for longer than staleAfterS
  link,     \* "up" iff readerPtr holds a reader with an open port
  loop,     \* the connect loop: where it is, rounds of the start sequence left
            \* to send, and what is left of this round
  device,   \* each radio's settings
  call,     \* what each goroutine is doing
  asks,     \* role requests made
  resets,   \* radio resets and host restarts
  spoilt    \* history: radios whose role was lost on the way, to a reset, to a
            \* dead link, to a start sequence begun before the role was set, or to
            \* a first message that does not apply it

vars == <<roles, file, tracked, stale, link, loop, device, call, asks, resets, spoilt>>

RoleMaps == [Radios -> AskRoles \cup {None}]
Callers  == Requests \cup {Ingest}
Rest     == [pc |-> "idle", radio |-> 0, snap |-> [r \in Radios |-> None], frames |-> <<>>]

\* The loop sleeps or blocks on the reader's Done; it has stored a reader and not
\* yet looked at the roles; it is sending.
LoopPcs   == {"wait", "opened", "send"}
LoopWaits == [pc |-> "wait", rounds |-> 0, frames |-> <<>>]

TypeOK ==
  /\ roles \in RoleMaps /\ file \in RoleMaps
  /\ tracked \subseteq Radios /\ stale \subseteq tracked
  /\ link \in {"up", "down"}
  /\ loop.pc \in LoopPcs /\ loop.rounds \in 0..StartRounds /\ loop.frames \in Seq(Commands)
  /\ device \in [Radios -> Settings]
  /\ DOMAIN call = Callers
  /\ \A c \in Callers :
       /\ call[c].pc \in {"idle", "save", "apply", "send"}
       /\ call[c].radio \in Radios /\ call[c].snap \in RoleMaps
       /\ call[c].frames \in Seq(Commands)
  /\ asks \in 0..MaxAsks /\ resets \in 0..MaxResets
  /\ spoilt \subseteq Radios

Init ==
  /\ roles = [r \in Radios |-> None] /\ file = roles
  /\ tracked = {} /\ stale = {}
  /\ link = "down" /\ loop = LoopWaits
  /\ device = [r \in Radios |->
       [mode |-> "capture", running |-> TRUE, dwell |-> 0, channel |-> Home]]
  /\ call = [c \in Callers |-> Rest]
  /\ asks = 0 /\ resets = 0 /\ spoilt = {}

Idle(c) == call[c].pc = "idle"
Quiet   == \A c \in Callers : Idle(c)

----------------------------------------------------------------------------
(* setRole and applyRole                                                   *)

\* A variant: the copy for the file is taken before the map is changed.
AskSavesOld(c, r, role) ==
  /\ Idle(c) /\ asks < MaxAsks
  /\ asks' = asks + 1
  /\ roles' = [roles EXCEPT ![r] = role]
  /\ call' = [call EXCEPT ![c] =
       [pc |-> "save", radio |-> r, snap |-> roles, frames |-> <<>>]]
  /\ UNCHANGED <<file, tracked, stale, link, loop, device, resets, spoilt>>

\* Under rolesMu the map changes and is copied; the copy is saved after unlock.
Ask(c, r, role) ==
  /\ Idle(c) /\ asks < MaxAsks
  /\ asks' = asks + 1
  /\ roles' = [roles EXCEPT ![r] = role]
  /\ call' = [call EXCEPT ![c] =
       [pc |-> "save", radio |-> r, snap |-> roles', frames |-> <<>>]]
  /\ UNCHANGED <<file, tracked, stale, link, loop, device, resets, spoilt>>

Save(c) ==
  /\ call[c].pc = "save"
  /\ file' = call[c].snap
  /\ call' = [call EXCEPT ![c].pc = "apply", ![c].snap = Rest.snap]
  /\ UNCHANGED <<roles, tracked, stale, link, loop, device, asks, resets, spoilt>>

\* applyRole reads the role and the ports the radio is on; nothing to do
\* without a role or for a radio no port carries.
Apply(c) ==
  LET r == call[c].radio IN
  /\ call[c].pc = "apply"
  /\ call' = [call EXCEPT ![c] =
       IF roles[r] # None /\ r \in tracked
       THEN [@ EXCEPT !.pc = "send", !.frames = FramesFor(r, roles[r])]
       ELSE Rest]
  /\ spoilt' = IF call'[c].pc = "send" THEN spoilt \ {r} ELSE spoilt
  /\ UNCHANGED <<roles, file, tracked, stale, link, loop, device, asks, resets>>

\* A variant: the first frame of a sequence is sent, the rest forgotten.
SendFirst(c) ==
  LET r == call[c].radio IN
  /\ call[c].pc = "send"
  /\ device' = [device EXCEPT ![r] = IF link = "up" THEN Exec(@, Head(call[c].frames)) ELSE @]
  /\ call' = [call EXCEPT ![c] = Rest]
  /\ UNCHANGED <<roles, file, tracked, stale, link, loop, asks, resets, spoilt>>

\* One frame: each is a write of its own under the reader's lock, and nothing
\* looks at the result.  With no reader the frame goes nowhere.
Send(c) ==
  LET r    == call[c].radio
      left == Tail(call[c].frames)
  IN
  /\ call[c].pc = "send"
  /\ device' = [device EXCEPT ![r] = IF link = "up" THEN Exec(@, Head(call[c].frames)) ELSE @]
  /\ call' = [call EXCEPT ![c] = IF left = <<>> THEN Rest ELSE [@ EXCEPT !.frames = left]]
  /\ spoilt' = IF link = "up" THEN spoilt ELSE spoilt \cup {r}
  /\ UNCHANGED <<roles, file, tracked, stale, link, loop, asks, resets>>

----------------------------------------------------------------------------
(* The tracker and the ingest loop                                         *)

\* A variant: the tracker never reports a radio as new.
SeenOnly(r) ==
  /\ Idle(Ingest) /\ link = "up"
  /\ tracked' = tracked \cup {r} /\ stale' = stale \ {r}
  /\ UNCHANGED <<roles, file, link, loop, device, call, asks, resets, spoilt>>

\* A captured frame or a status: Tracker.Saw, and the role if the radio is new.
Seen(r) ==
  /\ Idle(Ingest) /\ link = "up"
  /\ r \notin tracked \/ r \in stale
  /\ tracked' = tracked \cup {r} /\ stale' = stale \ {r}
  /\ call' = IF r \in tracked THEN call
             ELSE [call EXCEPT ![Ingest] = [Rest EXCEPT !.pc = "apply", !.radio = r]]
  /\ UNCHANGED <<roles, file, link, loop, device, asks, resets, spoilt>>

\* An SDR segment or a probe result: Saw is called and its result dropped.
SeenAnswer(r) ==
  /\ r \in Answering
  /\ Idle(Ingest) /\ link = "up"
  /\ r \notin tracked \/ r \in stale
  /\ tracked' = tracked \cup {r} /\ stale' = stale \ {r}
  /\ spoilt' = IF r \in tracked THEN spoilt ELSE spoilt \cup {r}
  /\ UNCHANGED <<roles, file, link, loop, device, call, asks, resets>>

\* Ten seconds pass without a message of r, longer than a role takes to send.
FallSilent(r) ==
  /\ Idle(Ingest) /\ r \in tracked \ stale
  /\ stale' = stale \cup {r}
  /\ UNCHANGED <<roles, file, tracked, link, loop, device, call, asks, resets, spoilt>>

\* A variant: the entries go and their ages stay.
ListKeepsAges ==
  /\ stale # {}
  /\ tracked' = tracked \ stale
  /\ UNCHANGED <<roles, file, stale, link, loop, device, call, asks, resets, spoilt>>

\* Any call of Tracker.List drops the stale entries.
List ==
  /\ stale # {}
  /\ tracked' = tracked \ stale /\ stale' = {}
  /\ UNCHANGED <<roles, file, link, loop, device, call, asks, resets, spoilt>>

----------------------------------------------------------------------------
(* Resets, the link and the host                                           *)

\* The primary takes its USB port, and so the link, down with it.
Reset(r) ==
  /\ r \in Resetting /\ resets < MaxResets
  /\ resets' = resets + 1
  /\ device' = [device EXCEPT ![r] = Boot(@)]
  /\ link' = IF r = 0 THEN "down" ELSE link
  /\ spoilt' = spoilt \cup {r}
  /\ UNCHANGED <<roles, file, tracked, stale, loop, call, asks>>

Drop ==
  /\ LinkDrops /\ link = "up"
  /\ link' = "down"
  /\ UNCHANGED <<roles, file, tracked, stale, loop, device, call, asks, resets, spoilt>>

\* The connect loop opens the port and stores its reader.
Reconnect ==
  /\ loop.pc = "wait" /\ link = "down"
  /\ link' = "up"
  /\ loop' = [loop EXCEPT !.pc = "opened"]
  /\ UNCHANGED <<roles, file, tracked, stale, device, call, asks, resets, spoilt>>

\* One round of the start sequence.
StartRound ==
  <<SetChannel(Home)>>
    \o (IF SavedDwell = 0 THEN <<>> ELSE <<SetHop(SavedDwell)>>)
    \o (IF SavedMode = "capture" THEN <<SetMode(SavedMode), Start>> ELSE <<SetMode(SavedMode)>>)

\* primaryHasRole: looked up once, under rolesMu.
LookUpPrimary ==
  /\ loop.pc = "opened"
  /\ loop' = IF roles[0] # None THEN LoopWaits
             ELSE [pc |-> "send", rounds |-> StartRounds, frames |-> StartRound]
  /\ UNCHANGED <<roles, file, tracked, stale, link, device, call, asks, resets, spoilt>>

\* A frame of the start sequence, whatever role radio 0 has by now; a round ends
\* with half a second's sleep.  A link that has gone down goes unnoticed.
SendStart ==
  LET left == Tail(loop.frames) IN
  /\ loop.pc = "send"
  /\ device' = [device EXCEPT ![0] = IF link = "up" THEN Exec(@, Head(loop.frames)) ELSE @]
  /\ loop' = IF left # <<>> THEN [loop EXCEPT !.frames = left]
             ELSE IF loop.rounds > 1
             THEN [loop EXCEPT !.rounds = @ - 1, !.frames = StartRound]
             ELSE LoopWaits
  /\ spoilt' = IF roles[0] # None /\ device'[0] # device[0] THEN spoilt \cup {0} ELSE spoilt
  /\ UNCHANGED <<roles, file, tracked, stale, link, call, asks, resets>>

\* The host program restarts: everything but the config file is forgotten.
HostRestart ==
  /\ HostRestarts /\ resets < MaxResets
  /\ resets' = resets + 1
  /\ roles' = file
  /\ tracked' = {} /\ stale' = {}
  /\ call' = [c \in Callers |-> Rest]
  /\ link' = "down" /\ loop' = LoopWaits
  /\ UNCHANGED <<file, device, asks, spoilt>>

----------------------------------------------------------------------------
CallStep(c) == Save(c) \/ Apply(c) \/ Send(c)

Next ==
  \/ \E c \in Requests, r \in Radios, role \in AskRoles \cup {None} : Ask(c, r, role)
  \/ \E c \in Callers : Save(c)
  \/ \E c \in Callers : Apply(c)
  \/ \E c \in Callers : Send(c)
  \/ \E r \in Radios : Seen(r)
  \/ \E r \in Radios : SeenAnswer(r)
  \/ \E r \in Radios : FallSilent(r)
  \/ List
  \/ \E r \in Radios : Reset(r)
  \/ Drop
  \/ Reconnect
  \/ LookUpPrimary
  \/ SendStart
  \/ HostRestart

Spec == Init /\ [][Next]_vars

\* Calls of setRole and applyRole never overlap: the operator waits for an
\* answer, and no radio is first seen while a role is being applied.  The connect
\* loop runs beside them as ever.
OneAtATime == \A c \in Callers : Idle(c) /\ call'[c].pc # "idle" => Quiet
SerialSpec == Init /\ [][Next /\ OneAtATime]_vars

\* Goroutines run on and the port is reopened.  A radio that runs reports
\* itself at 1 Hz and its reports wait in the ingest loop's queue, so each is
\* read however often the loop is busy with another (strong fairness).
Fairness ==
  /\ \A c \in Callers : WF_vars(CallStep(c) /\ OneAtATime)
  /\ \A r \in Radios : SF_vars(Seen(r) /\ OneAtATime)
  /\ WF_vars(Reconnect \/ LookUpPrimary \/ SendStart)

FairSerialSpec == SerialSpec /\ Fairness

\* And no role is set during a start sequence, so that none is lost to one.
AfterStart     == roles' # roles => loop.pc = "wait"
FairSettledSpec == Init /\ [][Next /\ OneAtATime /\ AfterStart]_vars /\ Fairness

----------------------------------------------------------------------------
(* Properties                                                              *)

\* With no call under way the config file holds the roles in use, so that a
\* restarted host resumes them (setRole, saveConfig).
RolesPersisted == Quiet => file = roles

\* With no call under way every radio the host tracks is doing what its role
\* says, unless the role was lost on the way (applyRole, on a change of role
\* and when a radio is first seen).
RoleInForce ==
  Quiet => \A r \in tracked \ spoilt : roles[r] # None => Serves(device[r], roles[r])

\* A role that is left in place and not lost is finally in force for good:
\* set before its radio is ever seen, or through silences, pruned tracker
\* entries, dropped links and restarts of the host.
RolePrevails ==
  \A r \in Radios, role \in AskRoles :
    <>[](roles[r] = role /\ r \notin spoilt) => <>[]Serves(device[r], role)

\* The same, of every role that is left in place, lost by a reset or not.
RoleReapplied ==
  \A r \in Radios, role \in AskRoles :
    <>[](roles[r] = role) => <>[]Serves(device[r], role)
=============================================================================
