----------------------------- MODULE OtaSession -----------------------------
(***************************************************************************)
(* What surrounds a firmware transfer on the host (server.go, /api/ota):   *)
(* the OtaActive flag that refuses a second upload and holds the link      *)
(* watchdog off, the pause of every radio and the resumption of their      *)
(* roles, and the timer that clears the flag five seconds after the        *)
(* goroutine returns.  The transfer itself is one step here, completed or  *)
(* aborted; module OtaTransfer has its inside.  setRole is one step too;   *)
(* module RadioRoles has its inside.                                       *)
(***************************************************************************)
EXTENDS RadioCommands, FiniteSets

CONSTANTS
  Radios,    \* radio ids; 0 is the primary
  Target,    \* the satellite that is updated
  Uploads,   \* POSTs of /api/ota
  AskRoles,  \* the roles the operator uses
  MaxAsks,   \* bound: role requests made
  Starving   \* radios the tracker may lose sight of

ASSUME SessionAssumption ==
  /\ Radios \subseteq Nat /\ IsFiniteSet(Radios) /\ 0 \in Radios
  /\ Target \in Radios \ {0}
  /\ AskRoles \subseteq Roles
  /\ MaxAsks \in Nat
  /\ Starving \subseteq Radios

VARIABLES
  active,  \* OtaActive
  pc,      \* where each upload is
  saved,   \* the roles each upload found
  left,    \* the radios each upload has still to pause or to resume
  timers,  \* uploads whose five-second timer is armed
  roles,   \* the role map
  device,  \* each radio's settings
  asks     \* role requests made

vars == <<active, pc, saved, left, timers, roles, device, asks>>

RoleMaps == [Radios -> AskRoles \cup {None}]
NoRoles  == [r \in Radios |-> None]

\* The settings after a sequence of frames.
ExecAll(s, frames) ==
  LET after[n \in 0..Len(frames)] == IF n = 0 THEN s ELSE Exec(after[n - 1], frames[n])
  IN  after[Len(frames)]

\* applyRole on a radio the tracker knows; no role, no frames.
InRole(s, r, role) == IF role = None THEN s ELSE ExecAll(s, FramesFor(r, role))

Busy     == {u \in Uploads : pc[u] \in {"begun", "pausing", "sending"}}
Resuming == {u \in Uploads : pc[u] = "resuming"}
Over     == \A u \in Uploads : pc[u] \in {"ready", "done", "refused"}

TypeOK ==
  /\ active \in BOOLEAN
  /\ pc \in [Uploads -> {"ready", "begun", "pausing", "sending", "resuming", "done", "refused"}]
  /\ saved \in [Uploads -> RoleMaps]
  /\ left \in [Uploads -> SUBSET Radios]
  /\ timers \subseteq Uploads
  /\ roles \in RoleMaps
  /\ device \in [Radios -> Settings]
  /\ asks \in 0..MaxAsks

Init ==
  /\ active = FALSE
  /\ pc = [u \in Uploads |-> "ready"]
  /\ saved = [u \in Uploads |-> NoRoles]
  /\ left = [u \in Uploads |-> {}]
  /\ timers = {}
  /\ roles \in RoleMaps
  /\ device = [r \in Radios |-> InRole(
       [mode |-> "capture", running |-> TRUE, dwell |-> 0, channel |-> Home], r, roles[r])]
  /\ asks = 0

----------------------------------------------------------------------------
(* One upload                                                              *)

\* A variant: the flag is set without looking at it.
AcceptAll(u) ==
  /\ pc[u] = "ready"
  /\ active' = TRUE /\ pc' = [pc EXCEPT ![u] = "begun"]
  /\ UNCHANGED <<saved, left, timers, roles, device, asks>>

\* A variant: the flag is looked at and not set.
AcceptUnset(u) ==
  /\ pc[u] = "ready"
  /\ pc' = [pc EXCEPT ![u] = IF active THEN "refused" ELSE "begun"]
  /\ UNCHANGED <<active, saved, left, timers, roles, device, asks>>

\* OtaActive.CompareAndSwap(false, true).
Accept(u) ==
  /\ pc[u] = "ready"
  /\ active' = TRUE
  /\ pc' = [pc EXCEPT ![u] = IF active THEN "refused" ELSE "begun"]
  /\ UNCHANGED <<saved, left, timers, roles, device, asks>>

\* The goroutine copies the roles and takes the list of radios.
Survey(u) ==
  /\ pc[u] = "begun"
  /\ pc' = [pc EXCEPT ![u] = "pausing"]
  /\ saved' = [saved EXCEPT ![u] = roles]
  /\ left' = [left EXCEPT ![u] = Radios]
  /\ UNCHANGED <<active, timers, roles, device, asks>>

\* A variant: satellites are not told to stop.
PauseOwn(u, r) ==
  /\ pc[u] = "pausing" /\ r \in left[u]
  /\ device' = [device EXCEPT ![r] = IF r = 0 THEN Exec(@, PauseFrame) ELSE @]
  /\ left' = [left EXCEPT ![u] = @ \ {r}]
  /\ UNCHANGED <<active, pc, saved, timers, roles, asks>>

\* stopOn for the next radio of the list.
Pause(u, r) ==
  /\ pc[u] = "pausing" /\ r \in left[u]
  /\ device' = [device EXCEPT ![r] = Exec(@, PauseFrame)]
  /\ left' = [left EXCEPT ![u] = @ \ {r}]
  /\ UNCHANGED <<active, pc, saved, timers, roles, asks>>

Transfer(u) ==
  /\ pc[u] = "pausing" /\ left[u] = {}
  /\ pc' = [pc EXCEPT ![u] = "sending"]
  /\ UNCHANGED <<active, saved, left, timers, roles, device, asks>>

\* The radios whose role this upload will set again.
Owed(u) == {r \in Radios : saved[u][r] # None}

\* The image is in place and the target starts it.
Complete(u) ==
  /\ pc[u] = "sending"
  /\ pc' = [pc EXCEPT ![u] = "resuming"]
  /\ left' = [left EXCEPT ![u] = Owed(u)]
  /\ device' = [device EXCEPT ![Target] = Boot(@)]
  /\ UNCHANGED <<active, saved, timers, roles, asks>>

\* Given up: the flag is cleared before the radios are resumed.
Abort(u) ==
  /\ pc[u] = "sending"
  /\ pc' = [pc EXCEPT ![u] = "resuming"]
  /\ left' = [left EXCEPT ![u] = Owed(u)]
  /\ active' = FALSE
  /\ UNCHANGED <<saved, timers, roles, device, asks>>

\* A variant: the role map is put back and the radio is not told.
ResumeMap(u, r) ==
  /\ pc[u] = "resuming" /\ r \in left[u]
  /\ roles' = [roles EXCEPT ![r] = saved[u][r]]
  /\ left' = [left EXCEPT ![u] = @ \ {r}]
  /\ UNCHANGED <<active, pc, saved, timers, device, asks>>

\* resume: setRole with the role that was saved.
Resume(u, r) ==
  /\ pc[u] = "resuming" /\ r \in left[u]
  /\ roles' = [roles EXCEPT ![r] = saved[u][r]]
  /\ device' = [device EXCEPT ![r] = InRole(@, r, saved[u][r])]
  /\ left' = [left EXCEPT ![u] = @ \ {r}]
  /\ UNCHANGED <<active, pc, saved, timers, asks>>

\* A variant: the deferred timer is not armed.
ReturnUnarmed(u) ==
  /\ pc[u] = "resuming" /\ left[u] = {}
  /\ pc' = [pc EXCEPT ![u] = "done"]
  /\ UNCHANGED <<active, saved, left, timers, roles, device, asks>>

\* The goroutine returns; the deferred time.AfterFunc arms the timer.
Return(u) ==
  /\ pc[u] = "resuming" /\ left[u] = {}
  /\ pc' = [pc EXCEPT ![u] = "done"]
  /\ timers' = timers \cup {u}
  /\ UNCHANGED <<active, saved, left, roles, device, asks>>

TimerFires(u) ==
  /\ u \in timers
  /\ timers' = timers \ {u}
  /\ active' = FALSE
  /\ UNCHANGED <<pc, saved, left, roles, device, asks>>

----------------------------------------------------------------------------
(* Meanwhile                                                               *)

\* /api/radio_role.
Ask(r, role) ==
  /\ asks < MaxAsks
  /\ asks' = asks + 1
  /\ roles' = [roles EXCEPT ![r] = role]
  /\ device' = [device EXCEPT ![r] = InRole(@, r, role)]
  /\ UNCHANGED <<active, pc, saved, left, timers>>

\* A radio starved off the tracker's list reports again: ingest applies its role.
Reappear(r) ==
  /\ r \in Starving /\ roles[r] # None
  /\ device' = [device EXCEPT ![r] = InRole(@, r, roles[r])]
  /\ UNCHANGED <<active, pc, saved, left, timers, roles, asks>>

UploadStep(u) ==
  \/ Survey(u)
  \/ \E r \in Radios : Pause(u, r)
  \/ Transfer(u)
  \/ Complete(u)
  \/ Abort(u)
  \/ \E r \in Radios : Resume(u, r)
  \/ Return(u)

Next ==
  \/ \E u \in Uploads : Accept(u)
  \/ \E u \in Uploads : UploadStep(u)
  \/ \E u \in Uploads : TimerFires(u)
  \/ \E r \in Radios, role \in AskRoles \cup {None} : Ask(r, role)
  \/ \E r \in Radios : Reappear(r)

Spec == Init /\ [][Next]_vars

\* Nobody posts a second image while a first is being wound up, assigns a role
\* while one is under way, or is starved by it for ten seconds.
Undisturbed ==
  /\ \A u \in Uploads : pc[u] = "ready" /\ pc'[u] = "begun" => timers = {} /\ Resuming = {}
  /\ ~Over => asks' = asks
  /\ ~Over => \A r \in Radios : device'[r] # device[r] => \E u \in Uploads : pc[u] # pc'[u] \/ left[u] # left'[u]
QuietSpec == Init /\ [][Next /\ Undisturbed]_vars

\* The goroutine and its timer go on; the transfer ends one way or the other
\* (every wait in it has a deadline).
FairSpec ==
  /\ QuietSpec
  /\ \A u \in Uploads : WF_vars(UploadStep(u)) /\ WF_vars(TimerFires(u))

----------------------------------------------------------------------------
(* Properties                                                              *)

\* At most one upload talks to the radios (the guard on OtaActive).
NoOverlap == Cardinality(Busy \cup Resuming) <= 1

\* While an upload pauses the radios or sends, OtaActive is set: the watchdog
\* keeps its hands off the link.
FlagCovers == Busy # {} => active

\* While an image is sent no radio captures.
CapturesPaused ==
  \A u \in Uploads : pc[u] = "sending" => \A r \in Radios : ~device[r].running

\* With no upload under way every radio that has a role is back in it.
RolesResumed ==
  Over => \A r \in Radios : roles[r] # None => Serves(device[r], roles[r])

\* The flag is cleared in the end, so that another upload is accepted.
FlagClears == active ~> ~active
=============================================================================
