---------------------------- MODULE OtaSessionProofs ----------------------------
(* One firmware upload and the radios around it: the flag, the pause and the     *)
(* return of the roles (OtaSession), for any number of radios, uploads and       *)
(* requests.                                                                     *)
EXTENDS OtaSession, RadioCommandsProofs, FiniteSetTheorems

\* A role has at most four frames, and running them one by one is After.
LEMMA ExecAllIsAfter ==
  ASSUME NEW s, NEW fr, Len(fr) \in 0..4
  PROVE  ExecAll(s, fr) = After(s, fr, Len(fr))
<1> DEFINE N == Len(fr)
           f == [n \in 0..N |-> After(s, fr, n)]
           a == CHOOSE g : g = [n \in 0..N |-> IF n = 0 THEN s ELSE Exec(g[n - 1], fr[n])]
<1>1. N \in 0..4
  OBVIOUS
<1>2. ExecAll(s, fr) = a[N]
  BY DEF ExecAll
<1> HIDE DEF N
<1>3. ASSUME NEW n \in 0..N PROVE After(s, fr, n) = IF n = 0 THEN s ELSE Exec(f[n - 1], fr[n])
  <2>1. n \in 0..4
    BY <1>1
  <2>2. n # 0 => f[n - 1] = After(s, fr, n - 1)
    BY <1>1
  <2> HIDE DEF f
  <2>3. CASE n = 0  BY <2>3 DEF After
  <2>4. CASE n = 1  BY <2>2, <2>4 DEF After
  <2>5. CASE n = 2  BY <2>2, <2>5 DEF After
  <2>6. CASE n = 3  BY <2>2, <2>6 DEF After
  <2>7. CASE n = 4  BY <2>2, <2>7 DEF After
  <2> QED
    BY <2>1, <2>3, <2>4, <2>5, <2>6, <2>7
<1>4. f = [n \in 0..N |-> IF n = 0 THEN s ELSE Exec(f[n - 1], fr[n])]
  BY <1>3
<1> HIDE DEF f
<1>5. a = [n \in 0..N |-> IF n = 0 THEN s ELSE Exec(a[n - 1], fr[n])]
  BY <1>4
<1> HIDE DEF a
<1>6. a[0] = s
  BY <1>1, <1>5
<1>7. ASSUME NEW n \in 0..N, n # 0 PROVE a[n] = Exec(a[n - 1], fr[n])
  BY <1>5, <1>7
<1>8. CASE N = 0  BY <1>2, <1>6, <1>8 DEF After, N
<1>9. CASE N = 1
  <2>1. a[1] = Exec(a[0], fr[1])  BY <1>7, <1>9
  <2> QED  BY <1>2, <1>6, <1>9, <2>1 DEF After, N
<1>10. CASE N = 2
  <2>1. a[1] = Exec(a[0], fr[1]) /\ a[2] = Exec(a[1], fr[2])  BY <1>7, <1>10
  <2> QED  BY <1>2, <1>6, <1>10, <2>1 DEF After, N
<1>11. CASE N = 3
  <2>1. a[1] = Exec(a[0], fr[1]) /\ a[2] = Exec(a[1], fr[2]) /\ a[3] = Exec(a[2], fr[3])
    BY <1>7, <1>11
  <2> QED  BY <1>2, <1>6, <1>11, <2>1 DEF After, N
<1>12. CASE N = 4
  <2>1. a[1] = Exec(a[0], fr[1]) /\ a[2] = Exec(a[1], fr[2]) /\ a[3] = Exec(a[2], fr[3])
        /\ a[4] = Exec(a[3], fr[4])
    BY <1>7, <1>12
  <2> QED  BY <1>2, <1>6, <1>12, <2>1 DEF After, N
<1> QED
  BY <1>1, <1>8, <1>9, <1>10, <1>11, <1>12

\* A radio that is set up in a role is one that has run the role's frames.
LEMMA InRoleIsGiven ==
  ASSUME NEW s \in Settings, NEW r, NEW role \in Roles
  PROVE  InRole(s, r, role) = Given(s, r, role)
<1>1. Len(FramesFor(r, role)) \in 0..4
  BY RoleRuns
<1>2. role # None
  BY DEF Roles, None
<1> QED
  BY <1>1, <1>2, ExecAllIsAfter DEF InRole, Given

LEMMA RoleServes ==
  ASSUME NEW s \in Settings, NEW r, NEW role \in Roles
  PROVE  /\ InRole(s, r, role) \in Settings
         /\ role # "monitor" \/ r = 0 \/ s.mode = "capture" => Serves(InRole(s, r, role), role)
BY InRoleIsGiven, RoleRuns

--------------------------------------------------------------------------------
(* One upload at a time                                                         *)

USE SessionAssumption DEF SessionAssumption

\* The uploads that have to do with the radios.
Under == {"begun", "pausing", "sending", "resuming"}

\* There is one at most, and while it is the timer of none is armed, which would
\* clear its flag.
OneUnder ==
  /\ \A u, v \in Uploads : pc[u] \in Under /\ pc[v] \in Under => u = v
  /\ \A u \in Uploads : pc[u] \in Under => timers = {}

\* Until it resumes the radios the flag is set.
Flagged == \A u \in Uploads : pc[u] \in Under \ {"resuming"} => active

\* The radios it has told to stop have stopped, and stay so while it sends.
Stopped1 ==
  \A u \in Uploads :
    /\ pc[u] = "pausing" => \A r \in Radios \ left[u] : ~device[r].running
    /\ pc[u] = "sending" => \A r \in Radios : ~device[r].running

SessionInv == TypeOK /\ OneUnder /\ Flagged /\ Stopped1

\* A radio's settings stay settings whatever role it is given, or none.
LEMMA InRoleTyped ==
  ASSUME NEW s \in Settings, NEW r, NEW role \in AskRoles \cup {None}
  PROVE  InRole(s, r, role) \in Settings
<1>1. CASE role = None
  BY <1>1 DEF InRole
<1>2. CASE role # None
  BY <1>2, RoleServes
<1> QED
  BY <1>1, <1>2

LEMMA BootTyped == ASSUME NEW s \in Settings PROVE Boot(s) \in Settings
BY DEF Boot, Settings, Modes, Dwells

LEMMA SessionInvInit == Init => SessionInv
<1> SUFFICES ASSUME Init PROVE SessionInv
  OBVIOUS
<1> DEFINE s == [mode |-> "capture", running |-> TRUE, dwell |-> 0, channel |-> Home]
<1>1. s \in Settings
  BY DEF Settings, Modes, Dwells, Channels
<1> HIDE DEF s
<1>2. device = [r \in Radios |-> InRole(s, r, roles[r])] /\ roles \in RoleMaps
  BY DEF Init, s
<1>3. ASSUME NEW r \in Radios PROVE InRole(s, r, roles[r]) \in Settings
  <2>1. roles[r] \in AskRoles \cup {None}
    BY <1>2 DEF RoleMaps
  <2> QED
    BY <1>1, <2>1, InRoleTyped
<1>4. device \in [Radios -> Settings]
  BY <1>2, <1>3
<1>5. NoRoles \in RoleMaps
  BY DEF NoRoles, RoleMaps
<1>6. TypeOK
  <2>1. /\ pc \in [Uploads -> {"ready", "begun", "pausing", "sending", "resuming", "done", "refused"}]
        /\ left \in [Uploads -> SUBSET Radios]
    BY DEF Init
  <2>2. saved \in [Uploads -> RoleMaps]
    BY <1>5 DEF Init
  <2>3. asks = 0 /\ active = FALSE /\ timers = {}
    BY DEF Init
  <2>4. asks \in 0..MaxAsks
    BY <2>3
  <2> QED
    BY <1>2, <1>4, <2>1, <2>2, <2>3, <2>4 DEF TypeOK
<1>7. \A u \in Uploads : pc[u] = "ready"
  BY DEF Init
<1> QED
  BY <1>6, <1>7 DEF SessionInv, OneUnder, Flagged, Stopped1, Under

LEMMA SessionInvStep == SessionInv /\ [Next /\ Undisturbed]_vars => SessionInv'
<1> SUFFICES ASSUME SessionInv, [Next /\ Undisturbed]_vars PROVE SessionInv'
  OBVIOUS
<1> USE DEF SessionInv, TypeOK, OneUnder, Flagged, Stopped1, Under
<1>1. ASSUME NEW u \in Uploads, Accept(u), Undisturbed PROVE SessionInv'
  <2>1. pc'[u] = "begun" => timers = {} /\ Resuming = {}
    BY <1>1 DEF Undisturbed, Accept
  <2> QED
    BY <1>1, <2>1 DEF Accept, Resuming
<1>2. ASSUME NEW u \in Uploads, Survey(u) PROVE SessionInv'
  BY <1>2 DEF Survey
<1>3. ASSUME NEW u \in Uploads, NEW r \in Radios, Pause(u, r) PROVE SessionInv'
  <2>1. /\ Exec(device[r], PauseFrame) \in Settings
        /\ ~Exec(device[r], PauseFrame).running
    BY Stopped DEF PauseFrame
  <2>2. /\ device' \in [Radios -> Settings]
        /\ ~device'[r].running
        /\ \A q \in Radios \ {r} : device'[q] = device[q]
    BY <1>3, <2>1 DEF Pause
  <2> QED
    BY <1>3, <2>2 DEF Pause
<1>4. ASSUME NEW u \in Uploads, Transfer(u) PROVE SessionInv'
  BY <1>4 DEF Transfer
<1>5. ASSUME NEW u \in Uploads, Complete(u) PROVE SessionInv'
  <2>1. device' \in [Radios -> Settings]
    BY <1>5, BootTyped DEF Complete
  <2>2. \A v \in Uploads \ {u} : pc'[v] \notin Under
    BY <1>5 DEF Complete
  <2> QED
    BY <1>5, <2>1, <2>2 DEF Complete, Owed
<1>6. ASSUME NEW u \in Uploads, Abort(u) PROVE SessionInv'
  <2>2. \A v \in Uploads \ {u} : pc'[v] \notin Under
    BY <1>6 DEF Abort
  <2> QED
    BY <1>6, <2>2 DEF Abort, Owed
<1>7. ASSUME NEW u \in Uploads, NEW r \in Radios, Resume(u, r) PROVE SessionInv'
  <2>1. saved[u] \in RoleMaps /\ saved[u][r] \in AskRoles \cup {None}
    BY DEF RoleMaps
  <2>2. InRole(device[r], r, saved[u][r]) \in Settings
    BY <2>1, InRoleTyped
  <2>3. device' \in [Radios -> Settings]
    BY <1>7, <2>2 DEF Resume
  <2>4. roles' \in RoleMaps
    BY <1>7, <2>1 DEF Resume, RoleMaps
  <2>5. \A v \in Uploads \ {u} : pc'[v] \notin Under
    BY <1>7 DEF Resume
  <2> QED
    BY <1>7, <2>3, <2>4, <2>5 DEF Resume
<1>8. ASSUME NEW u \in Uploads, Return(u) PROVE SessionInv'
  <2>1. \A v \in Uploads : pc'[v] \notin Under
    BY <1>8 DEF Return
  <2> QED
    BY <1>8, <2>1 DEF Return
<1>9. ASSUME NEW u \in Uploads, TimerFires(u) PROVE SessionInv'
  BY <1>9 DEF TimerFires
<1>10. ASSUME NEW r \in Radios, NEW role \in AskRoles \cup {None}, Ask(r, role), Undisturbed
       PROVE SessionInv'
  <2>1. device' \in [Radios -> Settings]
    BY <1>10, InRoleTyped DEF Ask
  <2>2. roles' \in RoleMaps /\ asks' \in 0..MaxAsks /\ asks' # asks
    BY <1>10 DEF Ask, RoleMaps
  <2>3. \A v \in Uploads : pc[v] \notin Under
    BY <1>10, <2>2 DEF Undisturbed, Over
  <2> QED
    BY <1>10, <2>1, <2>2, <2>3 DEF Ask
<1>11. ASSUME NEW r \in Radios, Reappear(r), Undisturbed PROVE SessionInv'
  <2>1. roles[r] \in AskRoles \cup {None}
    BY DEF RoleMaps
  <2>2. device' \in [Radios -> Settings]
    BY <1>11, <2>1, InRoleTyped DEF Reappear
  <2>3. ASSUME NEW u \in Uploads, pc[u] \in Under PROVE \A q \in Radios : device'[q] = device[q]
    BY <1>11, <2>3 DEF Undisturbed, Over, Reappear
  <2> QED
    BY <1>11, <2>2, <2>3 DEF Reappear
<1>12. CASE UNCHANGED vars
  BY <1>12 DEF vars
<1> QED
  BY <1>1, <1>2, <1>3, <1>4, <1>5, <1>6, <1>7, <1>8, <1>9, <1>10, <1>11, <1>12 DEF Next, UploadStep

LEMMA SessionInvHolds == QuietSpec => []SessionInv
BY SessionInvInit, SessionInvStep, PTL DEF QuietSpec

\* The state of session, uploads and radios is of the types declared for it.
THEOREM SessionTyped == QuietSpec => []TypeOK
<1>1. SessionInv => TypeOK
  BY DEF SessionInv
<1> QED
  BY SessionInvHolds, <1>1, PTL

\* At most one upload talks to the radios, however many are posted, as long as
\* none is posted while another is wound up (OtaActive.CompareAndSwap in
\* /api/ota and the timer that clears it).
THEOREM OneUpload == QuietSpec => []NoOverlap
<1>1. ASSUME SessionInv PROVE NoOverlap
  <2> DEFINE S == Busy \cup Resuming
  <2>1. \A u \in S : u \in Uploads /\ pc[u] \in Under
    BY DEF Busy, Resuming, Under
  <2>2. \A u, v \in S : u = v
    BY <1>1, <2>1 DEF SessionInv, OneUnder
  <2> HIDE DEF S
  <2>3. CASE S = {}
    <3>1. Cardinality(S) = 0
      BY <2>3, FS_EmptySet
    <3> QED
      BY <3>1 DEF NoOverlap, S
  <2>4. CASE S # {}
    <3>1. PICK u : S = {u}
      BY <2>2, <2>4
    <3>2. Cardinality(S) = 1
      BY <3>1, FS_Singleton
    <3> QED
      BY <3>2 DEF NoOverlap, S
  <2> QED
    BY <2>3, <2>4
<1> QED
  BY SessionInvHolds, <1>1, PTL

\* While an upload pauses the radios or sends, OtaActive is set, so that the
\* watchdog lets the link be (deferred clearing of the flag, and its reset when
\* the upload gives up).
THEOREM FlagHeld == QuietSpec => []FlagCovers
<1>1. SessionInv => FlagCovers
  BY DEF SessionInv, Flagged, FlagCovers, Busy, Under
<1> QED
  BY SessionInvHolds, <1>1, PTL

\* While an image is sent no radio captures (stopOn for every radio first).
THEOREM RadiosPaused == QuietSpec => []CapturesPaused
<1>1. SessionInv => CapturesPaused
  BY DEF SessionInv, Stopped1, CapturesPaused
<1> QED
  BY SessionInvHolds, <1>1, PTL

--------------------------------------------------------------------------------
(* The roles come back                                                          *)

\* Before the first radio is paused, and with no upload under way, all radios are
\* in their roles; from then on the roles are the saved ones, and the radios
\* already resumed are in theirs.
InRoles(R) == \A r \in R : roles[r] # None => Serves(device[r], roles[r])
Away       == {"pausing", "sending", "resuming"}
RolesInv ==
  /\ (\A u \in Uploads : pc[u] \notin Away) => InRoles(Radios)
  /\ \A u \in Uploads :
       /\ pc[u] \in Away => saved[u] = roles
       /\ pc[u] = "resuming" => InRoles(Radios \ left[u])
  /\ \A r \in Radios : Captures(device[r], AskRoles)

\* A radio that is set up in a role is in it, and captures if it must.
LEMMA InRoleServes ==
  ASSUME MonitorAlone(AskRoles), NEW s \in Settings, Captures(s, AskRoles), NEW r,
         NEW role \in AskRoles \cup {None}
  PROVE  /\ role # None => Serves(InRole(s, r, role), role)
         /\ Captures(InRole(s, r, role), AskRoles)
<1>1. CASE role = None
  BY <1>1 DEF InRole
<1>2. CASE role # None
  <2>1. role \in Roles /\ role \in AskRoles
    BY <1>2
  <2> QED
    BY <2>1, InRoleIsGiven, GivenRole
<1> QED
  BY <1>1, <1>2

LEMMA RolesInvInit == ASSUME MonitorAlone(AskRoles) PROVE Init => RolesInv
<1> SUFFICES ASSUME Init PROVE RolesInv
  OBVIOUS
<1> DEFINE s == [mode |-> "capture", running |-> TRUE, dwell |-> 0, channel |-> Home]
<1>1. s \in Settings /\ Captures(s, AskRoles)
  BY DEF Settings, Modes, Dwells, Channels, Captures
<1> HIDE DEF s
<1>2. device = [r \in Radios |-> InRole(s, r, roles[r])] /\ roles \in RoleMaps
  BY DEF Init, s
<1>3. \A u \in Uploads : pc[u] = "ready"
  BY DEF Init
<1>4. ASSUME NEW r \in Radios
      PROVE  (roles[r] # None => Serves(device[r], roles[r])) /\ Captures(device[r], AskRoles)
  <2>1. roles[r] \in AskRoles \cup {None}
    BY <1>2 DEF RoleMaps
  <2>2. device[r] = InRole(s, r, roles[r])
    BY <1>2
  <2> QED
    BY <1>1, <2>1, <2>2, InRoleServes
<1> QED
  BY <1>3, <1>4 DEF RolesInv, InRoles, Away

LEMMA RolesInvStep ==
  ASSUME MonitorAlone(AskRoles)
  PROVE  SessionInv /\ RolesInv /\ [Next /\ Undisturbed]_vars => RolesInv'
<1> SUFFICES ASSUME SessionInv, RolesInv, [Next /\ Undisturbed]_vars PROVE RolesInv'
  OBVIOUS
<1> USE DEF SessionInv, TypeOK, OneUnder, Under, RolesInv, InRoles, Away
<1>1. ASSUME NEW u \in Uploads, Accept(u) PROVE RolesInv'
  BY <1>1 DEF Accept
<1>2. ASSUME NEW u \in Uploads, Survey(u) PROVE RolesInv'
  BY <1>2 DEF Survey
<1>3. ASSUME NEW u \in Uploads, NEW r \in Radios, Pause(u, r) PROVE RolesInv'
  <2>1. Captures(Exec(device[r], PauseFrame), AskRoles)
    BY Stopped DEF PauseFrame, Captures
  <2>2. \A q \in Radios : Captures(device'[q], AskRoles)
    BY <1>3, <2>1 DEF Pause
  <2>3. \A v \in Uploads \ {u} : pc'[v] \notin Under
    BY <1>3 DEF Pause
  <2> QED
    BY <1>3, <2>2, <2>3 DEF Pause
<1>4. ASSUME NEW u \in Uploads, Transfer(u) PROVE RolesInv'
  BY <1>4 DEF Transfer
<1>5. ASSUME NEW u \in Uploads, Complete(u) PROVE RolesInv'
  <2>1. \A q \in Radios : Captures(device'[q], AskRoles)
    BY <1>5 DEF Complete, Boot, Captures
  <2>2. \A v \in Uploads \ {u} : pc'[v] \notin Under
    BY <1>5 DEF Complete
  <2>3. pc'[u] = "resuming" /\ saved'[u] = roles' /\ \A r \in Radios \ left'[u] : roles'[r] = None
    BY <1>5 DEF Complete, Owed
  <2> QED
    BY <2>1, <2>2, <2>3
<1>6. ASSUME NEW u \in Uploads, Abort(u) PROVE RolesInv'
  <2>2. \A v \in Uploads \ {u} : pc'[v] \notin Under
    BY <1>6 DEF Abort
  <2>3. pc'[u] = "resuming" /\ saved'[u] = roles' /\ \A r \in Radios \ left'[u] : roles'[r] = None
    BY <1>6 DEF Abort, Owed
  <2>4. device' = device
    BY <1>6 DEF Abort
  <2> QED
    BY <2>2, <2>3, <2>4
<1>7. ASSUME NEW u \in Uploads, NEW r \in Radios, Resume(u, r) PROVE RolesInv'
  <2>1. saved[u] = roles /\ saved[u][r] \in AskRoles \cup {None} /\ Captures(device[r], AskRoles)
    BY <1>7 DEF RoleMaps, Resume
  <2>2. /\ roles[r] # None => Serves(InRole(device[r], r, roles[r]), roles[r])
        /\ Captures(InRole(device[r], r, roles[r]), AskRoles)
    BY <2>1, InRoleServes
  <2>3. roles' = roles
    BY <1>7, <2>1 DEF Resume, RoleMaps
  <2>4. /\ device'[r] = InRole(device[r], r, roles[r])
        /\ \A q \in Radios \ {r} : device'[q] = device[q]
        /\ pc' = pc /\ saved' = saved
        /\ Radios \ left'[u] \subseteq (Radios \ left[u]) \cup {r}
    BY <1>7, <2>1 DEF Resume
  <2>5. \A v \in Uploads \ {u} : pc'[v] \notin Under
    BY <1>7 DEF Resume
  <2>6. pc[u] = "resuming"
    BY <1>7 DEF Resume
  <2> HIDE DEF InRole, Serves
  <2> QED
    BY <2>1, <2>2, <2>3, <2>4, <2>5, <2>6
<1>8. ASSUME NEW u \in Uploads, Return(u) PROVE RolesInv'
  <2>1. \A v \in Uploads : pc'[v] \notin Under
    BY <1>8 DEF Return
  <2>2. InRoles(Radios)'
    BY <1>8 DEF Return
  <2> QED
    BY <1>8, <2>1, <2>2 DEF Return
<1>9. ASSUME NEW u \in Uploads, TimerFires(u) PROVE RolesInv'
  BY <1>9 DEF TimerFires
<1>10. ASSUME NEW r \in Radios, NEW role \in AskRoles \cup {None}, Ask(r, role), Undisturbed
       PROVE RolesInv'
  <2>1. asks' # asks
    BY <1>10 DEF Ask
  <2>2. \A v \in Uploads : pc[v] \notin Under
    BY <1>10, <2>1 DEF Undisturbed, Over
  <2>3. /\ role # None => Serves(InRole(device[r], r, role), role)
        /\ Captures(InRole(device[r], r, role), AskRoles)
    BY InRoleServes
  <2>4. /\ device'[r] = InRole(device[r], r, role) /\ roles'[r] = role
        /\ \A q \in Radios \ {r} : device'[q] = device[q] /\ roles'[q] = roles[q]
        /\ pc' = pc
    BY <1>10 DEF Ask, RoleMaps
  <2> HIDE DEF InRole, Serves
  <2> QED
    BY <2>2, <2>3, <2>4
<1>11. ASSUME NEW r \in Radios, Reappear(r), Undisturbed PROVE RolesInv'
  <2>1. roles[r] \in AskRoles \cup {None} /\ roles[r] # None
    BY <1>11 DEF RoleMaps, Reappear
  <2>2. /\ Serves(InRole(device[r], r, roles[r]), roles[r])
        /\ Captures(InRole(device[r], r, roles[r]), AskRoles)
    BY <2>1, InRoleServes
  <2>3. /\ device'[r] = InRole(device[r], r, roles[r]) /\ roles' = roles
        /\ \A q \in Radios \ {r} : device'[q] = device[q]
        /\ pc' = pc /\ left' = left /\ saved' = saved
    BY <1>11 DEF Reappear
  <2>4. ASSUME NEW u \in Uploads, pc[u] \in Under PROVE \A q \in Radios : device'[q] = device[q]
    BY <1>11, <2>4 DEF Undisturbed, Over, Reappear
  <2> HIDE DEF InRole, Serves
  <2> QED
    BY <2>2, <2>3, <2>4
<1>12. CASE UNCHANGED vars
  BY <1>12 DEF vars
<1> QED
  BY <1>1, <1>2, <1>3, <1>4, <1>5, <1>6, <1>7, <1>8, <1>9, <1>10, <1>11, <1>12 DEF Next, UploadStep

\* With no upload under way every radio that has a role is back in it, whether
\* the last one completed or gave up (resume in /api/ota), as long as the
\* operator leaves radios and uploads alone meanwhile.
THEOREM RolesComeBack == ASSUME MonitorAlone(AskRoles) PROVE QuietSpec => []RolesResumed
<1>1. SessionInv /\ RolesInv => RolesResumed
  BY DEF RolesInv, RolesResumed, Over, InRoles, Away
<1> QED
  BY SessionInvHolds, RolesInvInit, RolesInvStep, <1>1, PTL DEF QuietSpec
================================================================================
