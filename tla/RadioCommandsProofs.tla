--------------------------- MODULE RadioCommandsProofs ---------------------------
(* What the frames of a role do to a radio, frame by frame (RadioCommands): the    *)
(* lemmas that the proofs about OtaSession and RadioRoles share.                   *)
EXTENDS RadioCommands, TLAPS

\* What each command does to the settings, one by one.
LEMMA ExecOne ==
  ASSUME NEW s
  PROVE  /\ \A m : Exec(s, SetMode(m)) = [s EXCEPT !.mode = m]
         /\ \A d : Exec(s, SetHop(d)) = [s EXCEPT !.dwell = d]
         /\ \A c : Exec(s, SetChannel(c)) = [s EXCEPT !.channel = c]
         /\ Exec(s, Start) = [s EXCEPT !.running = TRUE]
         /\ Exec(s, Stop) = [s EXCEPT !.running = FALSE]
         /\ Exec(s, SdrConfig) = s
BY DEF Exec, SetMode, SetHop, SetChannel, Start, Stop, SdrConfig

\* The settings after the first n of at most four frames, written out.
After(s, fr, n) ==
  IF n = 0 THEN s
  ELSE IF n = 1 THEN Exec(s, fr[1])
  ELSE IF n = 2 THEN Exec(Exec(s, fr[1]), fr[2])
  ELSE IF n = 3 THEN Exec(Exec(Exec(s, fr[1]), fr[2]), fr[3])
  ELSE Exec(Exec(Exec(Exec(s, fr[1]), fr[2]), fr[3]), fr[4])

\* A command sets its field and leaves the others alone.
LEMMA ModeSet ==
  ASSUME NEW s \in Settings, NEW m \in Modes
  PROVE  /\ Exec(s, SetMode(m)) \in Settings /\ Exec(s, SetMode(m)).mode = m
         /\ Exec(s, SetMode(m)).running = s.running
         /\ Exec(s, SetMode(m)).dwell = s.dwell
         /\ Exec(s, SetMode(m)).channel = s.channel
<1>1. Exec(s, SetMode(m)) = [s EXCEPT !.mode = m]
  BY ExecOne
<1> QED
  BY <1>1 DEF Settings
LEMMA HopSet ==
  ASSUME NEW s \in Settings, NEW d \in Dwells
  PROVE  /\ Exec(s, SetHop(d)) \in Settings /\ Exec(s, SetHop(d)).dwell = d
         /\ Exec(s, SetHop(d)).mode = s.mode
         /\ Exec(s, SetHop(d)).running = s.running
         /\ Exec(s, SetHop(d)).channel = s.channel
<1>1. Exec(s, SetHop(d)) = [s EXCEPT !.dwell = d]
  BY ExecOne
<1> QED
  BY <1>1 DEF Settings
LEMMA ChannelSet ==
  ASSUME NEW s \in Settings, NEW c \in Channels
  PROVE  /\ Exec(s, SetChannel(c)) \in Settings /\ Exec(s, SetChannel(c)).channel = c
         /\ Exec(s, SetChannel(c)).mode = s.mode
         /\ Exec(s, SetChannel(c)).running = s.running
         /\ Exec(s, SetChannel(c)).dwell = s.dwell
<1>1. Exec(s, SetChannel(c)) = [s EXCEPT !.channel = c]
  BY ExecOne
<1> QED
  BY <1>1 DEF Settings
LEMMA Started ==
  ASSUME NEW s \in Settings
  PROVE  /\ Exec(s, Start) \in Settings /\ Exec(s, Start).running = TRUE
         /\ Exec(s, Start).mode = s.mode
         /\ Exec(s, Start).dwell = s.dwell
         /\ Exec(s, Start).channel = s.channel
<1>1. Exec(s, Start) = [s EXCEPT !.running = TRUE]
  BY ExecOne
<1> QED
  BY <1>1 DEF Settings
LEMMA Stopped ==
  ASSUME NEW s \in Settings
  PROVE  /\ Exec(s, Stop) \in Settings /\ Exec(s, Stop).running = FALSE
         /\ Exec(s, Stop).mode = s.mode
         /\ Exec(s, Stop).dwell = s.dwell
         /\ Exec(s, Stop).channel = s.channel
<1>1. Exec(s, Stop) = [s EXCEPT !.running = FALSE]
  BY ExecOne
<1> QED
  BY <1>1 DEF Settings

\* A sequence of two to four frames, frame by frame.
LEMMA AfterTwo ==
  ASSUME NEW s, NEW a, NEW b
  PROVE  Len(<<a, b>>) = 2 /\ After(s, <<a, b>>, 2) = Exec(Exec(s, a), b)
BY DEF After
LEMMA AfterThree ==
  ASSUME NEW s, NEW a, NEW b, NEW c
  PROVE  Len(<<a, b, c>>) = 3 /\ After(s, <<a, b, c>>, 3) = Exec(Exec(Exec(s, a), b), c)
BY DEF After
LEMMA AfterFour ==
  ASSUME NEW s, NEW a, NEW b, NEW c, NEW d
  PROVE  /\ Len(<<a, b, c, d>>) = 4
         /\ After(s, <<a, b, c, d>>, 4) = Exec(Exec(Exec(Exec(s, a), b), c), d)
BY DEF After

\* What each role asks of the settings.
LEMMA ServesMeans ==
  ASSUME NEW t
  PROVE  /\ t.mode = "capture" /\ t.running => Serves(t, "sniffer")
         /\ t.mode = "ed" /\ t.dwell = 20 => Serves(t, "spectrum")
         /\ t.mode = "capture" /\ t.running /\ t.dwell = 300 => Serves(t, "hopper")
         /\ t.mode = "idle" /\ ~t.running => Serves(t, "idle")
         /\ t.mode = "sdr" => Serves(t, "sdr")
         /\ t.mode = "capture" /\ t.running /\ t.channel = Foreign => Serves(t, "monitor")
BY DEF Serves

\* The settings of radio r after the frames of a role.
Given(s, r, role) == LET fr == FramesFor(r, role) IN After(s, fr, Len(fr))

\* A radio that was sent the frames of a role is in it.  The exception is
\* a satellite sent "monitor", whose frames do not set the mode: it keeps the one it has.
LEMMA RoleRuns ==
  ASSUME NEW s \in Settings, NEW r, NEW role \in Roles
  PROVE  /\ Len(FramesFor(r, role)) \in 1..4
         /\ Given(s, r, role) \in Settings
         /\ role # "monitor" \/ r = 0 \/ s.mode = "capture" => Serves(Given(s, r, role), role)
<1> DEFINE p == Exec(s, SetHop(0))
           q == Exec(p, SetMode("capture"))
<1>m. {"idle", "capture", "ed", "sdr"} = Modes /\ {0, 20, 300} = Dwells /\ Foreign \in Channels
  BY DEF Modes, Dwells, Channels
<1>1. CASE role = "sniffer"
  <2>1. CASE r = 0
    <3>1. FramesFor(r, role) = <<SetHop(0), SetMode("capture"), Start>>
      BY <1>1, <2>1 DEF FramesFor, RoleFrames
    <3>2. Len(FramesFor(r, role)) = 3 /\ Given(s, r, role) = Exec(q, Start)
      BY <3>1, AfterThree DEF Given
    <3>3. p \in Settings  BY HopSet, <1>m
    <3>4. q \in Settings /\ q.mode = "capture"  BY ModeSet, HopSet, ChannelSet, <1>m, <3>3
    <3> HIDE DEF p, q
    <3>5. Exec(q, Start) \in Settings /\ Exec(q, Start).mode = "capture" /\ Exec(q, Start).running = TRUE
      BY Started, <3>4
    <3> QED  BY <3>2, <3>5, <1>1, ServesMeans
  <2>2. CASE r # 0
    <3>1. FramesFor(r, role) = <<SetMode("capture"), Start>>
      BY <1>1, <2>2 DEF FramesFor, SatRoleFrames
    <3> DEFINE t == Exec(s, SetMode("capture"))
    <3>2. Len(FramesFor(r, role)) = 2 /\ Given(s, r, role) = Exec(t, Start)
      BY <3>1, AfterTwo DEF Given
    <3>3. t \in Settings /\ t.mode = "capture"  BY ModeSet, HopSet, ChannelSet, <1>m
    <3> HIDE DEF t
    <3>4. Exec(t, Start) \in Settings /\ Exec(t, Start).mode = "capture" /\ Exec(t, Start).running = TRUE
      BY Started, <3>3
    <3> QED  BY <3>2, <3>4, <1>1, ServesMeans
  <2> QED  BY <2>1, <2>2
<1>2. CASE role \in {"spectrum", "hopper"}
  <2> DEFINE d == IF role = "spectrum" THEN 20 ELSE 300
             m == IF role = "spectrum" THEN "ed" ELSE "capture"
             t == Exec(s, SetHop(d))
             u == Exec(t, SetMode(m))
  <2>1. FramesFor(r, role) = <<SetHop(d), SetMode(m), Start>>
    BY <1>2 DEF FramesFor, SatRoleFrames, RoleFrames
  <2>d. d \in Dwells /\ m \in Modes
    BY DEF Dwells, Modes
  <2>2. Len(FramesFor(r, role)) = 3 /\ Given(s, r, role) = Exec(u, Start)
    BY <2>1, AfterThree DEF Given
  <2>3. t \in Settings /\ t.dwell = d  BY ModeSet, HopSet, ChannelSet, <2>d
  <2>4. u \in Settings /\ u.dwell = d /\ u.mode = m  BY ModeSet, HopSet, ChannelSet, <2>d, <2>3
  <2> HIDE DEF t, u
  <2>5. /\ Exec(u, Start) \in Settings /\ Exec(u, Start).dwell = d
        /\ Exec(u, Start).mode = m /\ Exec(u, Start).running = TRUE
    BY Started, <2>4
  <2>6. CASE role = "spectrum"  BY <2>2, <2>5, <2>6, ServesMeans
  <2>7. CASE role = "hopper"    BY <2>2, <2>5, <2>7, ServesMeans
  <2> QED  BY <1>2, <2>6, <2>7
<1>3. CASE role = "idle"
  <2> DEFINE t == Exec(s, SetMode("idle"))
  <2>1. FramesFor(r, role) = <<SetMode("idle"), Stop>>
    BY <1>3 DEF FramesFor, SatRoleFrames, RoleFrames
  <2>2. Len(FramesFor(r, role)) = 2 /\ Given(s, r, role) = Exec(t, Stop)
    BY <2>1, AfterTwo DEF Given
  <2>3. t \in Settings /\ t.mode = "idle"  BY ModeSet, HopSet, ChannelSet, <1>m
  <2> HIDE DEF t
  <2>4. Exec(t, Stop) \in Settings /\ Exec(t, Stop).mode = "idle" /\ Exec(t, Stop).running = FALSE
    BY Stopped, <2>3
  <2> QED  BY <2>2, <2>4, <1>3, ServesMeans
<1>4. CASE role = "sdr"
  <2>1. FramesFor(r, role) = <<SdrConfig, SetMode("sdr")>>
    BY <1>4 DEF FramesFor, SatRoleFrames, RoleFrames
  <2>2. Len(FramesFor(r, role)) = 2 /\ Given(s, r, role) = Exec(s, SetMode("sdr"))
    BY <2>1, AfterTwo, ExecOne DEF Given
  <2> QED  BY <2>2, <1>m, <1>4, ModeSet, ServesMeans
<1>5. CASE role = "monitor"
  <2> DEFINE t == Exec(s, SetChannel(Foreign))
             u == Exec(t, SetHop(0))
             v == Exec(u, SetMode("capture"))
  <2>1. t \in Settings /\ t.channel = Foreign /\ t.mode = s.mode
    BY ModeSet, HopSet, ChannelSet, <1>m
  <2>2. CASE r = 0
    <3>1. FramesFor(r, role) = <<SetChannel(Foreign), SetHop(0), SetMode("capture"), Start>>
      BY <1>5, <2>2 DEF FramesFor, RoleFrames
    <3>2. Len(FramesFor(r, role)) = 4 /\ Given(s, r, role) = Exec(v, Start)
      BY <3>1, AfterFour DEF Given
    <3>3. u \in Settings /\ u.channel = Foreign  BY ModeSet, HopSet, ChannelSet, <1>m, <2>1
    <3>4. v \in Settings /\ v.channel = Foreign /\ v.mode = "capture"  BY ModeSet, HopSet, ChannelSet, <1>m, <3>3
    <3> HIDE DEF v
    <3>5. /\ Exec(v, Start) \in Settings /\ Exec(v, Start).channel = Foreign
          /\ Exec(v, Start).mode = "capture" /\ Exec(v, Start).running = TRUE
      BY Started, <3>4
    <3> QED  BY <3>2, <3>5, <1>5, ServesMeans
  <2>3. CASE r # 0
    <3>1. FramesFor(r, role) = <<SetChannel(Foreign), Start>>
      BY <1>5, <2>3 DEF FramesFor, SatRoleFrames
    <3>2. Len(FramesFor(r, role)) = 2 /\ Given(s, r, role) = Exec(t, Start)
      BY <3>1, AfterTwo DEF Given
    <3> HIDE DEF t
    <3>3. /\ Exec(t, Start) \in Settings /\ Exec(t, Start).channel = Foreign
          /\ Exec(t, Start).mode = s.mode /\ Exec(t, Start).running = TRUE
      BY Started, <2>1
    <3> QED  BY <3>2, <3>3, <2>3, <1>5, ServesMeans
  <2> QED  BY <2>2, <2>3
<1> QED
  BY <1>1, <1>2, <1>3, <1>4, <1>5 DEF Roles


--------------------------------------------------------------------------------
(* Which roles go together                                                      *)

\* The frames that make a satellite a monitor leave its mode as it is, so a role
\* with another mode must not be in use beside it.
MonitorAlone(used) == "monitor" \in used => used \subseteq {"sniffer", "hopper", "monitor"}

Captures(s, used) == "monitor" \in used => s.mode = "capture"

\* A radio that has run the frames of a role is in it, and captures if it must.
LEMMA GivenRole ==
  ASSUME NEW used \in SUBSET Roles, MonitorAlone(used),
         NEW s \in Settings, Captures(s, used), NEW r, NEW role \in used
  PROVE  Serves(Given(s, r, role), role) /\ Captures(Given(s, r, role), used)
<1>1. Serves(Given(s, r, role), role)
  BY RoleRuns DEF Captures
<1>2. ASSUME "monitor" \in used PROVE Given(s, r, role).mode = "capture"
  <2>1. role \in {"sniffer", "hopper", "monitor"}
    BY <1>2 DEF MonitorAlone
  <2> QED
    BY <1>1, <2>1 DEF Serves
<1> QED
  BY <1>1, <1>2 DEF Captures

--------------------------------------------------------------------------------
(* One frame at a time                                                          *)

\* The first frame and the rest of the sequence do what the sequence does.
LEMMA AfterTail ==
  ASSUME NEW s, NEW fr \in Seq(Commands), Len(fr) \in 1..4
  PROVE  /\ Tail(fr) \in Seq(Commands) /\ Len(Tail(fr)) = Len(fr) - 1
         /\ Head(fr) = fr[1] /\ Head(fr) \in Commands
         /\ \A i \in 1..Len(fr) - 1 : Tail(fr)[i] = fr[i + 1]
         /\ After(Exec(s, Head(fr)), Tail(fr), Len(Tail(fr))) = After(s, fr, Len(fr))
<1>1. /\ Tail(fr) \in Seq(Commands) /\ Len(Tail(fr)) = Len(fr) - 1
      /\ Head(fr) = fr[1] /\ Head(fr) \in Commands
      /\ \A i \in 1..Len(fr) - 1 : Tail(fr)[i] = fr[i + 1]
  OBVIOUS
<1> DEFINE t == Tail(fr)
<1> HIDE DEF t
<1>2. Len(t) = Len(fr) - 1 /\ \A i \in 1..Len(fr) - 1 : t[i] = fr[i + 1]
  BY <1>1 DEF t
<1>3. Head(fr) = fr[1]
  BY <1>1
<1>4. After(Exec(s, fr[1]), t, Len(t)) = After(s, fr, Len(fr))
  <2>1. CASE Len(fr) = 1  BY <1>2, <2>1 DEF After
  <2>2. CASE Len(fr) = 2  BY <1>2, <2>2 DEF After
  <2>3. CASE Len(fr) = 3
    <3>1. Len(t) = 2 /\ t[1] = fr[2] /\ t[2] = fr[3]
      BY <1>2, <2>3
    <3> QED
      BY <2>3, <3>1 DEF After
  <2>4. CASE Len(fr) = 4
    <3>1. Len(t) = 3 /\ t[1] = fr[2] /\ t[2] = fr[3] /\ t[3] = fr[4]
      BY <1>2, <2>4
    <3> QED
      BY <2>4, <3>1 DEF After
  <2> QED
    BY <2>1, <2>2, <2>3, <2>4
<1> QED
  BY <1>1, <1>3, <1>4 DEF t

\* Commands, and those among them that leave a radio in capture mode.
LEMMA ExecTyped ==
  ASSUME NEW s \in Settings, NEW cmd \in Commands
  PROVE  /\ Exec(s, cmd) \in Settings
         /\ (cmd.op = "set_mode" => cmd.arg = "capture") /\ s.mode = "capture"
              => Exec(s, cmd).mode = "capture"
<1>1. CASE \E m \in Modes : cmd = SetMode(m)
  <2>1. PICK m \in Modes : cmd = SetMode(m)
    BY <1>1
  <2>2. cmd.arg = m /\ cmd.op = "set_mode"
    BY <2>1 DEF SetMode
  <2> QED
    BY <2>1, <2>2, ModeSet
<1>2. CASE \E d \in Dwells : cmd = SetHop(d)
  BY <1>2, HopSet
<1>3. CASE \E c \in Channels : cmd = SetChannel(c)
  BY <1>3, ChannelSet
<1>4. CASE cmd \in {Start, Stop, SdrConfig}
  <2>1. CASE cmd = Start      BY <2>1, Started
  <2>2. CASE cmd = Stop       BY <2>2, Stopped
  <2>3. CASE cmd = SdrConfig
    <3>1. Exec(s, cmd) = s
      BY <2>3, ExecOne
    <3> QED
      BY <3>1
  <2> QED
    BY <1>4, <2>1, <2>2, <2>3
<1> QED
  BY <1>1, <1>2, <1>3, <1>4 DEF Commands

CaptureOnly(fr) == \A i \in 1..Len(fr) : fr[i].op = "set_mode" => fr[i].arg = "capture"

\* A role is made of commands; those of the roles that go with a monitor leave
\* the radio in capture mode.
LEMMA FramesTyped ==
  ASSUME NEW r, NEW role \in Roles
  PROVE  /\ FramesFor(r, role) \in Seq(Commands)
         /\ role \in {"sniffer", "hopper", "monitor"} => CaptureOnly(FramesFor(r, role))
<1>1. /\ \A m \in Modes : SetMode(m) \in Commands
      /\ \A d \in Dwells : SetHop(d) \in Commands
      /\ \A c \in Channels : SetChannel(c) \in Commands
      /\ {Start, Stop, SdrConfig} \subseteq Commands
  BY DEF Commands
<1>2. {"idle", "capture", "ed", "sdr"} = Modes /\ {0, 20, 300} = Dwells /\ Foreign \in Channels
  BY DEF Modes, Dwells, Channels
<1>3. FramesFor(r, role) \in Seq(Commands)
  <2>1. RoleFrames(role) \in Seq(Commands)
    BY <1>1, <1>2 DEF RoleFrames, Roles
  <2>2. SatRoleFrames(role) \in Seq(Commands)
    BY <1>1, <1>2, <2>1 DEF SatRoleFrames
  <2> QED
    BY <2>1, <2>2 DEF FramesFor
<1>4. ASSUME role \in {"sniffer", "hopper", "monitor"} PROVE CaptureOnly(FramesFor(r, role))
  <2>1. /\ SetMode("capture").arg = "capture" /\ SetMode("capture").op = "set_mode"
        /\ SetHop(0).op = "set_hop" /\ SetHop(300).op = "set_hop"
        /\ SetChannel(Foreign).op = "set_channel" /\ Start.op = "start"
    BY DEF SetMode, SetHop, SetChannel, Start
  <2>2. CASE role = "sniffer"
    BY <2>1, <2>2 DEF CaptureOnly, FramesFor, RoleFrames, SatRoleFrames
  <2>3. CASE role = "hopper"
    BY <2>1, <2>3 DEF CaptureOnly, FramesFor, RoleFrames, SatRoleFrames
  <2>4. CASE role = "monitor"
    BY <2>1, <2>4 DEF CaptureOnly, FramesFor, RoleFrames, SatRoleFrames
  <2> QED
    BY <1>4, <2>2, <2>3, <2>4
<1> QED
  BY <1>3, <1>4
=================================================================================
