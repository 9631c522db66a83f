------------------------------- MODULE RadioJobs -------------------------------
(* Who the host lets command a radio, and when (api/server.go, api/sdr.go).    *)
(* A request picks a radio by what the tracker last heard of it and what role  *)
(* it has; nothing is reserved.  Its frames go out one after the other, those  *)
(* to a satellite 25 ms apart, so the frames of requests and of the jobs they  *)
(* leave behind (survey, snapshot) interleave.  A frame may be lost on the     *)
(* line, and a satellite the tracker has meanwhile forgotten is taken for the  *)
(* port's own radio by the next send.                                          *)
(*                                                                             *)
(* There is one port, with radio 0 as its own and satellites behind it.        *)
(* Frames that change no setting of a radio (probe, beacon request, one-shot   *)
(* ED scan, status) are left out.                                              *)
EXTENDS RadioCommands, Integers, SequencesExt

CONSTANTS
  Ids,        \* radios: 0 and the satellites
  SdrIds,     \* those whose firmware reports CAP_SDR
  StartRoles, \* roles a radio may have to begin with
  MaxCalls    \* bound: requests that command a radio

ASSUME JobsAssumption ==
  /\ 0 \in Ids /\ Ids \subseteq Nat /\ IsFiniteSet(Ids) /\ SdrIds \subseteq Ids
  /\ StartRoles \subseteq Roles \cup {"tester", "any"}

VARIABLES
  radio,   \* the settings each radio has
  view,    \* what the tracker last heard: mode, and Stop pressed; or Unseen
  role,    \* the role map, "any" where it has no entry
  cfg,     \* saved channel (Unset: none) and hop dwell
  status,  \* channel of the last status report, of whichever radio
  calls,   \* requests and jobs: whether a job, and what is still to be done
  clean    \* radios only jobs have commanded since they were last left alone,
           \* and whose restore reached them
jobVars == <<radio, view, role, cfg, status, calls, clean>>

Unset == 0
Unseen == [mode |-> "unseen", stopped |-> FALSE]
Nobody == -1
Everyone == 0       \* a broadcast reaches the port's own radio

JobsInit ==
  /\ radio = [r \in Ids |-> [mode |-> "capture", running |-> TRUE, dwell |-> 0, channel |-> Home]]
  /\ view = [r \in Ids |-> Unseen]
  /\ role \in [Ids -> StartRoles]
  /\ cfg \in [channel : {Unset, Home}, hop : {0}]
  /\ status = Unset /\ calls = <<>> /\ clean = {}

-------------------------------------------------------------------------------
(* Choosing a radio.  The lists are searched from the lowest id.               *)

Seen == {r \in Ids : view[r] # Unseen}
Free(r) == role[r] = "any"
LastMode(r) == IF view[r] = Unseen THEN "unknown" ELSE view[r].mode
Capturing(r) == view[r].mode = "capture" /\ ~view[r].stopped
InterferesWith(fn, r) == CASE fn = "spectrum" -> Capturing(r)
                      [] fn = "capture"  -> view[r].mode \in {"ed", "sdr"}
                      [] fn = "probe"    -> FALSE
Dedicated == [spectrum |-> "spectrum", capture |-> "sniffer", probe |-> "tester"]

\* The first radio of the first choice that has one.
FirstOf(choices) == LET some == {k \in DOMAIN choices : choices[k] # {}}
                    IN IF some = {} THEN Nobody ELSE Min(choices[Min(some)])

\* A busy radio is the last choice; that it is interrupted only the dry run tells.
Allocate(fn) ==
  IF Seen = {} THEN Everyone
  ELSE FirstOf(<<{r \in Seen : role[r] = Dedicated[fn]},
                 {r \in Seen : Free(r) /\ ~InterferesWith(fn, r)},
                 {r \in Seen : Free(r)},
                 {r \in Seen : fn = "probe" /\ Capturing(r)}>>)

AllocateSdr ==
  LET able == Seen \cap SdrIds
  IN FirstOf(<<{r \in able : role[r] = "sdr"},
               {r \in able : role[r] = "spectrum"},
               {r \in able : Free(r) /\ view[r].mode = "sdr"},
               {r \in able : Free(r) /\ (view[r].stopped \/ view[r].mode \in {"idle", "unknown"})},
               {r \in able : Free(r)}>>)

SpareRadio ==
  FirstOf(<<{r \in Seen : /\ role[r] \notin {"sniffer", "tester", "hopper"}
                          /\ r # 0 \/ role[r] \in {"idle", "any", "monitor"}
                          /\ r # 0 \/ Cardinality(Seen) > 1}>>)

-------------------------------------------------------------------------------
(* What a request does, as a list of steps.                                    *)

\* Frames for a radio already decided, and a send that decides when it runs.
SendTo(r, cmds) == [i \in DOMAIN cmds |-> [do |-> "command", to |-> r, what |-> cmds[i]]]
Deliver(r, cmds) == <<[do |-> "deliver", to |-> r, what |-> cmds]>>
StartOn(r) == <<[do |-> "start", to |-> r, what |-> Unset]>>
Restore(r) == <<[do |-> "restore", to |-> r, what |-> Unset]>>
SaveCfg(key, value) == <<[do |-> "save", to |-> Nobody, what |-> <<key, value>>]>>
\* Of one radio, or of every radio that is tracked (Nobody).
SetStopped(r, on) == <<[do |-> "stopped", to |-> r, what |-> on]>>

Listen == <<SetMode("capture"), Start>>
\* The k-th lowest of S.
Nth(S, k) == CHOOSE r \in S : Cardinality({q \in S : q < r}) = k - 1
ToSatellites(cmd) == [k \in 1..Cardinality(Seen \ {0}) |->
                        [do |-> "command", to |-> Nth(Seen \ {0}, k), what |-> cmd]]

\* intendedChannel: the saved one, else that of the last status report.
IntendedChannel == IF cfg.channel # Unset THEN cfg.channel ELSE status

\* A variant of RestoreFrames: hopping is not switched on again.
RestoreNoHop == (IF IntendedChannel = Unset THEN <<>> ELSE <<SetChannel(IntendedChannel)>>) \o Listen
\* restoreCapture reads the configuration once, then sends.
RestoreFrames ==
  <<SetHop(cfg.hop)>>
  \o (IF IntendedChannel = Unset THEN <<>> ELSE <<SetChannel(IntendedChannel)>>) \o Listen

RunSurvey(r) ==
  Deliver(r, <<SetHop(0)>>) \o Deliver(r, <<SetChannel(Home)>> \o Listen)
  \o Deliver(r, <<SetChannel(Foreign)>> \o Listen) \o Restore(r)
RunMonitorSnapshot(r) ==
  Deliver(r, <<SetHop(0), SetChannel(Foreign)>> \o Listen) \o Restore(r)

-------------------------------------------------------------------------------
Targets(todo) == {todo[i].to : i \in DOMAIN todo} \ {Nobody}
Busy(r) == \E i \in DOMAIN calls : r \in Targets(calls[i].todo)
Saves(todo) == \E i \in DOMAIN todo : todo[i].do = "save"

Begins(isJob, todo) ==
  /\ Len(calls) < MaxCalls /\ todo # <<>>
  /\ calls' = Append(calls, [job |-> isJob, todo |-> todo])
  /\ clean' = IF ~isJob THEN clean \ (IF Saves(todo) THEN Ids ELSE Targets(todo))
              ELSE clean \cup {r \in Targets(todo) : /\ ~Busy(r)
                                 /\ \A i \in DOMAIN calls : calls[i].job \/ calls[i].todo = <<>>}
Begin(isJob, todo) == Begins(isJob, todo) /\ UNCHANGED <<radio, view, cfg, status>>
Request(todo) == Begin(FALSE, todo) /\ UNCHANGED role
Job(todo) == Begin(TRUE, todo) /\ UNCHANGED role
On(r, Do(_)) == r # Nobody /\ Do(r)

Survey == On(Allocate("spectrum"), LAMBDA r : Job(RunSurvey(r)))
\* A spare radio is given the role, else the capturing one takes a snapshot.
MonitorSpare == On(SpareRadio, LAMBDA r :
  /\ Begin(FALSE, SendTo(r, FramesFor(r, "monitor")))
  /\ role' = [role EXCEPT ![r] = "monitor"])
MonitorSnapshot == /\ SpareRadio = Nobody
                   /\ On(Allocate("capture"), LAMBDA r : Job(RunMonitorSnapshot(r)))
SetChannelAll(c) ==
  Request(SendTo(0, <<SetChannel(c)>> \o Listen) \o ToSatellites(SetChannel(c)) \o SaveCfg("channel", c))
RadioChannel(r, c) ==
  /\ r \in Seen
  /\ Request(Deliver(r, <<SetChannel(c)>>) \o (IF r = 0 THEN SaveCfg("channel", c) ELSE <<>>))
StartCapture == On(Allocate("capture"), LAMBDA r :
  Request(StartOn(r) \o SetStopped(IF Seen = {} THEN Nobody ELSE r, FALSE)))
StopAll == Request(SendTo(0, <<Stop>>) \o ToSatellites(Stop) \o SetStopped(Nobody, TRUE))
ChangeMode(m) ==
  On(CASE m = "ed" -> Allocate("spectrum") [] m = "capture" -> Allocate("capture") [] OTHER -> Everyone,
     LAMBDA r : Request(Deliver(r, IF m = "capture" THEN Listen ELSE <<SetMode(m)>>)))
HopOn(d) == Request(SendTo(0, <<SetHop(d)>>) \o SaveCfg("hop", d))
ResetRadio == Request(SendTo(0, <<Stop>> \o Listen))
SdrStart(r) == (r = AllocateSdr \/ r \in Seen)
               /\ On(r, LAMBDA x : Request(Deliver(x, <<SdrConfig, SetMode("sdr")>>) \o SetStopped(x, FALSE)))
SdrStop(r) == r \in Seen /\ Request(Deliver(r, Listen))

-------------------------------------------------------------------------------
\* relayed: a satellite that is not tracked is taken for the port's own radio.
Reaches(r) == IF view[r] = Unseen THEN Everyone ELSE r

\* Frames meant for r go elsewhere or nowhere; its job may yet restore it.
Misses(r, rest) ==
  IF \E k \in DOMAIN rest : rest[k].do = "restore" /\ rest[k].to = r
  THEN clean ELSE clean \ {r}

\* The next step of a request or job: one frame on the wire, one entry saved.
Advance(i) ==
  /\ calls[i].todo # <<>>
  /\ LET s == Head(calls[i].todo)
         rest == Tail(calls[i].todo)
         then(todo) == calls' = [calls EXCEPT ![i].todo = todo]
         deliver(q, cmds) ==
           /\ then(SendTo(q, cmds) \o rest)
           /\ clean' = IF q = s.to THEN clean ELSE Misses(s.to, rest) \ {q}
     IN \/ /\ s.do = "command" /\ then(rest)
           /\ radio' = [radio EXCEPT ![s.to] = Exec(@, s.what)]
           /\ UNCHANGED <<view, cfg, clean>>
        \/ /\ s.do = "command" /\ then(rest) /\ clean' = Misses(s.to, rest)
           /\ UNCHANGED <<radio, view, cfg>>
        \/ /\ s.do = "deliver" /\ deliver(Reaches(s.to), s.what)
           /\ UNCHANGED <<radio, view, cfg>>
        \/ /\ s.do = "start" /\ deliver(Reaches(s.to), IF Reaches(s.to) = 0 THEN Listen ELSE <<Start>>)
           /\ UNCHANGED <<radio, view, cfg>>
        \/ /\ s.do = "restore" /\ then(Deliver(s.to, RestoreFrames) \o rest)
           /\ UNCHANGED <<radio, view, cfg, clean>>
        \/ /\ s.do = "save" /\ then(rest)
           /\ cfg' = [cfg EXCEPT ![s.what[1]] = s.what[2]]
           /\ UNCHANGED <<radio, view, clean>>
        \/ /\ s.do = "stopped" /\ then(rest)
           /\ view' = [r \in Ids |->
                CASE s.to = Nobody /\ view[r] # Unseen -> [view[r] EXCEPT !.stopped = s.what]
                  [] s.to = r -> [mode |-> LastMode(r), stopped |-> s.what]
                  [] OTHER -> view[r]]
           /\ UNCHANGED <<radio, cfg, clean>>
  /\ UNCHANGED <<role, status>>

\* A radio that the tracker did not have is given its role, if it has one.
Identify(r) ==
  IF view[r] # Unseen \/ Free(r) THEN UNCHANGED <<calls, clean>>
  ELSE Begins(FALSE, SendTo(r, FramesFor(r, IF role[r] = "tester" THEN "sniffer" ELSE role[r])))

\* A status message, and a captured frame, reach the tracker.
Report(r) ==
  /\ Identify(r)
  /\ view' = [view EXCEPT ![r].mode = radio[r].mode]
  /\ status' = radio[r].channel
  /\ UNCHANGED <<radio, role, cfg>>
Heard(r) ==
  /\ radio[r].mode = "capture" /\ radio[r].running
  /\ Identify(r)
  /\ view' = [view EXCEPT ![r] = [mode |-> LastMode(r), stopped |-> FALSE]]
  /\ UNCHANGED <<radio, role, cfg, status>>
\* List drops a radio that was silent for ten seconds.
Forget(r) ==
  /\ r \in Seen
  /\ view' = [view EXCEPT ![r] = Unseen]
  /\ UNCHANGED <<radio, role, cfg, status, calls, clean>>

JobsNext ==
  \/ Survey \/ MonitorSpare \/ MonitorSnapshot \/ StartCapture \/ StopAll \/ ResetRadio
  \/ \E c \in Channels : SetChannelAll(c) \/ \E r \in Ids : RadioChannel(r, c)
  \/ \E m \in Modes : ChangeMode(m)
  \/ \E d \in {0, 300} : HopOn(d)
  \/ \E r \in Ids : SdrStart(r) \/ SdrStop(r) \/ Report(r) \/ Heard(r) \/ Forget(r)
  \/ \E i \in DOMAIN calls : Advance(i)

-------------------------------------------------------------------------------
JobsTypeOK ==
  /\ radio \in [Ids -> Settings] /\ cfg \in [channel : Channels \cup {Unset}, hop : Dwells]
  /\ status \in Channels \cup {Unset} /\ clean \subseteq Ids
  /\ \A r \in Ids : view[r] = Unseen \/ view[r].mode \in Modes \cup {"unknown"}
  /\ \A fn \in DOMAIN Dedicated : Allocate(fn) \in Ids \cup {Nobody}

\* However surveys and snapshots overlap on a radio, once the last of them is
\* done the radio captures where the configuration wants it, hopping or not as
\* configured, unless meanwhile a user commanded it or changed the configuration,
\* or frames of a restore were lost, or went to the port's own radio because the
\* tracker had forgotten the satellite they were for.
BorrowedComesBack ==
  \A r \in clean : ~Busy(r) /\ cfg.channel # Unset =>
    radio[r] = [mode |-> "capture", running |-> TRUE, dwell |-> cfg.hop, channel |-> cfg.channel]
===============================================================================
