---------------------------- MODULE RadioRolesProofs ----------------------------
(* A role reaches its radio and the config file (RadioRoles): the types for every  *)
(* interleaving of the calls, the two agreements for calls one at a time, through  *)
(* silences, resets, lost links and restarts of the host.                          *)
EXTENDS RadioRoles, RadioCommandsProofs

\* Two lists of commands one after the other.
LEMMA Joined ==
  ASSUME NEW a \in Seq(Commands), NEW b \in Seq(Commands)
  PROVE  (a \o b) \in Seq(Commands) /\ Len(a \o b) = Len(a) + Len(b)
OBVIOUS

LEMMA TailGone == ASSUME NEW a \in Seq(Commands), Len(a) = 0 PROVE a = <<>>
OBVIOUS

USE RoleAssumption DEF RoleAssumption

Calls == [pc : {"idle", "save", "apply", "send"}, radio : Radios, snap : RoleMaps,
          frames : Seq(Commands)]

Loops == [pc : LoopPcs, rounds : 0..StartRounds, frames : Seq(Commands)]

LoopOK == loop \in Loops /\ (loop.pc = "send" => loop.frames # <<>> /\ loop.rounds # 0)

\* A call that sends, and a connect loop that does, has something left to send.
RolesTypes ==
  /\ TypeOK
  /\ LoopOK
  /\ call \in [Callers -> Calls]
  /\ \A c \in Callers : call[c].pc = "send" => Len(call[c].frames) \in 1..4

--------------------------------------------------------------------------------
(* Types                                                                         *)

LEMMA RestTyped == Rest \in Calls /\ Rest.pc = "idle" /\ Rest.snap \in RoleMaps
<1>1. [r \in Radios |-> None] \in RoleMaps
  BY DEF RoleMaps
<1>2. <<>> \in Seq(Commands)
  OBVIOUS
<1> QED
  BY <1>1, <1>2 DEF Rest, Calls

\* What each step makes of a call's record.
LEMMA Asked ==
  ASSUME NEW r \in Radios, NEW m \in RoleMaps
  PROVE  LET k == [pc |-> "save", radio |-> r, snap |-> m, frames |-> <<>>] IN
         k \in Calls /\ k.pc = "save" /\ k.radio = r /\ k.snap = m
<1>1. <<>> \in Seq(Commands)
  OBVIOUS
<1> QED
  BY <1>1 DEF Calls

LEMMA SavedCall ==
  ASSUME NEW k \in Calls, NEW m \in RoleMaps
  PROVE  LET n == [k EXCEPT !.pc = "apply", !.snap = m] IN
         n \in Calls /\ n.pc = "apply" /\ n.radio = k.radio
BY DEF Calls

LEMMA ApplyingCall ==
  ASSUME NEW k \in Calls, NEW fr \in Seq(Commands)
  PROVE  LET n == [k EXCEPT !.pc = "send", !.frames = fr] IN
         n \in Calls /\ n.pc = "send" /\ n.radio = k.radio /\ n.frames = fr
BY DEF Calls

LEMMA SendingCall ==
  ASSUME NEW k \in Calls, NEW fr \in Seq(Commands)
  PROVE  LET n == [k EXCEPT !.frames = fr] IN
         n \in Calls /\ n.pc = k.pc /\ n.radio = k.radio /\ n.frames = fr
BY DEF Calls

LEMMA SeenCall ==
  ASSUME NEW r \in Radios
  PROVE  LET n == [Rest EXCEPT !.pc = "apply", !.radio = r] IN
         n \in Calls /\ n.pc = "apply" /\ n.radio = r
BY RestTyped DEF Calls

\* The typing of the calls is all that TypeOK says of them.
LEMMA CallsTyped ==
  ASSUME call \in [Callers -> Calls]
  PROVE  /\ DOMAIN call = Callers
         /\ \A c \in Callers :
              /\ call[c].pc \in {"idle", "save", "apply", "send"}
              /\ call[c].radio \in Radios /\ call[c].snap \in RoleMaps
              /\ call[c].frames \in Seq(Commands)
BY DEF Calls

\* So is that of the connect loop.
LEMMA LoopTyped ==
  ASSUME loop \in Loops
  PROVE  loop.pc \in LoopPcs /\ loop.rounds \in 0..StartRounds /\ loop.frames \in Seq(Commands)
BY DEF Loops

LEMMA WaitsTyped == LoopWaits \in Loops /\ LoopWaits.pc = "wait"
<1>1. <<>> \in Seq(Commands)
  OBVIOUS
<1> QED
  BY <1>1 DEF LoopWaits, Loops, LoopPcs

LEMMA RoundTyped == StartRound \in Seq(Commands) /\ StartRound # <<>>
<1> DEFINE h == IF SavedDwell = 0 THEN <<>> ELSE <<SetHop(SavedDwell)>>
           m == IF SavedMode = "capture" THEN <<SetMode(SavedMode), Start>> ELSE <<SetMode(SavedMode)>>
           c == <<SetChannel(Home)>>
<1>1. SetMode(SavedMode) \in Commands /\ Start \in Commands /\ SetHop(SavedDwell) \in Commands
      /\ SetChannel(Home) \in Commands
  BY DEF Commands, Channels
<1>2. h \in Seq(Commands) /\ m \in Seq(Commands) /\ c \in Seq(Commands) /\ Len(c) = 1
  BY <1>1
<1>3. StartRound = (c \o h) \o m
  BY DEF StartRound
<1> HIDE DEF c, h, m
<1>4. (c \o h) \in Seq(Commands) /\ Len(c \o h) = Len(c) + Len(h)
  BY <1>2, Joined
<1>5. ((c \o h) \o m) \in Seq(Commands) /\ Len((c \o h) \o m) = Len(c \o h) + Len(m)
  BY <1>2, <1>4, Joined
<1>6. Len((c \o h) \o m) # 0
  BY <1>2, <1>4, <1>5
<1> QED
  BY <1>3, <1>5, <1>6

\* A call of another goroutine goes on as it was.
LEMMA CallPut ==
  ASSUME NEW c \in Callers, NEW k \in Calls, call \in [Callers -> Calls],
         call' = [call EXCEPT ![c] = k]
  PROVE  call' \in [Callers -> Calls] /\ call'[c] = k
         /\ \A d \in Callers \ {c} : call'[d] = call[d]
OBVIOUS

LEMMA RolesTypesInit == Init => RolesTypes
<1> SUFFICES ASSUME Init PROVE RolesTypes
  OBVIOUS
<1>1. call \in [Callers -> Calls] /\ \A c \in Callers : call[c].pc = "idle"
  BY RestTyped DEF Init
<1>2. [r \in Radios |-> None] \in RoleMaps
  BY DEF RoleMaps
<1>3. device \in [Radios -> Settings]
  BY DEF Init, Settings, Modes, Dwells, Channels
<1>4. asks = 0 /\ resets = 0 /\ tracked = {} /\ stale = {} /\ spoilt = {} /\ link = "down"
      /\ roles = [r \in Radios |-> None] /\ file = roles
  BY DEF Init
<1>5. asks \in 0..MaxAsks /\ resets \in 0..MaxResets
  BY <1>4
<1>7. LoopOK
  BY WaitsTyped DEF Init, LoopOK
<1>6. TypeOK
  BY <1>1, <1>2, <1>3, <1>4, <1>5, <1>7, CallsTyped, LoopTyped DEF TypeOK, LoopOK
<1> QED
  BY <1>1, <1>6, <1>7 DEF RolesTypes

\* The parts of TypeOK that are not about calls.
RestOK ==
  /\ roles \in RoleMaps /\ file \in RoleMaps
  /\ tracked \subseteq Radios /\ stale \subseteq tracked
  /\ link \in {"up", "down"}
  /\ LoopOK
  /\ device \in [Radios -> Settings]
  /\ asks \in 0..MaxAsks /\ resets \in 0..MaxResets
  /\ spoilt \subseteq Radios

CallsOK ==
  /\ call \in [Callers -> Calls]
  /\ \A c \in Callers : call[c].pc = "send" => Len(call[c].frames) \in 1..4

LEMMA TypesSplit == RolesTypes <=> RestOK /\ CallsOK
BY CallsTyped, LoopTyped DEF RolesTypes, TypeOK, RestOK, CallsOK, LoopOK

LEMMA TypesSplitNext == (RolesTypes <=> RestOK /\ CallsOK)'
BY TypesSplit, PTL

--------------------------------------------------------------------------------
(* One lemma per step of a call: what it makes of the calls                       *)

LEMMA AskEffect ==
  ASSUME RolesTypes, NEW c \in Requests, NEW r \in Radios, NEW role \in AskRoles \cup {None},
         Ask(c, r, role)
  PROVE  /\ roles' \in RoleMaps /\ roles'[r] = role
         /\ \A q \in Radios \ {r} : roles'[q] = roles[q]
         /\ call' \in [Callers -> Calls]
         /\ call'[c].pc = "save" /\ call'[c].radio = r /\ call'[c].snap = roles'
         /\ \A d \in Callers \ {c} : call'[d] = call[d]
<1>1. roles' \in RoleMaps /\ roles'[r] = role /\ \A q \in Radios \ {r} : roles'[q] = roles[q]
  BY TypesSplit DEF Ask, RestOK, RoleMaps
<1> DEFINE k == [pc |-> "save", radio |-> r, snap |-> roles', frames |-> <<>>]
<1>2. k \in Calls /\ k.pc = "save" /\ k.radio = r /\ k.snap = roles'
  BY <1>1, Asked
<1>3. call' = [call EXCEPT ![c] = k]
  BY DEF Ask
<1> HIDE DEF k
<1>4. c \in Callers /\ call \in [Callers -> Calls]
  BY TypesSplit DEF Callers, CallsOK
<1> QED
  BY <1>1, <1>2, <1>3, <1>4, CallPut

LEMMA SaveEffect ==
  ASSUME RolesTypes, NEW c \in Callers, Save(c)
  PROVE  /\ call' \in [Callers -> Calls]
         /\ call'[c].pc = "apply" /\ call'[c].radio = call[c].radio
         /\ \A d \in Callers \ {c} : call'[d] = call[d]
<1> DEFINE k == [call[c] EXCEPT !.pc = "apply", !.snap = Rest.snap]
<1>1. call \in [Callers -> Calls] /\ call[c] \in Calls
  BY TypesSplit DEF CallsOK
<1>2. k \in Calls /\ k.pc = "apply" /\ k.radio = call[c].radio
  BY <1>1, SavedCall, RestTyped
<1>3. call' = [call EXCEPT ![c] = k]
  BY DEF Save
<1> HIDE DEF k
<1> QED
  BY <1>1, <1>2, <1>3, CallPut

LEMMA ApplyEffect ==
  ASSUME RolesTypes, NEW c \in Callers, Apply(c)
  PROVE  LET r == call[c].radio IN
         /\ call' \in [Callers -> Calls]
         /\ \A d \in Callers \ {c} : call'[d] = call[d]
         /\ \/ /\ roles[r] # None /\ r \in tracked
               /\ call'[c].pc = "send" /\ call'[c].radio = r
               /\ call'[c].frames = FramesFor(r, roles[r])
               /\ Len(call'[c].frames) \in 1..4
               /\ spoilt' = spoilt \ {r}
            \/ /\ roles[r] = None \/ r \notin tracked
               /\ call'[c].pc = "idle" /\ spoilt' = spoilt
<1> DEFINE r == call[c].radio
           k == IF roles[r] # None /\ r \in tracked
                THEN [call[c] EXCEPT !.pc = "send", !.frames = FramesFor(r, roles[r])]
                ELSE Rest
<1>1. call \in [Callers -> Calls] /\ call[c] \in Calls /\ r \in Radios
  BY TypesSplit DEF Calls, CallsOK
<1>2. roles[r] # None => roles[r] \in Roles
  BY <1>1, TypesSplit DEF RestOK, RoleMaps
<1>3. call' = [call EXCEPT ![c] = k] /\ spoilt' = IF call'[c].pc = "send" THEN spoilt \ {r} ELSE spoilt
  BY DEF Apply
<1>4. CASE roles[r] # None /\ r \in tracked
  <2>1. FramesFor(r, roles[r]) \in Seq(Commands) /\ Len(FramesFor(r, roles[r])) \in 1..4
    <3>1. PICK s : s \in Settings
      BY TypesSplit, <1>1 DEF RestOK
    <3> QED
      BY <1>2, <1>4, <3>1, FramesTyped, RoleRuns
  <2>2. /\ k \in Calls /\ k.pc = "send" /\ k.radio = r /\ k.frames = FramesFor(r, roles[r])
    BY <1>1, <1>4, <2>1, ApplyingCall
  <2> HIDE DEF k
  <2>3. /\ call' \in [Callers -> Calls] /\ call'[c] = k
        /\ \A d \in Callers \ {c} : call'[d] = call[d]
    BY <1>1, <1>3, <2>2, CallPut
  <2> QED
    BY <1>3, <1>4, <2>1, <2>2, <2>3
<1>5. CASE ~(roles[r] # None /\ r \in tracked)
  <2>1. k = Rest
    BY <1>5
  <2> HIDE DEF k
  <2>3. /\ call' \in [Callers -> Calls] /\ call'[c] = Rest
        /\ \A d \in Callers \ {c} : call'[d] = call[d]
    BY <1>1, <1>3, <2>1, RestTyped, CallPut
  <2> QED
    BY <1>3, <1>5, <2>3, RestTyped
<1> QED
  BY <1>4, <1>5

LEMMA SendEffect ==
  ASSUME RolesTypes, NEW c \in Callers, Send(c)
  PROVE  LET r  == call[c].radio
             fr == call[c].frames
         IN
         /\ r \in Radios /\ fr \in Seq(Commands) /\ Len(fr) \in 1..4
         /\ device' \in [Radios -> Settings]
         /\ device'[r] = IF link = "up" THEN Exec(device[r], Head(fr)) ELSE device[r]
         /\ \A q \in Radios \ {r} : device'[q] = device[q]
         /\ call' \in [Callers -> Calls]
         /\ \A d \in Callers \ {c} : call'[d] = call[d]
         /\ \/ Len(fr) = 1 /\ call'[c].pc = "idle"
            \/ /\ Len(fr) > 1 /\ call'[c].pc = "send" /\ call'[c].radio = r
               /\ call'[c].frames = Tail(fr) /\ Len(call'[c].frames) \in 1..4
<1> DEFINE r  == call[c].radio
           fr == call[c].frames
           k  == IF Tail(fr) = <<>> THEN Rest ELSE [call[c] EXCEPT !.frames = Tail(fr)]
<1>1. /\ call \in [Callers -> Calls] /\ call[c] \in Calls /\ call[c].pc = "send"
      /\ r \in Radios /\ fr \in Seq(Commands) /\ Len(fr) \in 1..4
  BY TypesSplit DEF Calls, CallsOK, Send
<1>2. Head(fr) \in Commands /\ Tail(fr) \in Seq(Commands) /\ Len(Tail(fr)) = Len(fr) - 1
  BY <1>1, AfterTail
<1>3. device \in [Radios -> Settings]
  BY TypesSplit DEF RestOK
<1>4. Exec(device[r], Head(fr)) \in Settings
  BY <1>1, <1>2, <1>3, ExecTyped
<1>5. device' = [device EXCEPT ![r] = IF link = "up" THEN Exec(@, Head(fr)) ELSE @]
  BY DEF Send
<1>6. call' = [call EXCEPT ![c] = k]
  BY DEF Send
<1> HIDE DEF r, fr
<1>7. /\ device' \in [Radios -> Settings]
      /\ device'[r] = IF link = "up" THEN Exec(device[r], Head(fr)) ELSE device[r]
      /\ \A q \in Radios \ {r} : device'[q] = device[q]
  BY <1>1, <1>3, <1>4, <1>5
<1>8. CASE Len(fr) = 1
  <2> DEFINE t == Tail(fr)
  <2>t. t \in Seq(Commands) /\ Len(t) = Len(fr) - 1
    BY <1>2
  <2> HIDE DEF t
  <2>u. Len(t) = 0
    BY <2>t, <1>8
  <2>v. t = <<>>
    BY <2>t, <2>u, TailGone
  <2>1. Tail(fr) = <<>>
    BY <2>v DEF t
  <2>2. k = Rest
    BY <2>1
  <2> HIDE DEF k
  <2>3. call' \in [Callers -> Calls] /\ call'[c] = Rest /\ \A d \in Callers \ {c} : call'[d] = call[d]
    BY <1>1, <1>6, <2>2, RestTyped, CallPut
  <2> QED
    BY <1>1, <1>7, <1>8, <2>3, RestTyped DEF r, fr
<1>9. CASE Len(fr) # 1
  <2>1. Tail(fr) # <<>> /\ Len(Tail(fr)) \in 1..3 /\ Len(fr) > 1
    BY <1>1, <1>2, <1>9
  <2>2. k = [call[c] EXCEPT !.frames = Tail(fr)]
    BY <2>1
  <2> HIDE DEF k
  <2>3. k \in Calls /\ k.pc = call[c].pc /\ k.radio = call[c].radio /\ k.frames = Tail(fr)
    BY <1>1, <1>2, <2>2, SendingCall
  <2>4. call' \in [Callers -> Calls] /\ call'[c] = k /\ \A d \in Callers \ {c} : call'[d] = call[d]
    BY <1>1, <1>6, <2>3, CallPut
  <2>5. call'[c].frames = Tail(fr)
    BY <2>3, <2>4
  <2>6. Len(call'[c].frames) \in 1..4
    <3> HIDE DEF fr
    <3>1. Len(Tail(fr)) \in 1..4
      BY <2>1
    <3> QED
      BY <2>5, <3>1
  <2> QED
    BY <1>1, <1>7, <2>1, <2>3, <2>4, <2>5, <2>6 DEF r, fr
<1> QED
  BY <1>8, <1>9

LEMMA SeenEffect ==
  ASSUME RolesTypes, NEW r \in Radios, Seen(r)
  PROVE  /\ call' \in [Callers -> Calls]
         /\ r \in tracked => call' = call
         /\ r \notin tracked => call'[Ingest].pc = "apply" /\ call'[Ingest].radio = r
         /\ \A d \in Callers \ {Ingest} : call'[d] = call[d]
<1>1. call \in [Callers -> Calls] /\ Ingest \in Callers
  BY TypesSplit DEF CallsOK, Callers
<1>2. CASE r \in tracked
  <2>1. call' = call
    BY <1>2 DEF Seen
  <2> QED
    BY <1>1, <1>2, <2>1
<1>3. CASE r \notin tracked
  <2> DEFINE k == [Rest EXCEPT !.pc = "apply", !.radio = r]
  <2>1. call' = [call EXCEPT ![Ingest] = k]
    BY <1>3 DEF Seen
  <2>2. k \in Calls /\ k.pc = "apply" /\ k.radio = r
    BY SeenCall
  <2> HIDE DEF k
  <2> QED
    BY <1>1, <1>3, <2>1, <2>2, CallPut
<1> QED
  BY <1>2, <1>3

\* A reset or a reconnect leaves settings settings, in capture mode if they were.
LEMMA DeviceEffect ==
  ASSUME RolesTypes, NEW r \in Radios, NEW s \in Settings, device' = [device EXCEPT ![r] = s]
  PROVE  /\ device' \in [Radios -> Settings] /\ device'[r] = s
         /\ \A q \in Radios \ {r} : device'[q] = device[q]
BY TypesSplit DEF RestOK

\* One frame of the start sequence.
LEMMA StartEffect ==
  ASSUME RolesTypes, SendStart
  PROVE  /\ LoopOK'
         /\ device' \in [Radios -> Settings] /\ \A q \in Radios \ {0} : device'[q] = device[q]
         /\ spoilt' \subseteq spoilt \cup {0} /\ spoilt \subseteq spoilt'
         /\ roles[0] = None \/ 0 \in spoilt' \/ (device' = device /\ spoilt' = spoilt)
<1> DEFINE fr == loop.frames
<1>1. /\ loop \in Loops /\ fr \in Seq(Commands) /\ fr # <<>> /\ loop.rounds \in 0..StartRounds
      /\ loop.rounds # 0 /\ device \in [Radios -> Settings] /\ loop.pc = "send"
  BY TypesSplit, LoopTyped DEF SendStart, RestOK, LoopOK
<1>2. Head(fr) \in Commands /\ Tail(fr) \in Seq(Commands)
  BY <1>1
<1>3. Exec(device[0], Head(fr)) \in Settings
  BY <1>1, <1>2, ExecTyped
<1>4. /\ device' = [device EXCEPT ![0] = IF link = "up" THEN Exec(@, Head(fr)) ELSE @]
      /\ spoilt' = IF roles[0] # None /\ device'[0] # device[0] THEN spoilt \cup {0} ELSE spoilt
      /\ loop' = IF Tail(fr) # <<>> THEN [loop EXCEPT !.frames = Tail(fr)]
                 ELSE IF loop.rounds > 1
                 THEN [loop EXCEPT !.rounds = @ - 1, !.frames = StartRound]
                 ELSE LoopWaits
  BY DEF SendStart
<1>5. device' \in [Radios -> Settings] /\ \A q \in Radios \ {0} : device'[q] = device[q]
  BY <1>1, <1>3, <1>4
<1>6. LoopOK'
  <2>1. CASE Tail(fr) # <<>>
    <3> HIDE DEF fr
    <3>1. loop' \in Loops /\ loop'.frames = Tail(fr) /\ loop'.rounds = loop.rounds
      BY <1>1, <1>2, <1>4, <2>1 DEF Loops
    <3> QED
      BY <1>1, <2>1, <3>1 DEF LoopOK
  <2>2. CASE Tail(fr) = <<>> /\ loop.rounds > 1
    <3>1. loop' = [loop EXCEPT !.rounds = @ - 1, !.frames = StartRound]
      BY <1>4, <2>2
    <3>2. loop.rounds - 1 \in 0..StartRounds /\ loop.rounds - 1 # 0
      BY <1>1, <2>2
    <3>3. loop' \in Loops /\ loop'.frames = StartRound /\ loop'.rounds = loop.rounds - 1
      BY <1>1, <3>1, <3>2, RoundTyped DEF Loops
    <3> QED
      BY <3>2, <3>3, RoundTyped DEF LoopOK
  <2>3. CASE Tail(fr) = <<>> /\ ~(loop.rounds > 1)
    BY <1>4, <2>3, WaitsTyped DEF LoopOK
  <2> QED
    BY <2>1, <2>2, <2>3
<1>7. roles[0] = None \/ 0 \in spoilt' \/ (device' = device /\ spoilt' = spoilt)
  <2>1. CASE device'[0] = device[0]
    BY <1>1, <1>4, <1>5, <2>1
  <2> QED
    BY <1>4, <2>1
<1> QED
  BY <1>4, <1>5, <1>6, <1>7

LEMMA LookUpEffect ==
  ASSUME RolesTypes, LookUpPrimary
  PROVE  LoopOK'
<1> DEFINE k == [pc |-> "send", rounds |-> StartRounds, frames |-> StartRound]
<1>1. k \in Loops /\ k.frames = StartRound /\ k.rounds # 0
  BY RoundTyped DEF Loops, LoopPcs
<1>2. loop' = LoopWaits \/ loop' = k
  BY DEF LookUpPrimary
<1> HIDE DEF k
<1> QED
  BY <1>1, <1>2, WaitsTyped, RoundTyped DEF LoopOK

LEMMA ReconnectEffect ==
  ASSUME RolesTypes, Reconnect
  PROVE  LoopOK'
<1>1. loop \in Loops /\ loop' = [loop EXCEPT !.pc = "opened"]
  BY TypesSplit DEF RestOK, LoopOK, Reconnect
<1>2. loop' \in Loops /\ loop'.pc = "opened"
  BY <1>1 DEF Loops, LoopPcs
<1> QED
  BY <1>2 DEF LoopOK

LEMMA BootTyped == ASSUME NEW s \in Settings PROVE Boot(s) \in Settings /\ Boot(s).mode = "capture"
BY DEF Boot, Settings, Modes, Dwells

--------------------------------------------------------------------------------
(* The types are kept, however the calls interleave                               *)

LEMMA RolesTypesStep == RolesTypes /\ [Next]_vars => RolesTypes'
<1> SUFFICES ASSUME RolesTypes, [Next]_vars PROVE RestOK' /\ CallsOK'
  BY TypesSplitNext
<1>0. RestOK /\ CallsOK /\ (loop' = loop => LoopOK')
  BY TypesSplit DEF RestOK, LoopOK
<1>1. ASSUME NEW c \in Requests, NEW r \in Radios, NEW role \in AskRoles \cup {None}, Ask(c, r, role)
      PROVE  RestOK' /\ CallsOK'
  <2>1. asks' \in 0..MaxAsks
    BY <1>0, <1>1 DEF Ask, RestOK
  <2>2. c \in Callers
    BY DEF Callers
  <2> QED
    BY <1>0, <1>1, <2>1, <2>2, AskEffect DEF Ask, RestOK, CallsOK
<1>2. ASSUME NEW c \in Callers, Save(c) PROVE RestOK' /\ CallsOK'
  <2>1. file' \in RoleMaps
    BY <1>0, <1>2 DEF Save, CallsOK, Calls
  <2> QED
    BY <1>0, <1>2, <2>1, SaveEffect DEF Save, RestOK, CallsOK
<1>3. ASSUME NEW c \in Callers, Apply(c) PROVE RestOK' /\ CallsOK'
  <2>1. spoilt' \subseteq Radios
    BY <1>0, <1>3 DEF Apply, RestOK
  <2>2. CallsOK'
    BY <1>0, <1>3, ApplyEffect DEF CallsOK
  <2> QED
    BY <1>0, <1>3, <2>1, <2>2 DEF Apply, RestOK
<1>4. ASSUME NEW c \in Callers, Send(c) PROVE RestOK' /\ CallsOK'
  <2>1. /\ device' \in [Radios -> Settings] /\ call[c].radio \in Radios
        /\ call' \in [Callers -> Calls] /\ \A d \in Callers \ {c} : call'[d] = call[d]
    BY <1>4, SendEffect
  <2>3. call'[c].pc = "send" => Len(call'[c].frames) \in 1..4
    BY <1>4, SendEffect
  <2>4. CallsOK'
    BY <1>0, <2>1, <2>3 DEF CallsOK
  <2>2. spoilt' \subseteq Radios
    BY <1>0, <1>4, <2>1 DEF Send, RestOK
  <2> QED
    BY <1>0, <1>4, <2>1, <2>2, <2>4 DEF Send, RestOK
<1>5. ASSUME NEW r \in Radios, Seen(r) PROVE RestOK' /\ CallsOK'
  <2>1. CallsOK'
    BY <1>0, <1>5, SeenEffect DEF CallsOK
  <2> QED
    BY <1>0, <1>5, <2>1 DEF Seen, RestOK
<1>6. ASSUME NEW r \in Radios, SeenAnswer(r) PROVE RestOK' /\ CallsOK'
  BY <1>0, <1>6 DEF SeenAnswer, RestOK, CallsOK
<1>7. ASSUME NEW r \in Radios, FallSilent(r) PROVE RestOK' /\ CallsOK'
  BY <1>0, <1>7 DEF FallSilent, RestOK, CallsOK
<1>8. CASE List
  BY <1>0, <1>8 DEF List, RestOK, CallsOK
<1>9. ASSUME NEW r \in Radios, Reset(r) PROVE RestOK' /\ CallsOK'
  <2>1. device' \in [Radios -> Settings]
    BY <1>0, <1>9, BootTyped DEF Reset, RestOK
  <2>2. resets' \in 0..MaxResets /\ link' \in {"up", "down"}
    BY <1>0, <1>9 DEF Reset, RestOK
  <2> QED
    BY <1>0, <1>9, <2>1, <2>2 DEF Reset, RestOK, CallsOK
<1>10. CASE Drop
  BY <1>0, <1>10 DEF Drop, RestOK, CallsOK
<1>11. CASE Reconnect
  BY <1>0, <1>11, ReconnectEffect DEF Reconnect, RestOK, CallsOK
<1>14. CASE LookUpPrimary
  BY <1>0, <1>14, LookUpEffect DEF LookUpPrimary, RestOK, CallsOK
<1>15. CASE SendStart
  <2>1. LoopOK' /\ device' \in [Radios -> Settings] /\ spoilt' \subseteq Radios
    BY <1>0, <1>15, StartEffect DEF RestOK
  <2> QED
    BY <1>0, <1>15, <2>1 DEF SendStart, RestOK, CallsOK
<1>12. CASE HostRestart
  <2>1. CallsOK'
    BY <1>12, RestTyped DEF HostRestart, CallsOK
  <2>2. resets' \in 0..MaxResets
    BY <1>0, <1>12 DEF HostRestart, RestOK
  <2>3. LoopOK'
    BY <1>12, WaitsTyped DEF HostRestart, LoopOK
  <2> QED
    BY <1>0, <1>12, <2>1, <2>2, <2>3 DEF HostRestart, RestOK
<1>13. CASE UNCHANGED vars
  BY <1>0, <1>13 DEF vars, RestOK, CallsOK, LoopOK
<1> QED
  BY <1>1, <1>2, <1>3, <1>4, <1>5, <1>6, <1>7, <1>8, <1>9, <1>10, <1>11, <1>12, <1>13, <1>14, <1>15 DEF Next

\* The state of role map, tracker, calls and radios is of the types declared for
\* it, and no call sends from an empty list (applyRole).
THEOREM RolesTyped == Spec => []TypeOK
<1>1. RolesTypes => TypeOK
  BY DEF RolesTypes
<1> QED
  BY RolesTypesInit, RolesTypesStep, <1>1, PTL DEF Spec

--------------------------------------------------------------------------------
(* Calls one at a time                                                            *)

\* One goroutine at most is in setRole or applyRole.
Serial == \A c, d \in Callers : ~Idle(c) /\ ~Idle(d) => c = d

\* The file holds the roles, but for a call that is about to save them.
Saving ==
  /\ (\A c \in Callers : call[c].pc # "save") => file = roles
  /\ \A c \in Callers : call[c].pc = "save" => call[c].snap = roles

SerialInv == RolesTypes /\ Serial /\ Saving

LEMMA SerialInvInit == Init => SerialInv
<1> SUFFICES ASSUME Init PROVE Serial /\ Saving
  BY RolesTypesInit DEF SerialInv
<1>1. \A c \in Callers : call[c].pc = "idle"
  BY DEF Init, Rest
<1>2. file = roles
  BY DEF Init
<1> QED
  BY <1>1, <1>2 DEF Serial, Saving, Idle

\* A step that leaves calls, roles and file alone disturbs nothing here.
LEMMA SerialKept ==
  ASSUME Serial, Saving, call' = call, roles' = roles, file' = file
  PROVE  Serial' /\ Saving'
BY DEF Serial, Saving, Idle

LEMMA SerialInvStep == SerialInv /\ [Next /\ OneAtATime]_vars => SerialInv'
<1> SUFFICES ASSUME SerialInv, [Next /\ OneAtATime]_vars PROVE Serial' /\ Saving'
  BY RolesTypesStep DEF SerialInv
<1>0. RolesTypes /\ Serial /\ Saving /\ CallsOK
  BY TypesSplit DEF SerialInv
<1> USE DEF Serial, Saving, Idle
<1>1. ASSUME NEW c \in Requests, NEW r \in Radios, NEW role \in AskRoles \cup {None}, Ask(c, r, role),
             OneAtATime
      PROVE  Serial' /\ Saving'
  <2>1. c \in Callers /\ call'[c].pc = "save" /\ call'[c].snap = roles'
        /\ \A d \in Callers \ {c} : call'[d] = call[d]
    BY <1>0, <1>1, AskEffect DEF Callers
  <2>2. Quiet
    BY <1>1, <2>1 DEF OneAtATime, Ask
  <2> QED
    BY <2>1, <2>2 DEF Quiet
<1>2. ASSUME NEW c \in Callers, Save(c) PROVE Serial' /\ Saving'
  <2>1. call'[c].pc = "apply" /\ \A d \in Callers \ {c} : call'[d] = call[d]
    BY <1>0, <1>2, SaveEffect
  <2>2. call[c].pc = "save" /\ file' = call[c].snap /\ roles' = roles
    BY <1>2 DEF Save
  <2>3. \A d \in Callers \ {c} : call[d].pc = "idle"
    BY <1>0, <2>2
  <2> QED
    BY <1>0, <2>1, <2>2, <2>3
<1>3. ASSUME NEW c \in Callers, Apply(c) PROVE Serial' /\ Saving'
  <2>1. call'[c].pc # "save" /\ \A d \in Callers \ {c} : call'[d] = call[d]
    BY <1>0, <1>3, ApplyEffect
  <2>2. call[c].pc = "apply" /\ roles' = roles /\ file' = file
    BY <1>3 DEF Apply
  <2>3. \A d \in Callers \ {c} : call[d].pc = "idle"
    BY <1>0, <2>2
  <2> QED
    BY <1>0, <2>1, <2>2, <2>3
<1>4. ASSUME NEW c \in Callers, Send(c) PROVE Serial' /\ Saving'
  <2>1. call'[c].pc # "save" /\ \A d \in Callers \ {c} : call'[d] = call[d]
    BY <1>0, <1>4, SendEffect
  <2>2. call[c].pc = "send" /\ roles' = roles /\ file' = file
    BY <1>4 DEF Send
  <2>3. \A d \in Callers \ {c} : call[d].pc = "idle"
    BY <1>0, <2>2
  <2> QED
    BY <1>0, <2>1, <2>2, <2>3
<1>5. ASSUME NEW r \in Radios, Seen(r), OneAtATime PROVE Serial' /\ Saving'
  <2>1. roles' = roles /\ file' = file
    BY <1>5 DEF Seen
  <2>2. CASE r \in tracked
    BY <1>0, <1>5, <2>1, <2>2, SeenEffect, SerialKept
  <2>3. CASE r \notin tracked
    <3>1. call'[Ingest].pc = "apply" /\ \A d \in Callers \ {Ingest} : call'[d] = call[d]
      BY <1>0, <1>5, <2>3, SeenEffect
    <3>2. Quiet
      BY <1>5, <3>1 DEF OneAtATime, Seen, Callers
    <3> QED
      BY <1>0, <2>1, <3>1, <3>2 DEF Quiet
  <2> QED
    BY <2>2, <2>3
<1>6. ASSUME NEW r \in Radios, SeenAnswer(r) PROVE Serial' /\ Saving'
  BY <1>0, <1>6, SerialKept DEF SeenAnswer
<1>7. ASSUME NEW r \in Radios, FallSilent(r) PROVE Serial' /\ Saving'
  BY <1>0, <1>7, SerialKept DEF FallSilent
<1>8. CASE List  BY <1>0, <1>8, SerialKept DEF List
<1>9. ASSUME NEW r \in Radios, Reset(r) PROVE Serial' /\ Saving'
  BY <1>0, <1>9, SerialKept DEF Reset
<1>10. CASE Drop  BY <1>0, <1>10, SerialKept DEF Drop
<1>11. CASE Reconnect  BY <1>0, <1>11, SerialKept DEF Reconnect
<1>14. CASE LookUpPrimary  BY <1>0, <1>14, SerialKept DEF LookUpPrimary
<1>15. CASE SendStart  BY <1>0, <1>15, SerialKept DEF SendStart
<1>12. CASE HostRestart
  <2>1. \A c \in Callers : call'[c].pc = "idle"
    BY <1>12, RestTyped DEF HostRestart
  <2>2. file' = roles'
    BY <1>12 DEF HostRestart
  <2> QED
    BY <2>1, <2>2
<1>13. CASE UNCHANGED vars  BY <1>0, <1>13, SerialKept DEF vars
<1> QED
  BY <1>1, <1>2, <1>3, <1>4, <1>5, <1>6, <1>7, <1>8, <1>9, <1>10, <1>11, <1>12, <1>13, <1>14, <1>15 DEF Next

LEMMA SerialInvHolds == SerialSpec => []SerialInv
BY SerialInvInit, SerialInvStep, PTL DEF SerialSpec

\* With no call under way the config file holds the roles in use, whenever the
\* host is restarted (setRole saves its copy after it has left rolesMu).
THEOREM FileIsCurrent == SerialSpec => []RolesPersisted
<1>1. SerialInv => RolesPersisted
  BY DEF SerialInv, Saving, RolesPersisted, Quiet, Idle
<1> QED
  BY SerialInvHolds, <1>1, PTL

--------------------------------------------------------------------------------
(* A role comes into force                                                        *)

\* A tracked radio does what its role says, or some call will see to it.
SeenTo ==
  \A r \in tracked \ spoilt :
    roles[r] # None =>
      Serves(device[r], roles[r]) \/ \E c \in Callers : ~Idle(c) /\ call[c].radio = r

\* A call that sends has a role to send, and what it has left to send brings the
\* radio into it.
OnItsWay(c) ==
  LET r  == call[c].radio
      fr == call[c].frames
  IN  /\ roles[r] # None
      /\ r \notin spoilt => Serves(After(device[r], fr, Len(fr)), roles[r])
      /\ "monitor" \in AskRoles => CaptureOnly(fr)

\* The start sequence sets radio 0's mode, and "monitor" on radio 0 sets it again.
Monitors(r, s) == r = 0 \/ Captures(s, AskRoles)

ForceInv ==
  /\ SeenTo
  /\ \A c \in Callers : call[c].pc = "send" => OnItsWay(c)
  /\ \A r \in Radios : Monitors(r, device[r])

LEMMA ForceInvInit == Init => ForceInv
<1> SUFFICES ASSUME Init PROVE ForceInv
  OBVIOUS
<1>1. \A c \in Callers : call[c].pc = "idle"
  BY DEF Init, Rest
<1>2. tracked = {} /\ \A r \in Radios : device[r].mode = "capture"
  BY DEF Init
<1> QED
  BY <1>1, <1>2 DEF ForceInv, SeenTo, Captures, Monitors

\* Nothing is lost by a radio being forgotten or given up.
LEMMA ForceKept ==
  ASSUME ForceInv, call' = call, roles' = roles, device' = device,
         tracked' \ spoilt' \subseteq tracked \ spoilt, spoilt \subseteq spoilt'
  PROVE  ForceInv'
BY DEF ForceInv, SeenTo, OnItsWay, Idle, Captures, Monitors

LEMMA ForceInvStep ==
  ASSUME MonitorAlone(AskRoles)
  PROVE  SerialInv /\ ForceInv /\ [Next /\ OneAtATime]_vars => ForceInv'
<1> SUFFICES ASSUME SerialInv, ForceInv, [Next /\ OneAtATime]_vars PROVE ForceInv'
  OBVIOUS
<1>0. RolesTypes /\ Serial /\ CallsOK /\ RestOK
  BY TypesSplit DEF SerialInv
<1>1. ASSUME NEW c \in Requests, NEW r \in Radios, NEW role \in AskRoles \cup {None}, Ask(c, r, role),
             OneAtATime
      PROVE  ForceInv'
  <2>1. /\ c \in Callers /\ call'[c].pc = "save" /\ call'[c].radio = r
        /\ \A d \in Callers \ {c} : call'[d] = call[d]
        /\ \A q \in Radios \ {r} : roles'[q] = roles[q]
    BY <1>0, <1>1, AskEffect DEF Callers
  <2>2. \A d \in Callers : call[d].pc = "idle"
    BY <1>1, <2>1 DEF OneAtATime, Ask, Quiet, Idle
  <2>3. device' = device /\ tracked' = tracked /\ spoilt' = spoilt
    BY <1>1 DEF Ask
  <2>4. SeenTo'
    BY <1>0, <2>1, <2>2, <2>3 DEF ForceInv, SeenTo, Idle, RestOK
  <2>5. \A d \in Callers : call'[d].pc # "send"
    BY <2>1, <2>2
  <2> QED
    BY <2>3, <2>4, <2>5 DEF ForceInv
<1>2. ASSUME NEW c \in Callers, Save(c) PROVE ForceInv'
  <2>1. /\ call'[c].pc = "apply" /\ call'[c].radio = call[c].radio
        /\ \A d \in Callers \ {c} : call'[d] = call[d]
    BY <1>0, <1>2, SaveEffect
  <2>2. roles' = roles /\ device' = device /\ tracked' = tracked /\ spoilt' = spoilt
    BY <1>2 DEF Save
  <2> QED
    BY <2>1, <2>2 DEF ForceInv, SeenTo, OnItsWay, Idle
<1>3. ASSUME NEW c \in Callers, Apply(c) PROVE ForceInv'
  <2> DEFINE r == call[c].radio
  <2>1. \A d \in Callers \ {c} : call'[d] = call[d] /\ call[d].pc = "idle"
    BY <1>0, <1>3, ApplyEffect DEF Apply, Serial, Idle
  <2>2. roles' = roles /\ device' = device /\ tracked' = tracked
    BY <1>3 DEF Apply
  <2>3. CASE /\ roles[r] # None /\ r \in tracked
             /\ call'[c].pc = "send" /\ call'[c].radio = r
             /\ call'[c].frames = FramesFor(r, roles[r])
             /\ spoilt' = spoilt \ {r}
    <3>1. r \in Radios /\ device[r] \in Settings /\ roles[r] \in AskRoles /\ roles[r] \in Roles
      BY <1>0, <2>3 DEF RestOK, RoleMaps
    <3>2. Serves(After(device[r], FramesFor(r, roles[r]), Len(FramesFor(r, roles[r]))), roles[r])
      BY <3>1, GivenRole, RoleRuns DEF ForceInv, Monitors, Given
    <3>3. "monitor" \in AskRoles => CaptureOnly(FramesFor(r, roles[r]))
      BY <3>1, FramesTyped DEF MonitorAlone
    <3> HIDE DEF r
    <3>4. OnItsWay(c)'
      BY <2>2, <2>3, <3>2, <3>3 DEF OnItsWay
    <3>5. SeenTo'
      BY <2>1, <2>2, <2>3 DEF ForceInv, SeenTo, Idle, r
    <3> QED
      BY <2>1, <2>2, <3>4, <3>5 DEF ForceInv
  <2>4. CASE /\ roles[r] = None \/ r \notin tracked
             /\ call'[c].pc = "idle" /\ spoilt' = spoilt
    <3>1. SeenTo'
      BY <2>1, <2>2, <2>4 DEF ForceInv, SeenTo, Idle
    <3> QED
      BY <2>1, <2>2, <2>4, <3>1 DEF ForceInv
  <2> QED
    BY <1>0, <1>3, <2>3, <2>4, ApplyEffect
<1>4. ASSUME NEW c \in Callers, Send(c) PROVE ForceInv'
  <2> DEFINE r  == call[c].radio
             fr == call[c].frames
  <2>1. /\ r \in Radios /\ fr \in Seq(Commands) /\ Len(fr) \in 1..4
        /\ device'[r] = IF link = "up" THEN Exec(device[r], Head(fr)) ELSE device[r]
        /\ \A q \in Radios \ {r} : device'[q] = device[q]
        /\ \A d \in Callers \ {c} : call'[d] = call[d]
        /\ \/ Len(fr) = 1 /\ call'[c].pc = "idle"
           \/ /\ Len(fr) > 1 /\ call'[c].pc = "send" /\ call'[c].radio = r
              /\ call'[c].frames = Tail(fr)
    BY <1>0, <1>4, SendEffect
  <2>2. /\ roles' = roles /\ tracked' = tracked /\ call[c].pc = "send"
        /\ spoilt' = IF link = "up" THEN spoilt ELSE spoilt \cup {r}
    BY <1>4 DEF Send
  <2>3. \A d \in Callers \ {c} : call[d].pc = "idle"
    BY <1>0, <2>2 DEF Serial, Idle
  <2>4. /\ roles[r] # None
        /\ r \notin spoilt => Serves(After(device[r], fr, Len(fr)), roles[r])
        /\ "monitor" \in AskRoles => CaptureOnly(fr)
    BY <2>2 DEF ForceInv, OnItsWay
  <2>5. device[r] \in Settings /\ Monitors(r, device[r])
    BY <1>0, <2>1 DEF RestOK, ForceInv
  <2> HIDE DEF r, fr
  <2>6. /\ Tail(fr) \in Seq(Commands) /\ Len(Tail(fr)) = Len(fr) - 1
        /\ Head(fr) = fr[1] /\ Head(fr) \in Commands
        /\ \A i \in 1..Len(fr) - 1 : Tail(fr)[i] = fr[i + 1]
        /\ After(Exec(device[r], Head(fr)), Tail(fr), Len(Tail(fr))) = After(device[r], fr, Len(fr))
    BY <2>1, AfterTail
  <2>7. Monitors(r, device'[r])
    <3>1. "monitor" \in AskRoles /\ Head(fr).op = "set_mode" => Head(fr).arg = "capture"
      BY <2>1, <2>4, <2>6 DEF CaptureOnly
    <3>2. "monitor" \in AskRoles /\ r # 0 => Exec(device[r], Head(fr)).mode = "capture"
      BY <2>5, <2>6, <3>1, ExecTyped DEF Monitors, Captures
    <3> QED
      BY <2>1, <2>5, <3>2 DEF Monitors, Captures
  <2>8. \A q \in Radios : Monitors(q, device'[q])
    BY <2>1, <2>7 DEF ForceInv
  <2>9. r \notin spoilt' => Serves(After(device'[r], Tail(fr), Len(Tail(fr))), roles[r])
    BY <2>1, <2>2, <2>4, <2>6
  <2>10. "monitor" \in AskRoles => CaptureOnly(Tail(fr))
    BY <2>1, <2>4, <2>6 DEF CaptureOnly
  <2>11. CASE Len(fr) = 1 /\ call'[c].pc = "idle"
    <3>1. r \notin spoilt' => Serves(device'[r], roles[r])
      BY <2>6, <2>9, <2>11 DEF After
    <3>2. SeenTo'
      BY <1>0, <2>1, <2>2, <2>3, <2>11, <3>1 DEF ForceInv, SeenTo, Idle, RestOK, r
    <3> QED
      BY <2>1, <2>3, <2>8, <2>11, <3>2 DEF ForceInv
  <2>12. CASE /\ Len(fr) > 1 /\ call'[c].pc = "send" /\ call'[c].radio = r
              /\ call'[c].frames = Tail(fr)
    <3>1. OnItsWay(c)'
      BY <2>2, <2>4, <2>9, <2>10, <2>12 DEF OnItsWay
    <3>2. SeenTo'
      BY <1>0, <2>1, <2>2, <2>3, <2>12 DEF ForceInv, SeenTo, Idle, RestOK, r
    <3> QED
      BY <2>1, <2>3, <2>8, <3>1, <3>2 DEF ForceInv
  <2> QED
    BY <2>1, <2>11, <2>12
<1>5. ASSUME NEW r \in Radios, Seen(r), OneAtATime PROVE ForceInv'
  <2>1. roles' = roles /\ device' = device /\ spoilt' = spoilt /\ tracked' = tracked \cup {r}
    BY <1>5 DEF Seen
  <2>2. CASE r \in tracked
    <3>1. call' = call
      BY <1>0, <1>5, <2>2, SeenEffect
    <3> QED
      BY <2>1, <2>2, <3>1, ForceKept
  <2>3. CASE r \notin tracked
    <3>1. /\ call'[Ingest].pc = "apply" /\ call'[Ingest].radio = r
          /\ \A d \in Callers \ {Ingest} : call'[d] = call[d]
      BY <1>0, <1>5, <2>3, SeenEffect
    <3>2. \A d \in Callers : call[d].pc = "idle"
      BY <1>5, <3>1 DEF OneAtATime, Seen, Callers, Quiet, Idle
    <3>3. Ingest \in Callers
      BY DEF Callers
    <3>4. SeenTo'
      BY <2>1, <3>1, <3>2, <3>3 DEF ForceInv, SeenTo, Idle
    <3> QED
      BY <2>1, <3>1, <3>2, <3>4 DEF ForceInv
  <2> QED
    BY <2>2, <2>3
<1>6. ASSUME NEW r \in Radios, SeenAnswer(r) PROVE ForceInv'
  BY <1>6, ForceKept DEF SeenAnswer
<1>7. ASSUME NEW r \in Radios, FallSilent(r) PROVE ForceInv'
  BY <1>7, ForceKept DEF FallSilent
<1>8. CASE List
  BY <1>8, ForceKept DEF List
<1>9. ASSUME NEW r \in Radios, Reset(r) PROVE ForceInv'
  <2>1. /\ device' = [device EXCEPT ![r] = Boot(device[r])] /\ spoilt' = spoilt \cup {r}
        /\ roles' = roles /\ tracked' = tracked /\ call' = call
    BY <1>9 DEF Reset
  <2>2. device[r] \in Settings
    BY <1>0 DEF RestOK
  <2>3. /\ device'[r].mode = "capture"
        /\ \A q \in Radios \ {r} : device'[q] = device[q]
    BY <1>0, <2>1, <2>2, BootTyped, DeviceEffect
  <2>4. \A q \in Radios : Monitors(q, device'[q])
    BY <2>3 DEF ForceInv, Monitors, Captures
  <2>5. \A c \in Callers : call[c].radio \in Radios
    BY <1>0 DEF CallsOK, Calls
  <2>6. SeenTo'
    BY <1>0, <2>1, <2>3 DEF ForceInv, SeenTo, Idle, RestOK
  <2>7. ASSUME NEW c \in Callers, call'[c].pc = "send" PROVE OnItsWay(c)'
    BY <2>1, <2>3, <2>5, <2>7 DEF ForceInv, OnItsWay
  <2> QED
    BY <2>4, <2>6, <2>7 DEF ForceInv
<1>10. CASE Drop
  BY <1>10, ForceKept DEF Drop
<1>11. CASE Reconnect
  BY <1>11, ForceKept DEF Reconnect
<1>14. CASE LookUpPrimary
  BY <1>14, ForceKept DEF LookUpPrimary
<1>15. CASE SendStart
  <2>1. roles' = roles /\ tracked' = tracked /\ call' = call
    BY <1>15 DEF SendStart
  <2>2. /\ \A q \in Radios \ {0} : device'[q] = device[q]
        /\ spoilt \subseteq spoilt'
        /\ roles[0] = None \/ 0 \in spoilt' \/ (device' = device /\ spoilt' = spoilt)
    BY <1>0, <1>15, StartEffect
  <2>3. CASE device' = device /\ spoilt' = spoilt
    BY <2>1, <2>3, ForceKept
  <2>4. CASE roles[0] = None \/ 0 \in spoilt'
    <3>1. \A q \in Radios : Monitors(q, device'[q])
      BY <2>2 DEF ForceInv, Monitors
    <3>2. SeenTo'
      BY <1>0, <2>1, <2>2, <2>4 DEF ForceInv, SeenTo, Idle, RestOK
    <3>3. \A c \in Callers : call[c].radio \in Radios
      BY <1>0 DEF CallsOK, Calls
    <3>4. ASSUME NEW c \in Callers, call'[c].pc = "send" PROVE OnItsWay(c)'
      BY <2>1, <2>2, <2>4, <3>3, <3>4 DEF ForceInv, OnItsWay
    <3> QED
      BY <3>1, <3>2, <3>4 DEF ForceInv
  <2> QED
    BY <2>2, <2>3, <2>4
<1>12. CASE HostRestart
  <2>1. \A c \in Callers : call'[c].pc = "idle"
    BY <1>12, RestTyped DEF HostRestart
  <2>2. tracked' = {} /\ device' = device
    BY <1>12 DEF HostRestart
  <2> QED
    BY <2>1, <2>2 DEF ForceInv, SeenTo
<1>13. CASE UNCHANGED vars
  BY <1>13, ForceKept DEF vars
<1> QED
  BY <1>1, <1>2, <1>3, <1>4, <1>5, <1>6, <1>7, <1>8, <1>9, <1>10, <1>11, <1>12, <1>13, <1>14, <1>15 DEF Next

\* With no call under way every radio the host tracks does what its role says,
\* unless the role was lost on the way (applyRole, Tracker.Saw and the ingest
\* loop), through any number of silences, resets, lost links and restarts.
THEOREM RolesInForce == ASSUME MonitorAlone(AskRoles) PROVE SerialSpec => []RoleInForce
<1>1. SerialInv /\ ForceInv => RoleInForce
  BY DEF ForceInv, SeenTo, RoleInForce, Quiet
<1> QED
  BY SerialInvHolds, ForceInvInit, ForceInvStep, <1>1, PTL DEF SerialSpec
================================================================================
