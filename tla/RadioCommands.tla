--------------------------- MODULE RadioCommands ---------------------------
(***************************************************************************)
(* The commands a radio understands and what each does to its settings.    *)
(* handle_command in usb-sniffer/app_main.c and on_command in              *)
(* satellite/app_main.c agree on the ones here.  A radio's settings are    *)
(* the flags its main loop reads: the mode (s_mode), whether capture was   *)
(* started (s_running in radio_capture.c), the hop dwell (s_hop_dwell_ms;  *)
(* 0 pins the radio to its channel) and the channel (s_channel).           *)
(***************************************************************************)
EXTENDS Naturals, Sequences

CONSTANTS
  Home,      \* the channel of the operator's own network
  Foreign    \* the channel of a network a monitor role watches

ASSUME ChannelAssumption == Home # Foreign

Modes    == {"idle", "capture", "ed", "sdr"}
Dwells   == {0, 20, 300}
Channels == {Home, Foreign}

Settings == [mode : Modes, running : BOOLEAN, dwell : Dwells, channel : Channels]

SetMode(m)    == [op |-> "set_mode", arg |-> m]
SetHop(d)     == [op |-> "set_hop", arg |-> d]
SetChannel(c) == [op |-> "set_channel", arg |-> c]
Start         == [op |-> "start"]
Stop          == [op |-> "stop"]
SdrConfig     == [op |-> "sdr_config"]   \* sweep parameters only

Commands == {SetMode(m) : m \in Modes} \cup {SetHop(d) : d \in Dwells}
            \cup {SetChannel(c) : c \in Channels} \cup {Start, Stop, SdrConfig}

\* A variant: the hop dwell is taken in ticks of 10 ms.
ExecTicks(s, cmd) ==
  CASE cmd.op = "set_mode"    -> [s EXCEPT !.mode = cmd.arg]
    [] cmd.op = "set_hop"     -> [s EXCEPT !.dwell = cmd.arg \div 10]
    [] cmd.op = "set_channel" -> [s EXCEPT !.channel = cmd.arg]
    [] cmd.op = "start"       -> [s EXCEPT !.running = TRUE]
    [] cmd.op = "stop"        -> [s EXCEPT !.running = FALSE]
    [] cmd.op = "sdr_config"  -> s

\* The settings after command cmd.  CMD_STOP leaves the mode alone.
Exec(s, cmd) ==
  CASE cmd.op = "set_mode"    -> [s EXCEPT !.mode = cmd.arg]
    [] cmd.op = "set_hop"     -> [s EXCEPT !.dwell = cmd.arg]
    [] cmd.op = "set_channel" -> [s EXCEPT !.channel = cmd.arg]
    [] cmd.op = "start"       -> [s EXCEPT !.running = TRUE]
    [] cmd.op = "stop"        -> [s EXCEPT !.running = FALSE]
    [] cmd.op = "sdr_config"  -> s

\* app_main() after a reset: capture mode and running, hopping off (mode and
\* dwell are never saved, so flash holds the defaults); the channel is kept.
Boot(s) == [mode |-> "capture", running |-> TRUE, dwell |-> 0, channel |-> s.channel]

----------------------------------------------------------------------------
(* Roles (main.go, applyRole and its two tables).                          *)

\* "tester" sends what "sniffer" sends; "monitor" stands for "monitor:<ch>".
None  == "none"
Roles == {"sniffer", "spectrum", "hopper", "idle", "sdr", "monitor"}

\* roleFrames: for a radio with a port of its own.
RoleFrames(role) ==
  CASE role = "sniffer"  -> <<SetHop(0), SetMode("capture"), Start>>
    [] role = "spectrum" -> <<SetHop(20), SetMode("ed"), Start>>
    [] role = "hopper"   -> <<SetHop(300), SetMode("capture"), Start>>
    [] role = "idle"     -> <<SetMode("idle"), Stop>>
    [] role = "sdr"      -> <<SdrConfig, SetMode("sdr")>>
    [] role = "monitor"  -> <<SetChannel(Foreign), SetHop(0), SetMode("capture"), Start>>

\* satRoleFrames: for a satellite behind the primary.
SatRoleFrames(role) ==
  CASE role = "sniffer" -> <<SetMode("capture"), Start>>
    [] role = "monitor" -> <<SetChannel(Foreign), Start>>
    [] OTHER            -> RoleFrames(role)

\* Radio 0 is a port's own radio, every other id a satellite (radios.resolve).
FramesFor(r, role) == IF r = 0 THEN RoleFrames(role) ELSE SatRoleFrames(role)

\* stopOn: CMD_STOP or, relayed, CMD_SAT_STOP; the radio executes the same.
PauseFrame == Stop

\* What a radio in a role does: the mode it runs and whether it listens.
Serves(s, role) ==
  CASE role = "sniffer"  -> s.mode = "capture" /\ s.running
    [] role = "spectrum" -> s.mode = "ed" /\ s.dwell = 20
    [] role = "hopper"   -> s.mode = "capture" /\ s.running /\ s.dwell = 300
    [] role = "idle"     -> s.mode = "idle" /\ ~s.running
    [] role = "sdr"      -> s.mode = "sdr"
    [] role = "monitor"  -> s.mode = "capture" /\ s.running /\ s.channel = Foreign
=============================================================================
