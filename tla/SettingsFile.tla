----------------------------- MODULE SettingsFile -----------------------------
(* The settings of the host (config/config.go, config/secret.go): how they     *)
(* reach the file and come back, what a start makes of file, flags and the ZHA *)
(* backup (main.go), and the requests that change them.  Saves exclude each    *)
(* other (cfgMu) and are one step; the process may die in the middle of one.   *)
(*                                                                             *)
(* Of the settings those are kept that differ in how they are treated: a       *)
(* secret that only the file holds (hue), one the backup and a flag also give  *)
(* (key), a number the backup fills in (channel), one it fills in once (pan),  *)
(* a preference of the UI (pref), and whether there is a backup.               *)
EXTENDS Naturals

CONSTANTS
  Backup0,   \* what the ZHA backup holds: key, channel and pan
  Hexes,     \* keys of 32 hex digits
  MaxEdits   \* bound: starts and requests

ASSUME SettingsAssumption ==
  Backup0.key \in Hexes /\ "" \notin Hexes /\ MaxEdits \in Nat

VARIABLES
  runs,     \* whether the process runs
  conf,     \* Config in memory
  seal,     \* Config.secretKey, Unsealed if there is none
  file,     \* the file: secrets sealed, or in the clear
  sidecar,  \* the key file next to it, Unsealed if there is none
  force,    \* the key and the PAN in force (Runtime)
  kept,     \* the settings saved last (history variable)
  harmed,   \* a save was cut short, or the key file was not read (history variable)
  edits     \* starts and requests so far
settingsVars == <<runs, conf, seal, file, sidecar, force, kept, harmed, edits>>

Unsealed == 0
Malformed == "malformed"   \* what is typed in for a key and is none
Quoted == "say 'so'"       \* a preference with double quotes in it
Unquoted == "say so"
Blank == [hue |-> "", channel |-> 0, key |-> "", backup |-> FALSE, pan |-> 0, pref |-> ""]

-------------------------------------------------------------------------------
\* encryptField, decryptField: a secret in the file is a seal and a value.
Encrypt(k, v) == [by |-> IF v = "" THEN Unsealed ELSE k, of |-> v]
Decrypt(k, s) == IF s.by \in {Unsealed, k} THEN s.of ELSE ""

\* quote, and Trim in Load: double quotes do not survive.
AsText(v) == IF v = Quoted THEN Unquoted ELSE v

Written(c, k) == [c EXCEPT !.hue = Encrypt(k, @), !.key = Encrypt(k, @), !.pref = AsText(@)]
ReadBack(f, k) == [f EXCEPT !.hue = Decrypt(k, @), !.key = Decrypt(k, @)]

\* The lines of a file follow each other as Save writes them.
Line == [hue |-> 1, channel |-> 2, key |-> 3, backup |-> 4, pan |-> 5, pref |-> 6]
Truncated(f, n) == [x \in DOMAIN f |-> IF Line[x] <= n THEN f[x] ELSE Written(Blank, Unsealed)[x]]

SettingsInit ==
  /\ runs = FALSE /\ conf = Blank /\ seal = Unsealed /\ file = Written(Blank, Unsealed)
  /\ sidecar = Unsealed /\ force = [key |-> "", pan |-> 0]
  /\ kept = Blank /\ harmed = FALSE /\ edits = 0

Edit == edits < MaxEdits /\ edits' = edits + 1
Save(c) == conf' = c /\ file' = Written(c, seal') /\ kept' = c

-------------------------------------------------------------------------------
\* loadOrCreateKey: a key file that cannot be read is replaced, or, when that
\* fails too, done without.
LoadKey(readable, writable) ==
  /\ seal' = IF readable /\ sidecar # Unsealed THEN sidecar
             ELSE IF writable THEN sidecar + 1 ELSE Unsealed
  /\ sidecar' = IF seal' = Unsealed THEN sidecar ELSE seal'
  /\ harmed' = (harmed \/ (sidecar # Unsealed /\ ~readable))

\* A variant of HomePan: the backup goes before what was saved.
BackupPan(c, info) == IF info.pan # 0 THEN info.pan ELSE c.pan
HomePan(c, info) == IF c.pan # 0 THEN c.pan ELSE info.pan

\* main(): flags before the file, the file before the backup; what came of it is
\* saved at once.  A malformed key ends the process before that.
StartHost(flags, readable, writable) ==
  /\ ~runs /\ Edit /\ LoadKey(readable, writable)
  /\ LET c == ReadBack(file, seal')
         backed == c.backup \/ flags.backup
         info == IF backed THEN Backup0 ELSE [key |-> "", channel |-> 0, pan |-> 0]
         hex == IF flags.key # "" THEN flags.key ELSE c.key
         channel == IF c.channel # 0 THEN c.channel ELSE info.channel
         pan == HomePan(c, info)
     IN IF hex \in Hexes \cup {""}
        THEN /\ runs' = TRUE
             /\ Save([c EXCEPT !.channel = channel, !.pan = pan, !.key = hex, !.backup = backed])
             /\ force' = [key |-> IF hex # "" THEN hex ELSE info.key, pan |-> pan]
        ELSE UNCHANGED <<runs, conf, file, force, kept>>

Change(c, inForce) == /\ runs /\ Edit /\ UNCHANGED <<runs, seal, sidecar, harmed>>
                      /\ Save(c) /\ force' = inForce

\* What is no hex leaves the key in force alone, hex of another length clears
\* it; both are saved all the same.
SetKey(k) == \E now \in IF k = Malformed THEN {force.key, ""} ELSE {k} :
  Change([conf EXCEPT !.key = k], [force EXCEPT !.key = now])
HomeNetwork(p) == Change([conf EXCEPT !.pan = p], [force EXCEPT !.pan = p])
SaveChannel(c) == Change([conf EXCEPT !.channel = c], force)
SavePref(v) == Change([conf EXCEPT !.pref = v], force)
HuePair(h) == Change([conf EXCEPT !.hue = h], force)
HueForget == Change([conf EXCEPT !.hue = ""], force)
\* The PAN is not among what a factory reset clears.
ResetSettings == Change([Blank EXCEPT !.pan = conf.pan], force)

QuitHost == runs /\ runs' = FALSE
            /\ UNCHANGED <<conf, seal, file, sidecar, force, kept, harmed, edits>>
\* The process dies in a save: WriteFile has truncated the file.
DieSaving(n) ==
  /\ runs /\ runs' = FALSE /\ harmed' = TRUE
  /\ file' = Truncated(file, n)
  /\ UNCHANGED <<conf, seal, sidecar, force, kept, edits>>

NoFlags == [key |-> "", backup |-> FALSE]
RestartHost == StartHost(NoFlags, TRUE, TRUE)
SettingsNext ==
  \/ \E k \in Hexes \cup {""}, backup, readable, writable \in BOOLEAN :
       StartHost([key |-> k, backup |-> backup], readable, writable)
  \/ \E k \in Hexes \cup {"", Malformed} : SetKey(k)
  \/ \E p \in {100, 300} : HomeNetwork(p)
  \/ SaveChannel(15)
  \/ \E v \in {"", "dark", Quoted} : SavePref(v)
  \/ HuePair("hue") \/ HueForget \/ ResetSettings \/ QuitHost
  \/ \E n \in 0..5 : DieSaving(n)

-------------------------------------------------------------------------------
SettingsTypeOK ==
  /\ runs \in BOOLEAN /\ harmed \in BOOLEAN /\ seal \in {Unsealed, sidecar}
  /\ force.key \in Hexes \cup {""} /\ conf.key \in Hexes \cup {"", Malformed}
  /\ file.hue.by <= sidecar /\ file.key.by <= sidecar

\* A start without flags finds every setting as it was last saved, whatever the
\* starts before were given, and the network that is ours stays ours, whatever
\* the backup says (the comment on PanID in config.go).  Excepted are a save cut
\* short, a key file that could not be read once, quotes in a preference, and a
\* malformed key, after which there is no such start.
SettingsSurvive == [][
  RestartHost /\ runs' /\ ~harmed =>
    /\ conf' = [kept EXCEPT !.pref = conf'.pref]
    /\ kept.pref # Quoted => conf'.pref = kept.pref
    /\ force.pan # 0 => force'.pan = force.pan]_settingsVars
===============================================================================
