---------------------------- MODULE DesktopShell ----------------------------
(* The desktop application (cmd/zbsniff-desktop): a window around the host,    *)
(* which it runs as a child process.  Window, signal handler, the goroutine    *)
(* that tells of a crash and the one that waits for the dashboard run beside   *)
(* each other; the host may fail to start, die, or ignore SIGTERM.             *)
EXTENDS Naturals

VARIABLES
  child,    \* the host: "none", "starting", "serving", "exited"
  window,   \* the main goroutine: "before", "spawned", "handling", "open", "closing", "gone"
  handler,  \* the signal goroutine: "none", "waiting", "stopping"
  teller,   \* the goroutine of startup: "none", "waiting", "dialog", "done"
  probe,    \* waitReady: "asking", "answered", "ready", "over"
  halt,     \* stop under stopOnce: "unasked", "flagged", "termed", "killed", "done"
  early     \* killed before the handler was installed (history variable)
shellVars == <<child, window, handler, teller, probe, halt, early>>

Running == child \in {"starting", "serving"}

ShellInit ==
  /\ child = "none" /\ window = "before" /\ handler = "none" /\ teller = "none"
  /\ probe = "over" /\ halt = "unasked" /\ early = FALSE

\* startServer: the child is started, or the window has only an error to show.
StartServer ==
  /\ window = "before" /\ window' = "spawned"
  /\ \/ child' = "starting" /\ probe' = "asking"
     \/ UNCHANGED <<child, probe>>
  /\ UNCHANGED <<handler, teller, halt, early>>
Notify ==
  /\ window = "spawned" /\ window' = "handling" /\ handler' = "waiting"
  /\ UNCHANGED <<child, teller, probe, halt, early>>
Startup ==
  /\ window = "handling" /\ window' = "open"
  /\ teller' = IF child = "none" THEN "none" ELSE "waiting"
  /\ UNCHANGED <<child, handler, probe, halt, early>>

\* waitReady looks at exited, asks, and closes ready on an answer.
WaitReady ==
  /\ \/ probe = "asking" /\ child = "serving" /\ probe' = "answered"
     \/ probe = "answered" /\ probe' = "ready"
     \/ probe = "asking" /\ child = "exited" /\ probe' = "over"
  /\ UNCHANGED <<child, window, handler, teller, halt, early>>

\* The host of its own accord, or at SIGTERM.
HostServes == /\ child = "starting" /\ child' = "serving"
              /\ UNCHANGED <<window, handler, teller, probe, halt, early>>
HostEnds == /\ Running /\ child' = "exited"
            /\ UNCHANGED <<window, handler, teller, probe, halt, early>>

-------------------------------------------------------------------------------
\* The user or the system asks the application to end; or no window opens.
Quit == /\ window \in {"handling", "open"} /\ window' = "closing"
        /\ UNCHANGED <<child, handler, teller, probe, halt, early>>
SignalShell ==
  /\ window \notin {"before", "gone"}
  /\ \/ handler = "waiting" /\ handler' = "stopping" /\ UNCHANGED <<window, early>>
     \/ handler = "none" /\ window' = "gone" /\ early' = TRUE /\ UNCHANGED handler
  /\ UNCHANGED <<child, teller, probe, halt>>

\* A variant of AfterTerm: after 5 s without an exit it is let be.
GiveUp == "done"
AfterTerm == IF Running THEN "killed" ELSE "done"

\* stop: the first caller goes through, others wait for it.
Stopping == handler = "stopping" \/ window = "closing"
Stop1 ==
  /\ window # "gone" /\ child # "none"
  /\ \/ halt = "unasked" /\ Stopping /\ halt' = "flagged" /\ UNCHANGED child
     \/ halt = "flagged" /\ halt' = (IF Running THEN "termed" ELSE "done") /\ UNCHANGED child
     \/ halt = "termed" /\ halt' = AfterTerm /\ UNCHANGED child
     \/ halt = "killed" /\ Running /\ child' = "exited" /\ UNCHANGED halt
     \/ halt = "killed" /\ child = "exited" /\ halt' = "done" /\ UNCHANGED child
  /\ UNCHANGED <<window, handler, teller, probe, early>>
Gone ==
  /\ window # "gone" /\ Stopping /\ (child = "none" \/ halt = "done") /\ window' = "gone"
  /\ UNCHANGED <<child, handler, teller, probe, halt, early>>

\* The goroutine of startup: a crash of a host that had come up is told, and
\* the application then quits.
Tell ==
  /\ window # "gone"
  /\ \/ /\ teller = "waiting" /\ child = "exited"
        /\ teller' = IF halt # "unasked" \/ probe # "ready" THEN "done" ELSE "dialog"
        /\ UNCHANGED window
     \/ /\ teller = "dialog" /\ teller' = "done"
        /\ window' = IF window = "open" THEN "closing" ELSE window
  /\ UNCHANGED <<child, handler, probe, halt, early>>

ShellNext == StartServer \/ Notify \/ Startup \/ WaitReady \/ HostServes \/ HostEnds
             \/ Quit \/ SignalShell \/ Stop1 \/ Gone \/ Tell

-------------------------------------------------------------------------------
ShellTypeOK ==
  /\ child \in {"none", "starting", "serving", "exited"}
  /\ window \in {"before", "spawned", "handling", "open", "closing", "gone"}
  /\ handler \in {"none", "waiting", "stopping"} /\ teller \in {"none", "waiting", "dialog", "done"}
  /\ probe \in {"asking", "answered", "ready", "over"} /\ early \in BOOLEAN
  /\ halt \in {"unasked", "flagged", "termed", "killed", "done"}

\* Quit from the menu, ended by a signal or by both, with the host well, slow to
\* end or crashed: the application is gone only when its host is, which would
\* be left holding the serial port (main.go).  A signal between the start of the
\* host and signal.Notify is excepted.
HostGoesWithShell == window = "gone" /\ ~early => ~Running
===============================================================================
