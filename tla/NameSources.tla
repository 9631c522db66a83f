----------------------------- MODULE NameSources -----------------------------
(* The pollers that fill the name registry: HAManager (names/ha.go) and        *)
(* HueManager (names/hue.go).  Connect starts a goroutine that fetches, shows  *)
(* what came of it and waits for the next round; the one started before is     *)
(* cancelled and ends when it next waits.  Until then both write the status    *)
(* and the registry.                                                           *)
(*                                                                             *)
(* A target is an address with its token or key.  Calls of Connect follow each *)
(* other: they are the operator's.                                             *)
EXTENDS NameRegistry

CONSTANTS
  HATargets, Bridges,  \* what Connect may be given
  Nowhere,             \* the empty address that forgets a bridge
  Answers,             \* what each target tells: a first and a second answer
  MaxConnects          \* bound: calls of Connect

ASSUME SourcesAssumption ==
  /\ Nowhere \notin HATargets \cup Bridges /\ HATargets \cap Bridges = {}
  /\ DOMAIN Answers = HATargets \cup Bridges /\ MaxConnects \in Nat

VARIABLES
  reg,       \* the registry
  pollers,   \* every goroutine Connect started: target, phase, cancelled or not
  want,      \* the target of the last Connect, by kind of source
  shown,     \* the status: whose it is, and whether connected
  token      \* HAManager.refresh, a channel of one slot
sourceVars == <<pollers, want, shown, token>>
namesVars == <<reg, sourceVars>>

Kinds == {"ha", "hue"}
KindOf(t) == IF t \in HATargets THEN "ha" ELSE "hue"
Offline(t) == [of |-> t, connected |-> FALSE]

NoSource == [k \in Kinds |-> Nowhere]
NothingShown == [k \in Kinds |-> Offline(Nowhere)]

SourcesInit == pollers = <<>> /\ token = FALSE /\ want = NoSource /\ shown = NothingShown
\* The process starts anew; what it connects to by itself are calls of Connect.
SourcesRestart == pollers' = <<>> /\ token' = FALSE /\ want' = NoSource /\ shown' = NothingShown

-------------------------------------------------------------------------------
Is(i, phase) == pollers[i].phase = phase
Goto(i, phase) == pollers' = [pollers EXCEPT ![i].phase = phase]
Show(i, on) == shown' = [shown EXCEPT ![KindOf(pollers[i].of)] =
                           [of |-> pollers[i].of, connected |-> on]]

\* A poller of the same kind is cancelled; without an address none is started.
Connect(t) ==
  /\ Len(pollers) < MaxConnects
  /\ LET kind == KindOf(t)
         old == [i \in DOMAIN pollers |->
                   [pollers[i] EXCEPT !.cancelled = @ \/ KindOf(pollers[i].of) = kind]]
     IN /\ pollers' = IF t = Nowhere THEN old
                      ELSE Append(old, [of |-> t, phase |-> "first", cancelled |-> FALSE])
        /\ want' = [want EXCEPT ![kind] = t]
        /\ shown' = [shown EXCEPT ![kind] = Offline(t)]
  /\ UNCHANGED <<reg, token>>

\* Only Home Assistant's client is given the context that a cancel ends.
Cut(i) == pollers[i].cancelled /\ pollers[i].of \in HATargets

\* The first request of a fetch: devices, or lights.
First(i) ==
  /\ Is(i, "first") /\ ~Cut(i)
  /\ LET a == Answers[pollers[i].of].first
     IN reg' = IF pollers[i].of \in HATargets THEN LoadDevices(reg, a) ELSE LoadBridge(reg, a)
  /\ Goto(i, "second") /\ UNCHANGED <<want, shown, token>>
\* The second: rooms, without which Home Assistant's fetch succeeds all the
\* same, or sensors.
Second(i) ==
  /\ Is(i, "second") /\ ~Cut(i)
  /\ LET a == Answers[pollers[i].of].second
     IN reg' = IF pollers[i].of \in HATargets THEN LoadAreas(reg, a) ELSE LoadBridge(reg, a)
  /\ Goto(i, "told") /\ UNCHANGED <<want, shown, token>>
Without(i) ==
  /\ Is(i, "second") /\ pollers[i].of \in HATargets
  /\ Goto(i, "told") /\ UNCHANGED <<reg, want, shown, token>>

\* A fetch is done.
Fetched(i) == /\ Is(i, "told")
              /\ Goto(i, "wait") /\ Show(i, TRUE) /\ UNCHANGED <<reg, want, token>>
Failed(i) ==
  /\ Is(i, "first") \/ (Is(i, "second") /\ pollers[i].of \in Bridges)
  /\ Goto(i, "wait") /\ Show(i, FALSE) /\ UNCHANGED <<reg, want, token>>

\* A variant of MayEnd: the cancel is not looked at.
NeverEnds(i) == FALSE
MayEnd(i) == Is(i, "wait") /\ pollers[i].cancelled

\* What ends the wait: the cancel, the timer, or a token, which a cancelled
\* poller may take before it notices.
End(i) == MayEnd(i) /\ Goto(i, "done") /\ UNCHANGED <<reg, want, shown, token>>
Again(i) ==
  /\ Is(i, "wait")
  /\ \/ ~pollers[i].cancelled /\ UNCHANGED token
     \/ token /\ pollers[i].of \in HATargets /\ token' = FALSE
  /\ Goto(i, "first") /\ UNCHANGED <<reg, want, shown>>

Refresh == token' = TRUE /\ UNCHANGED <<reg, pollers, want, shown>>

Poll(i) == First(i) \/ Second(i) \/ Without(i) \/ Fetched(i) \/ Failed(i) \/ Again(i)
NamesNext ==
  \/ \E t \in HATargets \cup Bridges \cup {Nowhere} : Connect(t)
  \/ \E i \in DOMAIN pollers : Poll(i) \/ End(i)
  \/ Refresh

\* A fetch ends, with an answer or without (Hue's client gives up after 8 s, a
\* lost connection to Home Assistant is noticed), and the timer of 30 s fires;
\* of several things ready a select picks one at random, so that the cancel is
\* not passed over for ever.
NamesFairness == \A i \in 1..MaxConnects :
  /\ WF_namesVars(i \in DOMAIN pollers /\ Poll(i))
  /\ SF_namesVars(i \in DOMAIN pollers /\ End(i))

-------------------------------------------------------------------------------
NamesTypeOK ==
  /\ \A i \in DOMAIN pollers :
       /\ pollers[i].of \in HATargets \cup Bridges
       /\ pollers[i].phase \in {"first", "second", "told", "wait", "done"}
  /\ \A k \in Kinds : \A i, j \in {x \in DOMAIN pollers : KindOf(pollers[x].of) = k} :
       i # j => pollers[i].cancelled \/ pollers[j].cancelled

\* Once the operator stops changing where names come from, the status is in the
\* end always that of the target connected last, never again that of a poller
\* left over (Connect in names/ha.go and names/hue.go).  A forgotten bridge is
\* excepted: its last fetch shows it connected once more, and nothing after.
StatusSettles == <>[](\A k \in Kinds : want[k] # Nowhere => shown[k].of = want[k])
===============================================================================
