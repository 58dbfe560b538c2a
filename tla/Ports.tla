------------------------------- MODULE Ports --------------------------------
(***************************************************************************)
(* Choosing a port for an instance.  Each port is tried by binding it, one *)
(* after the other, while other programs bind ports and let go of them.    *)
(***************************************************************************)
EXTENDS Naturals

CONSTANTS
    Top,                \* the highest port there is, 65535
    Reserved,           \* the port of the installation beside us, 3080
    DEFAULT_BASE_PORT,  \* the lowest port to try, 3081
    MAX_PROBES,         \* how many ports are tried
    NoPort,             \* no preference, no port chosen
    Bases, Claims,      \* base_port, and the ports of instances, in a run
    MaxChanges          \* bound on what other programs bind and let go of

PortNumbers == 0..Top

\* Nothing is bound to port 0.
Bindable == PortNumbers \ {0}

ASSUME PortsAssumption ==
    /\ Top \in Nat /\ MAX_PROBES \in Nat
    /\ Reserved \in Nat /\ DEFAULT_BASE_PORT \in Nat
    /\ Reserved < DEFAULT_BASE_PORT
    /\ NoPort \notin PortNumbers
    /\ Bases \subseteq PortNumbers
    /\ Claims \subseteq SUBSET PortNumbers
    /\ MaxChanges \in Nat

VARIABLES
    preferred, base, claims,    \* what allocate is asked
    at,         \* "ask", "prefer", "scan" or "done"
    offset,     \* how many ports have been tried
    chosen,     \* the port, or NoPort
    busy,       \* the ports other programs are bound to
    wasBusy,    \* those that were busy at some moment since the call began
    stayedBusy, \* those that were busy at every moment since then
    changes

question == <<preferred, base, claims>>
world    == <<busy, wasBusy, stayedBusy, changes>>
portVars == <<question, at, offset, chosen, world>>

PortsTyped ==
    /\ preferred \in PortNumbers \cup {NoPort}
    /\ base \in PortNumbers
    /\ claims \subseteq PortNumbers
    /\ at \in {"ask", "prefer", "scan", "done"}
    /\ offset \in Nat
    /\ chosen \in PortNumbers \cup {NoPort}
    /\ busy \subseteq PortNumbers
    /\ wasBusy \subseteq PortNumbers
    /\ stayedBusy \subseteq PortNumbers

Init ==
    /\ preferred \in Bindable \cup {NoPort}
    /\ base \in Bases
    /\ claims \in Claims
    /\ at = "ask" /\ offset = 0 /\ chosen = NoPort
    /\ busy \in SUBSET Bindable
    /\ wasBusy = busy /\ stayedBusy = busy
    /\ changes = 0

is_claimed(port) == port \in claims

is_port_free(port) == port \notin busy

\* Other programs.
Change ==
    /\ at # "done"
    /\ changes < MaxChanges
    /\ changes' = changes + 1
    /\ \E port \in Bindable :
           busy' = IF port \in busy THEN busy \ {port} ELSE busy \cup {port}
    /\ wasBusy' = wasBusy \cup busy'
    /\ stayedBusy' = stayedBusy \cap busy'
    /\ UNCHANGED <<question, at, offset, chosen>>

\* AllocationOutcome: reassigned, if it is not the preferred port.
Finish(port) == at' = "done" /\ chosen' = port

Refuse ==
    /\ at = "ask"
    /\ preferred = Reserved \/ base = Reserved
    /\ Finish(NoPort)
    /\ UNCHANGED <<question, offset, world>>

Accept ==
    /\ at = "ask"
    /\ preferred # Reserved /\ base # Reserved
    /\ at' = IF preferred = NoPort THEN "scan" ELSE "prefer"
    /\ UNCHANGED <<question, offset, chosen, world>>

Prefer ==
    /\ at = "prefer"
    /\ IF ~is_claimed(preferred) /\ is_port_free(preferred)
       THEN Finish(preferred)
       ELSE at' = "scan" /\ UNCHANGED chosen
    /\ UNCHANGED <<question, offset, world>>

start == IF base < DEFAULT_BASE_PORT THEN DEFAULT_BASE_PORT ELSE base

\* Mutant of candidate: it wraps around.
candidate_wrapping == (start + offset) % (Top + 1)

\* checked_add: above Top there is none.
candidate == start + offset

\* The ports to try are used up, or there are no more.
GiveUp ==
    /\ at = "scan"
    /\ offset >= MAX_PROBES \/ candidate > Top
    /\ Finish(NoPort)
    /\ UNCHANGED <<question, offset, world>>

Probe ==
    /\ at = "scan"
    /\ offset < MAX_PROBES /\ candidate <= Top
    /\ IF ~is_claimed(candidate) /\ is_port_free(candidate)
       THEN Finish(candidate) /\ UNCHANGED offset
       ELSE offset' = offset + 1 /\ UNCHANGED <<at, chosen>>
    /\ UNCHANGED <<question, world>>

Next == Change \/ Refuse \/ Accept \/ Prefer \/ GiveUp \/ Probe

PortsSpec == Init /\ [][Next]_portVars

-----------------------------------------------------------------------------
(* Properties.                                                             *)

\* The ports allocate may choose from, by its documentation.
Window == {port \in PortNumbers : /\ port >= base /\ port >= DEFAULT_BASE_PORT
                                  /\ \/ port < base + MAX_PROBES
                                     \/ port < DEFAULT_BASE_PORT + MAX_PROBES}

\* A port that could not be had at some moment of the call.
Taken(port) == port \in claims \cup wasBusy

(* The port handed out is no instance's, was free, and is the preferred    *)
(* one or else the lowest of the window that could be had; an error means  *)
(* that none could be, whatever other programs do in the meantime and how- *)
(* ever close to Top the window begins.  While nothing changes, this says  *)
(* exactly which port it is.                                               *)
AllocationIsRight ==
    at = "done" =>
        IF preferred = Reserved \/ base = Reserved THEN chosen = NoPort
        ELSE /\ chosen # NoPort => /\ chosen \notin claims \cup stayedBusy
                                   /\ chosen # Reserved
                                   /\ chosen \in Window \cup {preferred}
             /\ preferred \notin {NoPort, chosen} => Taken(preferred)
             /\ chosen # preferred \/ chosen = NoPort =>
                    \A port \in Window : Taken(port) \/ (chosen # NoPort /\ port >= chosen)
=============================================================================
