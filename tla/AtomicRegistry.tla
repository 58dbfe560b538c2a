--------------------------- MODULE AtomicRegistry ---------------------------
(***************************************************************************)
(* What the registry promises its commands: each one takes effect at a     *)
(* single instant between its start and its answer, on the document as it  *)
(* is at that instant, or not at all.  A command that dies without an      *)
(* answer may or may not have taken effect.                                *)
(***************************************************************************)
EXTENDS RegistryDocument

CONSTANTS
    Procs,          \* processes running a router command, at most one each
    InitialFiles,   \* what router.yaml may be before the first command
    NoCommand       \* "runs no command"

VARIABLES
    file,       \* the content of router.yaml
    cmd,        \* the command each process is running
    outcome     \* what it will answer, once that is decided

atomicVars == <<file, cmd, outcome>>

AtomicTypeOK ==
    /\ file \in Files
    /\ cmd \in [Procs -> Commands \cup {NoCommand}]
    /\ outcome \in [Procs -> {"none", "ok", "failed"}]

AtomicInit ==
    /\ file \in InitialFiles
    /\ cmd = [p \in Procs |-> NoCommand]
    /\ outcome = [p \in Procs |-> "none"]

\* Some command is typed, whichever.
Invoke(p) ==
    /\ cmd[p] = NoCommand
    /\ cmd'[p] \in Commands
    /\ cmd' = [cmd EXCEPT ![p] = cmd'[p]]
    /\ UNCHANGED <<file, outcome>>

\* The instant a command takes effect.
Apply(p) ==
    /\ cmd[p] # NoCommand
    /\ outcome[p] = "none"
    /\ Loadable(file)
    /\ file' \in Effects(cmd[p], file)
    /\ outcome' = [outcome EXCEPT ![p] = "ok"]
    /\ UNCHANGED cmd

Refuse(p) ==
    /\ cmd[p] # NoCommand
    /\ outcome[p] = "none"
    /\ outcome' = [outcome EXCEPT ![p] = "failed"]
    /\ UNCHANGED <<file, cmd>>

Answer(p) ==
    /\ outcome[p] # "none"
    /\ cmd' = [cmd EXCEPT ![p] = NoCommand]
    /\ outcome' = [outcome EXCEPT ![p] = "none"]
    /\ UNCHANGED file

\* Some processes die, all of them in a power failure.
Die ==
    /\ \E dead \in SUBSET Procs :
           /\ cmd' = [p \in Procs |-> IF p \in dead THEN NoCommand ELSE cmd[p]]
           /\ outcome' = [p \in Procs |-> IF p \in dead THEN "none" ELSE outcome[p]]
    /\ UNCHANGED file

AtomicNext ==
    \/ \E p \in Procs : Invoke(p) \/ Apply(p) \/ Refuse(p) \/ Answer(p)
    \/ Die

AtomicSpec == AtomicInit /\ [][AtomicNext]_atomicVars
=============================================================================
