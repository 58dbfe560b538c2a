------------------------- MODULE RegistryDurability -------------------------
(***************************************************************************)
(* Registry on a machine that can lose power.  A rename and the data of    *)
(* the file it renames reach the device separately, in any order; only     *)
(* sync_all orders them.  The code syncs the temporary file but not the    *)
(* directory, so after a power failure router.yaml may be an older         *)
(* document; the point is that it is a whole one.                          *)
(***************************************************************************)
EXTENDS Registry

VARIABLES
    synced,     \* which temporary files have their data on the device
    fileSynced, \* whether the file now named router.yaml has
    device      \* what router.yaml would hold after a power failure

deviceVars == <<synced, fileSynced, device>>
durableVars == <<vars, deviceVars>>

DurableInit ==
    /\ Init
    /\ synced = [p \in Procs |-> FALSE]
    /\ fileSynced = TRUE
    /\ device = file

\* Mutant of Flush: save does not call sync_all.
FlushForgotten(p) == UNCHANGED synced

\* sync_all on the temporary file.
Flush(p) == synced' = [synced EXCEPT ![TempPath(p)] = TRUE]

DurableCreateTemp(p) ==
    /\ CreateTemp(p)
    /\ synced' = [synced EXCEPT ![TempPath(p)] = FALSE]
    /\ UNCHANGED <<fileSynced, device>>

DurableWriteTemp(p) ==
    /\ WriteTemp(p)
    /\ Flush(p)
    /\ UNCHANGED <<fileSynced, device>>

DurablePublish(p) ==
    /\ Publish(p)
    /\ fileSynced' = synced[TempPath(p)]
    /\ UNCHANGED <<synced, device>>

OtherSteps(p) ==
    /\ \/ Start(p) \/ GiveUp(p) \/ Acquire(p) \/ LockTimeout(p)
       \/ LoadAndEdit(p) \/ RefuseEdit(p) \/ SaveFails(p)
       \/ Release(p) \/ Finish(p) \/ Crash(p)
    /\ UNCHANGED deviceVars

\* The operating system commits the directory, whether or not the data of
\* the file the name now leads to has been written.
CommitRename ==
    /\ device' = IF fileSynced THEN file ELSE Garbage
    /\ UNCHANGED <<vars, synced, fileSynced>>

\* Every process dies; the lock file may or may not have reached the device.
PowerFailure ==
    /\ cmd' = [p \in Procs |-> NoCommand]
    /\ outcome' = [p \in Procs |-> "none"]
    /\ pc' = [p \in Procs |-> "idle"]
    /\ draft' = [p \in Procs |-> EmptyDocument]
    /\ lock' \in {Free} \cup (IF lock = Free THEN {} ELSE {Stale})
    /\ file' = device
    /\ fileSynced' = TRUE
    /\ UNCHANGED <<temp, synced, device>>

DurableNext ==
    \/ \E p \in Procs :
           \/ DurableCreateTemp(p) \/ DurableWriteTemp(p) \/ DurablePublish(p)
           \/ OtherSteps(p)
    \/ DeleteLock /\ UNCHANGED deviceVars
    \/ CommitRename
    \/ PowerFailure

DurableSpec == DurableInit /\ [][DurableNext]_durableVars

-----------------------------------------------------------------------------
(* A power failure never leaves a torn registry: what it brings back is a  *)
(* document some command saved, or what was there before the first one     *)
(* (registry.rs, save: "flush to the device before the rename").           *)
WholeAfterPowerFailure == [][device' = Garbage => device = Garbage]_durableVars
=============================================================================
