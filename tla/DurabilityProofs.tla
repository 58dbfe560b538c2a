-------------------------- MODULE DurabilityProofs --------------------------
(***************************************************************************)
(* What is left of the guarantees of Registry on a machine that can lose   *)
(* power: a step of RegistryDurability is a step of Registry, or a power   *)
(* failure, after which the registry is what the device has of it.         *)
(***************************************************************************)
EXTENDS RegistryDurability, RegistryProofs

USE DocumentAssumption, RegistryAssumption

LEMMA DurableSteps ==
    ASSUME [DurableNext]_durableVars
    PROVE  [Next]_vars \/ PowerFailure
BY DEF DurableNext, durableVars, DurableCreateTemp, DurableWriteTemp, DurablePublish,
       OtherSteps, CommitRename, Next, Run, Proceed

-----------------------------------------------------------------------------
(* What a rename puts in place has its data on the device, and the device  *)
(* has the registry itself or, if it loads, an older one that loads.       *)

DurableInv ==
    /\ SaveInv
    /\ synced \in [Procs -> BOOLEAN]
    /\ fileSynced
    /\ \A p \in Procs : pc[p] = "publish" => synced[p]
    /\ device = file \/ (Loadable(device) /\ Loadable(file))

LEMMA DurableInvInit == DurableInit => DurableInv
BY SaveInvInit DEF DurableInit, DurableInv, Init

(* No process survives a power failure to find itself in a phase.          *)
LEMMA PowerFailureKeepsSaveInv ==
    ASSUME DurableInv, PowerFailure
    PROVE  SaveInv'
<1>1. TypeOK'
  <2>1. file' \in Files
    BY DEF PowerFailure, DurableInv, SaveInv, TypeOK, AtomicTypeOK, Loadable, Files
  <2>2. lock' \in Procs \cup {Free, Stale}
    BY DEF PowerFailure
  <2> QED
    BY <2>1, <2>2, EmptyDocumentSound
       DEF PowerFailure, DurableInv, SaveInv, TypeOK, AtomicTypeOK, Phases
<1>2. \A p \in Procs : /\ pc'[p] = "idle" /\ cmd'[p] = NoCommand
                       /\ outcome'[p] = "none" /\ draft'[p] = EmptyDocument
  BY DEF PowerFailure
<1> QED
  BY <1>1, <1>2 DEF SaveInv, PhaseInv, Saving

LEMMA DurableInvNext == DurableInv /\ [DurableNext]_durableVars => DurableInv'
<1> SUFFICES ASSUME DurableInv, [DurableNext]_durableVars
             PROVE  DurableInv'
  OBVIOUS
<1>1. SaveInv'
  BY DurableSteps, SaveInvNext, PowerFailureKeepsSaveInv DEF DurableInv
<1>2. ASSUME NEW p \in Procs, DurableCreateTemp(p)
      PROVE  DurableInv'
  BY <1>1, <1>2 DEF DurableCreateTemp, CreateTemp, Goto, TempPath, DurableInv, SaveInv,
                    TypeOK
<1>3. ASSUME NEW p \in Procs, DurableWriteTemp(p)
      PROVE  DurableInv'
  BY <1>1, <1>3 DEF DurableWriteTemp, WriteTemp, Flush, Goto, TempPath, DurableInv,
                    SaveInv, TypeOK
<1>4. ASSUME NEW p \in Procs, DurablePublish(p)
      PROVE  DurableInv'
  <2>1. Publish(p) /\ fileSynced' = synced[p] /\ UNCHANGED <<synced, device>>
    BY <1>4 DEF DurablePublish, TempPath
  <2>2. pc[p] = "publish" /\ Loadable(file) /\ Loadable(file')
    BY <2>1, PublishSound DEF Publish, DurableInv, SaveInv, Saving
  <2>3. \A q \in Procs : pc'[q] = "publish" => pc[q] = "publish"
    BY <2>1 DEF Publish, Goto, Leave, DurableInv, SaveInv, TypeOK
  <2> QED
    BY <1>1, <2>1, <2>2, <2>3 DEF DurableInv
<1>5. ASSUME NEW p \in Procs, OtherSteps(p)
      PROVE  DurableInv'
  <2>1. UNCHANGED <<file, synced, fileSynced, device>>
    BY <1>5 DEF OtherSteps, deviceVars, Start, BeginNew, BeginEdit, BeginRm, Begin, GiveUp,
                Acquire, LockTimeout, LoadAndEdit, RefuseEdit, SaveFails, Release, Finish,
                Crash
  <2>2. \A q \in Procs : pc'[q] = "publish" => pc[q] = "publish"
    BY <1>5 DEF OtherSteps, Start, BeginNew, BeginEdit, BeginRm, Begin, GiveUp, Acquire,
                LockTimeout, LoadAndEdit, RefuseEdit, SaveFails, Release, Finish, Crash,
                Exit, Goto, Leave, DurableInv, SaveInv, TypeOK
  <2> QED
    BY <1>1, <2>1, <2>2 DEF DurableInv
<1>6. CASE DeleteLock /\ UNCHANGED deviceVars
  BY <1>1, <1>6 DEF DeleteLock, deviceVars, DurableInv
<1>7. CASE CommitRename
  BY <1>1, <1>7 DEF CommitRename, vars, DurableInv
<1>8. CASE PowerFailure
  BY <1>1, <1>8 DEF PowerFailure, DurableInv
<1>9. CASE UNCHANGED durableVars
  BY <1>1, <1>9 DEF durableVars, deviceVars, vars, DurableInv
<1> QED
  BY <1>2, <1>3, <1>4, <1>5, <1>6, <1>7, <1>8, <1>9 DEF DurableNext

(* What the device has of the registry is what it had, or what is there    *)
(* now.                                                                    *)
LEMMA DeviceHasFile ==
    ASSUME DurableInv, [DurableNext]_durableVars
    PROVE  device' \in {device, file}
<1>1. CASE CommitRename
  BY <1>1 DEF CommitRename, DurableInv
<1>2. ASSUME NEW p \in Procs, \/ DurableCreateTemp(p) \/ DurableWriteTemp(p)
                              \/ DurablePublish(p) \/ OtherSteps(p)
      PROVE  device' = device
  BY <1>2 DEF DurableCreateTemp, DurableWriteTemp, DurablePublish, OtherSteps, deviceVars
<1> QED
  BY <1>1, <1>2 DEF DurableNext, durableVars, deviceVars, PowerFailure

(* What a power failure brings back is never torn (registry.rs, save: the  *)
(* data is on the device before the rename).                               *)
THEOREM PowerFailuresTearNothing == DurableSpec => WholeAfterPowerFailure
<1>1. ASSUME DurableInv, [DurableNext]_durableVars, device' = Garbage
      PROVE  device = Garbage
  <2>1. ~Loadable(Garbage)
    BY DEF Loadable
  <2>2. device' \in {device, file}
    BY <1>1, DeviceHasFile
  <2> QED
    BY <1>1, <2>1, <2>2 DEF DurableInv
<1>2. DurableInv /\ [DurableNext]_durableVars =>
          [device' = Garbage => device = Garbage]_durableVars
  BY <1>1
<1> QED
  BY <1>2, DurableInvInit, DurableInvNext, PTL DEF DurableSpec, WholeAfterPowerFailure

LEMMA DurableInvariant == DurableSpec => []DurableInv
BY DurableInvInit, DurableInvNext, PTL DEF DurableSpec

(* A power failure may take back what was saved last, but the document it  *)
(* leaves is as whole as any a reader has seen (registry.rs, save).        *)
THEOREM ReadersSeeWholeDocumentsAfterwards == DurableSpec => WholeDocuments
<1>1. ASSUME DurableInv, [DurableNext]_durableVars, file' = Garbage
      PROVE  file = Garbage
  <2>1. ~Loadable(Garbage)
    BY DEF Loadable
  <2>2. CASE [Next]_vars
    BY <1>1, <2>2, OnlyPublishWrites, PublishSound DEF DurableInv
  <2>3. CASE PowerFailure
    BY <1>1, <2>1, <2>3 DEF PowerFailure, DurableInv
  <2> QED
    BY <1>1, <2>2, <2>3, DurableSteps
<1>2. DurableInv /\ [DurableNext]_durableVars => [file' = Garbage => file = Garbage]_vars
  BY <1>1
<1> QED
  BY <1>2, DurableInvariant, PTL DEF DurableSpec, WholeDocuments

(* And a registry that does not load is still there, as it is, after a     *)
(* power failure: no command has saved anything over it, so nothing older  *)
(* can come back (main.rs, cmd_init and load).                             *)
THEOREM LeavesUnreadableAloneThroughout == DurableSpec => UnreadableLeftAlone
<1>1. ASSUME DurableInv, [DurableNext]_durableVars, ~Loadable(file)
      PROVE  file' = file
  <2>1. CASE [Next]_vars
    <3>1. \A p \in Procs : ~Publish(p)
      BY <1>1 DEF Publish, DurableInv, SaveInv, Saving
    <3> QED
      BY <2>1, <3>1, OnlyPublishWrites
  <2>2. CASE PowerFailure
    BY <1>1, <2>2 DEF PowerFailure, DurableInv
  <2> QED
    BY <1>1, <2>1, <2>2, DurableSteps
<1>2. DurableInv /\ [DurableNext]_durableVars => [~Loadable(file) => file' = file]_vars
  BY <1>1
<1> QED
  BY <1>2, DurableInvariant, PTL DEF DurableSpec, UnreadableLeftAlone

-----------------------------------------------------------------------------
(* The lock.                                                               *)

LEMMA PowerFailureKeepsLockInv ==
    ASSUME DurableInv, PowerFailure
    PROVE  LockInv'
<1>1. \A p \in Procs : pc'[p] = "idle"
  BY DEF PowerFailure
<1> QED
  BY <1>1, PowerFailureKeepsSaveInv DEF LockInv, Holding

(* If users delete only stale lock files, commands exclude each other also *)
(* when power failures leave lock files behind (registry.rs,               *)
(* RegistryLock).                                                          *)
THEOREM LockExcludesAfterwards ==
    ASSUME CarefulUser
    PROVE  DurableSpec => []MutualExclusion
<1>1. DurableInit => LockInv
  BY LockInvInit DEF DurableInit
<1>2. LockInv /\ DurableInv /\ [DurableNext]_durableVars => LockInv'
  BY DurableSteps, LockInvNext, PowerFailureKeepsLockInv
<1>3. LockInv => MutualExclusion
  BY DEF LockInv, MutualExclusion
<1> QED
  BY <1>1, <1>2, <1>3, DurableInvariant, PTL DEF DurableSpec

(* EditInv, and what it says of router.yaml, of the device.                *)
DurableEditInv == EditInv /\ (NoFile \notin InitialFiles => device # NoFile)

LEMMA DurableEditInvariant ==
    ASSUME CarefulUser, NoInitRace
    PROVE  DurableSpec => []DurableEditInv
<1>1. DurableInit => DurableEditInv
  BY LockInvInit, NoInitInit
     DEF DurableInit, DurableEditInv, EditInv, DraftIsCurrent, Holding, Init, NoInit
<1>2. DurableEditInv /\ DurableInv /\ [DurableNext]_durableVars => DurableEditInv'
  <2> SUFFICES ASSUME DurableEditInv, DurableInv, [DurableNext]_durableVars
               PROVE  DurableEditInv'
    OBVIOUS
  <2>1. LockInv'
    BY DurableSteps, LockInvNext, PowerFailureKeepsLockInv DEF DurableEditInv, EditInv
  <2>2. ASSUME [Next]_vars PROVE EditInv'
    BY <2>1, <2>2, NoInitNext, DraftStaysCurrent DEF DurableEditInv, EditInv, LockInv
  <2>3. ASSUME PowerFailure PROVE EditInv'
    <3>1. \A p \in Procs : pc'[p] = "idle" /\ cmd'[p] = NoCommand
      BY <2>3 DEF PowerFailure
    <3>2. file' = device
      BY <2>3 DEF PowerFailure
    <3> QED
      BY <2>1, <3>1, <3>2 DEF DurableEditInv, EditInv, NoInit, DraftIsCurrent, Holding
  <2>4. EditInv'
    BY <2>2, <2>3, DurableSteps
  <2>5. device' \in {device, file}
    BY DeviceHasFile
  <2> QED
    BY <2>4, <2>5 DEF DurableEditInv, EditInv, NoInit
<1> QED
  BY <1>1, <1>2, DurableInvariant, PTL DEF DurableSpec

(* No edit is lost to another command after power failures either: what a  *)
(* command saves is its own edit of what is on disk then, be it an older   *)
(* document that the failure has brought back (main.rs, update_registry).  *)
THEOREM DraftsAreCurrentAfterwards ==
    ASSUME CarefulUser, NoInitRace
    PROVE  DurableSpec => []DraftIsCurrent
<1>1. DurableEditInv => DraftIsCurrent
  BY DEF DurableEditInv, EditInv
<1> QED
  BY <1>1, DurableEditInvariant, PTL

-----------------------------------------------------------------------------
(* What the registry promises its commands on such a machine: those of     *)
(* AtomicRegistry, and a device that now and then has the registry as it   *)
(* is, for a power failure to bring back when it ends all commands.        *)

Commit == device' = file /\ UNCHANGED atomicVars

BringBack ==
    /\ file' = device
    /\ cmd' = [p \in Procs |-> NoCommand]
    /\ outcome' = [p \in Procs |-> "none"]
    /\ UNCHANGED device

AtomicDeviceSpec ==
    /\ AtomicInit /\ device = file
    /\ [][(AtomicNext /\ UNCHANGED device) \/ Commit \/ BringBack]_<<atomicVars, device>>

(* Commands stay atomic: between two power failures each takes effect at   *)
(* an instant or not at all, and what a failure brings back is a registry  *)
(* that was in effect at some instant, with no part of a later one         *)
(* (registry.rs, save; main.rs, update_registry).                          *)
THEOREM DurableRegistryIsAtomic ==
    ASSUME CarefulUser, NoInitRace
    PROVE  DurableSpec => AtomicDeviceSpec
<1>1. DurableInit => AtomicInit /\ device = file
  BY DEF DurableInit, Init
<1>2. ASSUME DurableEditInv, DurableInv, [DurableNext]_durableVars
      PROVE  [(AtomicNext /\ UNCHANGED device) \/ Commit \/ BringBack]_<<atomicVars, device>>
  <2>1. CASE CommitRename
    BY <1>2, <2>1 DEF CommitRename, DurableInv, Commit, vars, atomicVars
  <2>2. CASE PowerFailure
    BY <2>2 DEF PowerFailure, BringBack
  <2>3. CASE ~CommitRename /\ ~PowerFailure
    <3>1. [Next]_vars
      BY <1>2, <2>3, DurableSteps
    <3>2. device' = device
      BY <1>2, <2>3 DEF DurableNext, DurableCreateTemp, DurableWriteTemp, DurablePublish,
                        OtherSteps, deviceVars, durableVars
    <3>3. [AtomicNext]_atomicVars
      BY <1>2, <3>1, StepRefines DEF DurableEditInv
    <3> QED
      BY <3>2, <3>3 DEF atomicVars
  <2> QED
    BY <2>1, <2>2, <2>3
<1>3. DurableEditInv /\ DurableInv /\ [DurableNext]_durableVars =>
          [(AtomicNext /\ UNCHANGED device) \/ Commit \/ BringBack]_<<atomicVars, device>>
  BY <1>2
<1> QED
  BY <1>1, <1>3, DurableEditInvariant, DurableInvariant, PTL DEF DurableSpec, AtomicDeviceSpec

-----------------------------------------------------------------------------
(* Nor do two instances come to share a directory through a power failure, *)
(* with the same exception: the document it brings back was published      *)
(* once, and recorded what the directories resolved to as well (main.rs,   *)
(* cmd_add; workspace.rs, identity).                                       *)
THEOREM DirectoriesStayDistinctAfterwards ==
    ASSUME \A f \in InitialFiles \cap Documents : Physical(f)
    PROVE  DurableSpec => []DirectoriesDistinct
<1> DEFINE Kept == /\ PhysicalInv
                   /\ device \in Documents /\ Consistent(device) => Physical(device)
<1>1. DurableInit => Kept
  BY PhysicalInit DEF DurableInit, PhysicalInv
<1>2. Kept /\ DurableInv /\ [DurableNext]_durableVars => Kept'
  <2> SUFFICES ASSUME Kept, DurableInv, [DurableNext]_durableVars
               PROVE  Kept'
    OBVIOUS
  <2>1. ASSUME PowerFailure PROVE PhysicalInv'
    <3>1. file' = device /\ \A p \in Procs : ~Saving(p)'
      BY <2>1 DEF PowerFailure, Saving
    <3> QED
      BY <3>1, <2>1, PowerFailureKeepsSaveInv DEF PhysicalInv
  <2>2. PhysicalInv'
    BY <2>1, DurableSteps, PhysicalNext
  <2>3. device' \in {device, file}
    BY DeviceHasFile
  <2> QED
    BY <2>2, <2>3 DEF PhysicalInv
<1>3. Kept => DirectoriesDistinct
  BY PhysicalIsDistinct
<1> QED
  BY <1>1, <1>2, <1>3, DurableInvariant, PTL DEF DurableSpec
=============================================================================
