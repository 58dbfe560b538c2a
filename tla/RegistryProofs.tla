--------------------------- MODULE RegistryProofs ---------------------------
(***************************************************************************)
(* Proofs about Registry, for every set of processes, names, paths, ports, *)
(* models and requests.                                                    *)
(*                                                                         *)
(* SaveInv needs no lock: it is what the temporary files and validate      *)
(* give, also when init saves without the lock or a user deletes a lock    *)
(* that is in use.  LockInv is what the lock gives on top of it, for       *)
(* careful users; EditInv, what it gives if no init runs beside an edit,   *)
(* and InitRaceInv, if one may.  PhysicalInv is about workspaces.          *)
(***************************************************************************)
EXTENDS Registry, TLAPS

Saving(p) == pc[p] \in {"create", "write", "publish"}

\* Where a process is in its command says what it can have decided.
PhaseInv ==
    \A p \in Procs :
        /\ pc[p] = "idle" <=> cmd[p] = NoCommand
        /\ outcome[p] # "none" <=> pc[p] \in {"release", "finish"}

SaveInv ==
    /\ TypeOK
    /\ PhaseInv
    /\ \A p \in Procs : Saving(p) => Loadable(file) /\ Consistent(draft[p])
    /\ \A p \in Procs : pc[p] = "idle" => draft[p] = EmptyDocument
    /\ \A p \in Procs : pc[p] = "publish" => temp[p] = draft[p]

\* init saves only where there is no registry yet, so it cannot collide with
\* an edit if there is a registry from the start, or if nobody runs init.
NoInitRace == NoFile \notin InitialFiles \/ \A c \in Requests : c.op # "init"

NoInit ==
    /\ \A p \in Procs : cmd[p] # NoCommand => cmd[p].op # "init"
    /\ NoFile \notin InitialFiles => file # NoFile

LockInv ==
    /\ SaveInv
    /\ \A p \in Procs : pc[p] \in {"acquire", "load", "release"} => cmd[p].op # "init"
    /\ \A p \in Procs : Holding(p) => lock = p

EditInv == LockInv /\ NoInit /\ DraftIsCurrent

(* What add makes of a document.                                           *)
IsAddition(c, l, d, q, w) ==
    /\ l[c.name] = Absent
    /\ d = [l EXCEPT ![c.name] = [port |-> q, workspace |-> w,
                                  model |-> c.model, share |-> c.share]]

LEMMA AddAdds ==
    ASSUME NEW c, NEW l, NEW d, d \in AddEffects(c, l)
    PROVE  \E q \in Allocatable(l), w \in Identities(c.path) : IsAddition(c, l, d, q, w)
<1>1. \E q \in {r \in Allocatable(l) : l[c.name] = Absent},
         w \in {v \in Identities(c.path) : ~WorkspaceTaken(l, v)} :
             d = [l EXCEPT ![c.name] = [port |-> q, workspace |-> w,
                                        model |-> c.model, share |-> c.share]]
  BY DEF AddEffects
<1> QED
  BY <1>1 DEF IsAddition

USE DocumentAssumption, RegistryAssumption

-----------------------------------------------------------------------------
(* The document.                                                           *)

LEMMA EmptyDocumentSound ==
    EmptyDocument \in Documents /\ Consistent(EmptyDocument)
BY DEF EmptyDocument, Documents, Consistent, Registered

LEMMA LoadedSound ==
    ASSUME NEW f, Loadable(f)
    PROVE  Loaded(f) \in Documents /\ Consistent(Loaded(f))
BY EmptyDocumentSound DEF Loadable, Loaded

\* A command turns documents into documents.
LEMMA EffectsTyped ==
    ASSUME NEW c \in Commands, NEW f, Loadable(f), NEW d \in Effects(c, f)
    PROVE  d \in Documents
<1> DEFINE l == Loaded(f)
<1>1. l \in Documents
  BY LoadedSound
<1>2. CASE c.op = "init"
  BY <1>2, EmptyDocumentSound DEF Effects, Loadable
<1>3. CASE c.op = "add"
  <2>1. d \in AddEffects(c, l)
    BY <1>3 DEF Effects
  <2>2. PICK q \in Allocatable(l), w \in Identities(c.path) : IsAddition(c, l, d, q, w)
    BY <2>1, AddAdds
  <2>3. [port |-> q, workspace |-> w,
         model |-> c.model, share |-> c.share] \in Entries
    BY DEF Entries, Identities, Commands, Allocatable
  <2> QED
    BY <1>1, <2>2, <2>3 DEF Documents, Commands, IsAddition
<1>4. CASE c.op = "edit"
  <2>1. d \in EditEffects(c, l)
    BY <1>4 DEF Effects
  <2>2. PICK e \in {l[c.name]} \ {Absent} :
            d = [l EXCEPT ![c.name] = [e EXCEPT !.model = c.model, !.share = c.share]]
    BY <2>1 DEF EditEffects
  <2>3. e \in Entries
    BY <1>1, <2>2 DEF Documents, Commands
  <2>4. [e EXCEPT !.model = c.model, !.share = c.share] \in Entries
    BY <2>3 DEF Entries, Commands
  <2> QED
    BY <1>1, <2>2, <2>4 DEF Documents, Commands
<1>5. CASE c.op = "rm"
  <2>1. d = [l EXCEPT ![c.name] = Absent]
    BY <1>5 DEF Effects, RmEffects
  <2> QED
    BY <1>1, <2>1 DEF Documents, Commands
<1> QED
  BY <1>2, <1>3, <1>4, <1>5 DEF Commands

(* What the settings of an edit are completed with is a setting.           *)
LEMMA CompletedTyped ==
    ASSUME NEW c \in Commands, NEW e \in Entries
    PROVE  Completed(c, e) \in Commands /\ Completed(c, e).op = c.op
BY DEF Completed, Commands, Entries, Settings

-----------------------------------------------------------------------------
(* SaveInv.                                                                *)

LEMMA SaveInvInit == Init => SaveInv
BY EmptyDocumentSound
   DEF Init, AtomicInit, SaveInv, TypeOK, AtomicTypeOK, PhaseInv, Saving,
       Phases, Files

(* Starting a command, shown once for the four ways to do it.              *)
LEMMA BeginKeepsSaveInv ==
    ASSUME SaveInv, NEW p \in Procs, NEW c \in Commands, NEW phase,
           Begin(p, c, phase),
           phase = "acquire" \/ (phase = "create" /\ Loadable(file))
    PROVE  SaveInv'
<1> USE DEF Begin, Goto
<1>1. pc[p] = "idle"
  BY DEF SaveInv, PhaseInv
<1>2. TypeOK'
  BY DEF SaveInv, TypeOK, AtomicTypeOK, Phases
<1>3. PhaseInv'
  BY <1>1 DEF SaveInv, TypeOK, AtomicTypeOK, PhaseInv
<1>4. (\A q \in Procs : Saving(q) => Loadable(file) /\ Consistent(draft[q]))'
  <2> SUFFICES ASSUME NEW q \in Procs, Saving(q)'
               PROVE  Loadable(file)' /\ Consistent(draft[q])'
    OBVIOUS
  <2>1. CASE q # p
    BY <2>1 DEF SaveInv, TypeOK, Saving
  <2>2. CASE q = p
    <3>1. draft[p] = EmptyDocument
      BY <1>1 DEF SaveInv
    <3> QED
      BY <2>2, <3>1, EmptyDocumentSound DEF SaveInv, TypeOK, Saving
  <2> QED
    BY <2>1, <2>2
<1>5. (\A q \in Procs : pc[q] = "publish" => temp[q] = draft[q])'
  BY DEF SaveInv, TypeOK
<1> QED
  BY <1>2, <1>3, <1>4, <1>5 DEF SaveInv

(* Leaving a command, shown once for the three ways to do it.              *)
LEMMA ExitKeepsSaveInv ==
    ASSUME SaveInv, NEW p \in Procs, Exit(p), UNCHANGED <<file, temp>>,
           lock' \in Procs \cup {Free, Stale}
    PROVE  SaveInv'
<1> USE DEF Exit, Goto
<1>1. TypeOK'
  BY EmptyDocumentSound DEF SaveInv, TypeOK, AtomicTypeOK, Phases
<1>2. PhaseInv'
  BY DEF SaveInv, TypeOK, AtomicTypeOK, PhaseInv
<1>3. (\A q \in Procs : Saving(q) => Loadable(file) /\ Consistent(draft[q]))'
  BY DEF SaveInv, TypeOK, Saving
<1>4. (\A q \in Procs : pc[q] = "idle" => draft[q] = EmptyDocument)'
  BY DEF SaveInv, TypeOK
<1>5. (\A q \in Procs : pc[q] = "publish" => temp[q] = draft[q])'
  BY DEF SaveInv, TypeOK
<1> QED
  BY <1>1, <1>2, <1>3, <1>4, <1>5 DEF SaveInv

(* Giving up, in one of the four ways to do it without having saved.       *)
LEMMA FailKeepsSaveInv ==
    ASSUME SaveInv, NEW p \in Procs, NEW phase \in {"release", "finish"},
           pc[p] \in {"acquire", "load", "create", "write", "publish"},
           Decide(p, "failed"), Goto(p, phase),
           UNCHANGED <<file, cmd, lock, draft>>,
           temp' = temp \/ temp' = [temp EXCEPT ![p] = NoFile]
    PROVE  SaveInv'
<1> USE DEF Decide, Goto
<1>1. TypeOK'
  BY DEF SaveInv, TypeOK, AtomicTypeOK, Phases, Files
<1>2. PhaseInv'
  BY DEF SaveInv, TypeOK, AtomicTypeOK, PhaseInv
<1>3. (\A q \in Procs : Saving(q) => Loadable(file) /\ Consistent(draft[q]))'
  BY DEF SaveInv, TypeOK, Saving
<1>4. (\A q \in Procs : pc[q] = "idle" => draft[q] = EmptyDocument)'
  BY DEF SaveInv, TypeOK
<1>5. (\A q \in Procs : pc[q] = "publish" => temp[q] = draft[q])'
  BY DEF SaveInv, TypeOK
<1> QED
  BY <1>1, <1>2, <1>3, <1>4, <1>5 DEF SaveInv

(* A rename puts a whole, consistent document in place.                    *)
LEMMA PublishSound ==
    ASSUME SaveInv, NEW p \in Procs, Publish(p)
    PROVE  /\ file' = draft[p]
           /\ file' \in Documents /\ Consistent(file')
           /\ Loadable(file')
<1>1. pc[p] = "publish" /\ temp[p] = draft[p]
  BY DEF Publish, SaveInv
<1>2. draft[p] \in Documents /\ Consistent(draft[p])
  BY <1>1 DEF SaveInv, TypeOK, Saving
<1> QED
  BY <1>1, <1>2 DEF Publish, TempPath, Loadable

LEMMA PublishKeepsSaveInv ==
    ASSUME SaveInv, NEW p \in Procs, Publish(p)
    PROVE  SaveInv'
<1> USE DEF Publish, Decide, Goto, TempPath, Leave
<1>1. TypeOK'
  BY PublishSound DEF SaveInv, TypeOK, AtomicTypeOK, Phases, Files
<1>2. PhaseInv'
  BY DEF SaveInv, TypeOK, AtomicTypeOK, PhaseInv
<1>3. (\A q \in Procs : Saving(q) => Loadable(file) /\ Consistent(draft[q]))'
  BY PublishSound DEF SaveInv, TypeOK, Saving
<1>4. (\A q \in Procs : pc[q] = "idle" => draft[q] = EmptyDocument)'
  BY DEF SaveInv, TypeOK
<1>5. (\A q \in Procs : pc[q] = "publish" => temp[q] = draft[q])'
  BY DEF SaveInv, TypeOK
<1> QED
  BY <1>1, <1>2, <1>3, <1>4, <1>5 DEF SaveInv

LEMMA LoadAndEditKeepsSaveInv ==
    ASSUME SaveInv, NEW p \in Procs, LoadAndEdit(p)
    PROVE  SaveInv'
<1> USE DEF LoadAndEdit, Goto
<1>1. cmd[p] \in Commands
  BY DEF SaveInv, TypeOK, AtomicTypeOK, PhaseInv
<1>2. PICK d \in Savable(p) : draft' = [draft EXCEPT ![p] = d]
  OBVIOUS
<1>3. d \in Documents /\ Consistent(d)
  BY <1>1, <1>2, EffectsTyped DEF Savable
<1>4. TypeOK'
  BY <1>2, <1>3 DEF SaveInv, TypeOK, AtomicTypeOK, Phases
<1>5. PhaseInv'
  BY DEF SaveInv, TypeOK, AtomicTypeOK, PhaseInv
<1>6. (\A q \in Procs : Saving(q) => Loadable(file) /\ Consistent(draft[q]))'
  BY <1>2, <1>3 DEF SaveInv, TypeOK, Saving
<1>7. (\A q \in Procs : pc[q] = "idle" => draft[q] = EmptyDocument)'
  BY <1>2 DEF SaveInv, TypeOK
<1>8. (\A q \in Procs : pc[q] = "publish" => temp[q] = draft[q])'
  BY <1>2 DEF SaveInv, TypeOK
<1> QED
  BY <1>4, <1>5, <1>6, <1>7, <1>8 DEF SaveInv

(* Each command writes to a temporary file no other command touches.       *)
LEMMA TempKeepsSaveInv ==
    ASSUME SaveInv, NEW p \in Procs, CreateTemp(p) \/ WriteTemp(p)
    PROVE  SaveInv'
<1> USE DEF CreateTemp, WriteTemp, Goto, TempPath
<1>1. TypeOK'
  BY DEF SaveInv, TypeOK, AtomicTypeOK, Phases, Files
<1>2. PhaseInv'
  BY DEF SaveInv, TypeOK, AtomicTypeOK, PhaseInv
<1>3. (\A q \in Procs : Saving(q) => Loadable(file) /\ Consistent(draft[q]))'
  BY DEF SaveInv, TypeOK, Saving
<1>4. (\A q \in Procs : pc[q] = "idle" => draft[q] = EmptyDocument)'
  BY DEF SaveInv, TypeOK
<1>5. (\A q \in Procs : pc[q] = "publish" => temp[q] = draft[q])'
  BY DEF SaveInv, TypeOK
<1> QED
  BY <1>1, <1>2, <1>3, <1>4, <1>5 DEF SaveInv

(* Taking or deleting the lock file touches nothing SaveInv is about.      *)
LEMMA LockKeepsSaveInv ==
    ASSUME SaveInv, DeleteLock \/ \E p \in Procs : Acquire(p)
    PROVE  SaveInv'
BY DEF SaveInv, DeleteLock, Acquire, Goto, TypeOK, AtomicTypeOK, Phases,
       PhaseInv, Saving

LEMMA SaveInvNext == SaveInv /\ [Next]_vars => SaveInv'
<1> SUFFICES ASSUME SaveInv, [Next]_vars
             PROVE  SaveInv'
  OBVIOUS
<1>1. ASSUME NEW p \in Procs, Start(p)
      PROVE  SaveInv'
  <2>1. CASE BeginNew(p)
    BY <2>1, BeginKeepsSaveInv DEF BeginNew, Loadable
  <2>2. CASE BeginEdit(p)
    <3>1. PICK c \in Requests :
              /\ Loadable(file)
              /\ Loaded(file)[c.name] # Absent
              /\ Begin(p, Completed(c, Loaded(file)[c.name]), "acquire")
      BY <2>2 DEF BeginEdit
    <3>2. Loaded(file)[c.name] \in Entries
      BY <3>1, LoadedSound DEF Documents, Commands
    <3>3. Completed(c, Loaded(file)[c.name]) \in Commands
      BY <3>1, <3>2, CompletedTyped
    <3> QED
      BY <3>1, <3>3, BeginKeepsSaveInv
  <2>3. CASE BeginRm(p)
    BY <2>3, BeginKeepsSaveInv DEF BeginRm
  <2> QED
    BY <1>1, <2>1, <2>2, <2>3 DEF Start
<1>2. ASSUME NEW p \in Procs, Run(p)
      PROVE  SaveInv'
  <2>1. CASE GiveUp(p)
    BY <2>1, FailKeepsSaveInv DEF GiveUp
  <2>2. CASE Acquire(p)
    BY <2>2, LockKeepsSaveInv
  <2>3. CASE LockTimeout(p)
    BY <2>3, FailKeepsSaveInv DEF LockTimeout
  <2>4. CASE LoadAndEdit(p)
    BY <2>4, LoadAndEditKeepsSaveInv
  <2>5. CASE RefuseEdit(p)
    BY <2>5, FailKeepsSaveInv DEF RefuseEdit
  <2>6. CASE CreateTemp(p) \/ WriteTemp(p)
    BY <2>6, TempKeepsSaveInv
  <2>7. CASE Publish(p)
    BY <2>7, PublishKeepsSaveInv
  <2>8. CASE SaveFails(p)
    BY <2>8, FailKeepsSaveInv DEF SaveFails, Leave, TempPath
  <2>9. CASE Release(p)
    BY <2>9, ExitKeepsSaveInv DEF Release, Abandoned, SaveInv, TypeOK
  <2>10. CASE Finish(p)
    BY <2>10, ExitKeepsSaveInv DEF Finish, SaveInv, TypeOK
  <2> QED
    BY <1>2, <2>1, <2>2, <2>3, <2>4, <2>5, <2>6, <2>7, <2>8, <2>9, <2>10
       DEF Run, Proceed
<1>3. ASSUME NEW p \in Procs, Crash(p)
      PROVE  SaveInv'
  BY <1>3, ExitKeepsSaveInv DEF Crash, Abandoned, SaveInv, TypeOK
<1>4. CASE DeleteLock
  BY <1>4, LockKeepsSaveInv
<1>5. CASE UNCHANGED vars
  BY <1>5 DEF vars, SaveInv, TypeOK, AtomicTypeOK, PhaseInv, Saving
<1> QED
  BY <1>1, <1>2, <1>3, <1>4, <1>5 DEF Next

LEMMA SaveInvariant == Spec => []SaveInv
BY SaveInvInit, SaveInvNext, PTL DEF Spec

(* The state of the registry always has its type.                          *)
THEOREM TypeCorrect == Spec => []TypeOK
<1>1. SaveInv => TypeOK
  BY DEF SaveInv
<1> QED
  BY <1>1, SaveInvariant, PTL

(* router.yaml changes only when a process renames its document over it.   *)
LEMMA OnlyPublishWrites ==
    ASSUME [Next]_vars, file' # file
    PROVE  \E p \in Procs : Publish(p)
BY DEF Next, vars, Start, BeginNew, BeginEdit, BeginRm, Begin, Run, Proceed,
       GiveUp, Acquire, LockTimeout, LoadAndEdit, RefuseEdit, CreateTemp,
       WriteTemp, SaveFails, Release, Finish, Crash, Abandoned, DeleteLock

(* With or without the lock, whoever runs init and whichever lock files    *)
(* users delete, readers see whole documents (registry.rs, save).          *)
THEOREM ReadersSeeWholeDocuments == Spec => WholeDocuments
<1>1. SaveInv /\ [Next]_vars => [file' = Garbage => file = Garbage]_vars
  BY OnlyPublishWrites, PublishSound
<1> QED
  BY <1>1, SaveInvariant, PTL DEF Spec, WholeDocuments

(* With or without the lock, no published document has two instances on    *)
(* one port or in one workspace (registry.rs, validate).                   *)
THEOREM PublishesConsistently == Spec => PublishedConsistent
<1>1. SaveInv /\ [Next]_vars =>
          [file' # file =>
              /\ file' \in Documents
              /\ \A m, n \in Registered(file') :
                     m # n => /\ file'[m].port # file'[n].port
                              /\ file'[m].workspace # file'[n].workspace]_vars
  BY OnlyPublishWrites, PublishSound DEF Consistent
<1> QED
  BY <1>1, SaveInvariant, PTL DEF Spec, PublishedConsistent

(* With or without the lock, a registry that does not load stays as it is  *)
(* (main.rs, cmd_init and load).                                           *)
THEOREM LeavesUnreadableAlone == Spec => UnreadableLeftAlone
<1>1. SaveInv /\ [Next]_vars => [~Loadable(file) => file' = file]_vars
  <2> SUFFICES ASSUME SaveInv, [Next]_vars, file' # file
               PROVE  Loadable(file)
    OBVIOUS
  <2>1. PICK p \in Procs : Publish(p)
    BY OnlyPublishWrites
  <2> QED
    BY <2>1 DEF Publish, SaveInv, Saving
<1> QED
  BY <1>1, SaveInvariant, PTL DEF Spec, UnreadableLeftAlone

-----------------------------------------------------------------------------
(* LockInv: what the lock file gives when users delete only stale ones.    *)

LEMMA LockInvInit == Init => LockInv
BY SaveInvInit DEF LockInv, Init, AtomicInit, Holding

LEMMA LockInvNext ==
    ASSUME CarefulUser
    PROVE  LockInv /\ [Next]_vars => LockInv'
<1> SUFFICES ASSUME LockInv, [Next]_vars
             PROVE  LockInv'
  OBVIOUS
<1> DEFINE NotInit == \A q \in Procs : pc[q] \in {"acquire", "load", "release"} => cmd[q].op # "init"
           Owned   == \A q \in Procs : Holding(q) => lock = q
<1>1. SaveInv'
  BY SaveInvNext DEF LockInv
<1>2. TypeOK /\ NotInit /\ Owned
  BY DEF LockInv, SaveInv
<1> HIDE DEF NotInit, Owned
<1>3. SUFFICES NotInit' /\ Owned'
  BY <1>1 DEF LockInv, NotInit, Owned
<1>4. ASSUME NEW p \in Procs, NEW c \in Commands, NEW phase \in {"acquire", "create"},
             Begin(p, c, phase), phase = "create" <=> c.op = "init"
      PROVE  NotInit' /\ Owned'
  BY <1>2, <1>4 DEF NotInit, Owned, Holding, Begin, Goto, TypeOK, AtomicTypeOK
<1>5. ASSUME NEW p \in Procs, Start(p)
      PROVE  NotInit' /\ Owned'
  <2>1. CASE BeginNew(p)
    BY <2>1, <1>4 DEF BeginNew
  <2>2. CASE BeginEdit(p)
    <3>1. PICK c \in Requests :
              /\ c.op = "edit"
              /\ Loadable(file)
              /\ Loaded(file)[c.name] # Absent
              /\ Begin(p, Completed(c, Loaded(file)[c.name]), "acquire")
      BY <2>2 DEF BeginEdit
    <3>2. Loaded(file)[c.name] \in Entries
      BY <3>1, LoadedSound DEF Documents, Commands
    <3> QED
      BY <3>1, <3>2, <1>4, CompletedTyped
  <2>3. CASE BeginRm(p)
    BY <2>3, <1>4 DEF BeginRm
  <2> QED
    BY <1>5, <2>1, <2>2, <2>3 DEF Start
<1>6. ASSUME NEW p \in Procs, Run(p)
      PROVE  NotInit' /\ Owned'
  <2> USE <1>2 DEF NotInit, Owned, Holding, Goto, Decide, Leave, TypeOK, AtomicTypeOK
  <2>1. CASE GiveUp(p)
    BY <2>1 DEF GiveUp
  <2>2. CASE Acquire(p)
    BY <2>2 DEF Acquire
  <2>3. CASE LockTimeout(p)
    BY <2>3 DEF LockTimeout
  <2>4. CASE LoadAndEdit(p)
    BY <2>4 DEF LoadAndEdit
  <2>5. CASE RefuseEdit(p)
    BY <2>5 DEF RefuseEdit
  <2>6. CASE CreateTemp(p) \/ WriteTemp(p)
    BY <2>6 DEF CreateTemp, WriteTemp
  <2>7. CASE Publish(p)
    BY <2>7 DEF Publish
  <2>8. CASE SaveFails(p)
    BY <2>8 DEF SaveFails
  <2>9. CASE Release(p)
    BY <2>9 DEF Release, Abandoned, Exit
  <2>10. CASE Finish(p)
    BY <2>10 DEF Finish, Exit
  <2> QED
    BY <1>6, <2>1, <2>2, <2>3, <2>4, <2>5, <2>6, <2>7, <2>8, <2>9, <2>10
       DEF Run, Proceed
<1>7. ASSUME NEW p \in Procs, Crash(p)
      PROVE  NotInit' /\ Owned'
  BY <1>2, <1>7 DEF NotInit, Owned, Holding, Crash, Abandoned, Exit, Goto, TypeOK, AtomicTypeOK
<1>8. CASE DeleteLock
  BY <1>2, <1>8 DEF NotInit, Owned, Holding, DeleteLock
<1>9. CASE UNCHANGED vars
  BY <1>2, <1>9 DEF vars, NotInit, Owned, Holding
<1> QED
  BY <1>5, <1>6, <1>7, <1>8, <1>9 DEF Next

LEMMA LockInvariant ==
    ASSUME CarefulUser
    PROVE  Spec => []LockInv
BY LockInvInit, LockInvNext, PTL DEF Spec

(* If users delete only stale lock files, the commands that edit the       *)
(* registry exclude each other, also beside a running init (registry.rs,   *)
(* RegistryLock).                                                          *)
THEOREM LockExcludes ==
    ASSUME CarefulUser
    PROVE  Spec => []MutualExclusion
<1>1. LockInv => MutualExclusion
  BY DEF LockInv, MutualExclusion
<1> QED
  BY <1>1, LockInvariant, PTL

-----------------------------------------------------------------------------
(* EditInv: no command's change is lost.                                   *)

LEMMA NoInitInit == ASSUME NoInitRace PROVE Init => NoInit
BY DEF Init, AtomicInit, NoInit

(* A process keeps its command until it exits, and starts only what users  *)
(* type.                                                                   *)
LEMMA CommandsStart ==
    ASSUME SaveInv, [Next]_vars, NEW p \in Procs, cmd'[p] # NoCommand
    PROVE  \/ cmd'[p] = cmd[p]
           \/ \E c \in Requests : cmd'[p].op = c.op /\ (c.op = "init" => file = NoFile)
<1>1. ASSUME NEW q \in Procs, Start(q)
      PROVE  \/ cmd'[p] = cmd[p]
             \/ \E c \in Requests : cmd'[p].op = c.op /\ (c.op = "init" => file = NoFile)
  <2> USE DEF Begin, SaveInv, TypeOK, AtomicTypeOK
  <2>1. CASE BeginNew(q)
    BY <2>1 DEF BeginNew
  <2>2. CASE BeginEdit(q)
    BY <2>2 DEF BeginEdit, Completed, Commands
  <2>3. CASE BeginRm(q)
    BY <2>3 DEF BeginRm
  <2> QED
    BY <1>1, <2>1, <2>2, <2>3 DEF Start
<1>2. ASSUME NEW q \in Procs, Run(q) \/ Crash(q)
      PROVE  cmd'[p] = cmd[p]
  BY <1>2 DEF Run, Proceed, GiveUp, Acquire, LockTimeout, LoadAndEdit, RefuseEdit,
         CreateTemp, WriteTemp, Publish, SaveFails, Release, Finish, Crash, Abandoned, Exit,
         SaveInv, TypeOK, AtomicTypeOK
<1>3. DeleteLock \/ UNCHANGED vars => cmd'[p] = cmd[p]
  BY DEF DeleteLock, vars
<1> QED
  BY <1>1, <1>2, <1>3 DEF Next

LEMMA NoInitNext ==
    ASSUME NoInitRace, SaveInv, NoInit, [Next]_vars
    PROVE  NoInit'
<1>1. NoFile \notin InitialFiles => file' # NoFile
  <2>1. file' # file => file' \in Documents
    BY OnlyPublishWrites, PublishSound
  <2> QED
    BY <2>1 DEF NoInit
<1>2. ASSUME NEW p \in Procs, cmd'[p] # NoCommand
      PROVE  cmd'[p].op # "init"
  BY <1>2, CommandsStart DEF NoInit, NoInitRace
<1> QED
  BY <1>1, <1>2 DEF NoInit

(* Whoever saves is alone under the lock, so the document it has edited is *)
(* the one on disk.                                                        *)
LEMMA DraftStaysCurrent ==
    ASSUME LockInv, LockInv', NoInit, DraftIsCurrent, [Next]_vars
    PROVE  DraftIsCurrent'
<1> DEFINE Current(p) ==
        /\ pc[p] \in {"create", "write", "publish"} =>
               Loadable(file) /\ draft[p] \in Effects(cmd[p], file)
        /\ pc[p] = "release" /\ outcome[p] = "ok" => file = draft[p]
<1>1. SUFFICES ASSUME NEW p \in Procs, Holding(p)'
               PROVE  Current(p)'
  BY DEF DraftIsCurrent
<1>2. Holding(p) => Current(p)
  BY DEF DraftIsCurrent
<1>3. TypeOK /\ PhaseInv
  BY DEF LockInv, SaveInv
<1>4. ASSUME NEW q \in Procs, Publish(q)
      PROVE  Current(p)'
  <2>1. Holding(q) /\ cmd[q].op # "init"
    BY <1>3, <1>4 DEF Publish, PhaseInv, NoInit, Holding
  <2>2. q = p
    BY <1>1, <1>3, <1>4, <2>1 DEF LockInv, Publish, Holding, Goto, Leave, TypeOK
  <2>3. pc'[p] = "release" /\ file' = draft[p] /\ draft' = draft
    BY <1>3, <1>4, <2>1, <2>2, PublishSound
       DEF LockInv, Publish, Goto, Leave, TypeOK
  <2> QED
    BY <2>3
<1>5. ASSUME NEW q \in Procs, LoadAndEdit(q)
      PROVE  Current(p)'
  <2>1. CASE q = p
    BY <1>3, <1>5, <2>1 DEF LoadAndEdit, Savable, Goto, TypeOK
  <2>2. CASE q # p
    BY <1>1, <1>2, <1>3, <1>5, <2>2 DEF LoadAndEdit, Goto, TypeOK, Holding
  <2> QED
    BY <2>1, <2>2
<1>6. ASSUME NEW q \in Procs,
             Start(q) \/ GiveUp(q) \/ Acquire(q) \/ LockTimeout(q) \/ RefuseEdit(q)
             \/ SaveFails(q) \/ Release(q) \/ Finish(q) \/ Crash(q)
      PROVE  Current(p)'
  <2>1. file' = file
    BY <1>6 DEF Start, BeginNew, BeginEdit, BeginRm, Begin, GiveUp,
           Acquire, LockTimeout, RefuseEdit, SaveFails, Release, Finish, Crash, Abandoned
  <2>2. CASE q # p
    BY <1>1, <1>2, <1>3, <1>6, <2>1, <2>2
       DEF Start, BeginNew, BeginEdit, BeginRm, Begin, GiveUp,
           Acquire, LockTimeout, RefuseEdit, SaveFails, Release, Finish, Crash, Abandoned,
           Exit, Goto, Decide, TypeOK, AtomicTypeOK, Holding
  <2>3. CASE q = p
    <3>1. pc'[p] \in {"idle", "acquire", "load", "release", "finish"}
          \/ cmd'[p].op = "init"
      BY <1>3, <1>6, <2>3
         DEF Start, BeginNew, BeginEdit, BeginRm, Begin, GiveUp,
             Acquire, LockTimeout, RefuseEdit, SaveFails, Release, Finish, Crash, Abandoned,
             Exit, Goto, Decide, Leave, TypeOK, AtomicTypeOK
    <3>2. pc'[p] = "release" => outcome'[p] = "failed"
      BY <1>3, <1>6, <2>3
         DEF Start, BeginNew, BeginEdit, BeginRm, Begin, GiveUp,
             Acquire, LockTimeout, RefuseEdit, SaveFails, Release, Finish, Crash, Abandoned,
             Exit, Goto, Decide, Leave, TypeOK, AtomicTypeOK
    <3> QED
      BY <1>1, <3>1, <3>2 DEF Holding
  <2> QED
    BY <2>2, <2>3
<1>7. ASSUME NEW q \in Procs, CreateTemp(q) \/ WriteTemp(q)
      PROVE  Current(p)'
  BY <1>1, <1>2, <1>3, <1>7 DEF CreateTemp, WriteTemp, Goto, TypeOK, Holding
<1>8. CASE DeleteLock
  BY <1>1, <1>2, <1>8 DEF DeleteLock, Holding
<1>9. CASE UNCHANGED vars
  BY <1>1, <1>2, <1>9 DEF vars, Holding
<1> QED
  BY <1>4, <1>5, <1>6, <1>7, <1>8, <1>9 DEF Next, Run, Proceed

LEMMA EditInvariant ==
    ASSUME CarefulUser, NoInitRace
    PROVE  Spec => []EditInv
<1>1. Init => EditInv
  BY LockInvInit, NoInitInit DEF EditInv, DraftIsCurrent, Holding, Init
<1>2. EditInv /\ [Next]_vars => EditInv'
  <2> SUFFICES ASSUME EditInv, [Next]_vars
               PROVE  EditInv'
    OBVIOUS
  <2>1. LockInv'
    BY LockInvNext DEF EditInv
  <2>2. NoInit'
    BY NoInitNext DEF EditInv, LockInv
  <2>3. DraftIsCurrent'
    BY <2>1, DraftStaysCurrent DEF EditInv
  <2> QED
    BY <2>1, <2>2, <2>3 DEF EditInv
<1> QED
  BY <1>1, <1>2, PTL DEF Spec

(* What a command saves is its own edit of what is on disk at that moment  *)
(* (main.rs, update_registry).                                             *)
THEOREM DraftsAreCurrent ==
    ASSUME CarefulUser, NoInitRace
    PROVE  Spec => []DraftIsCurrent
<1>1. EditInv => DraftIsCurrent
  BY DEF EditInv
<1> QED
  BY <1>1, EditInvariant, PTL

-----------------------------------------------------------------------------
(* Refinement.                                                             *)

LEMMA StartRefines ==
    ASSUME SaveInv, NEW p \in Procs, Start(p)
    PROVE  Invoke(p)
<1>0. ASSUME NEW c \in Commands, NEW phase, Begin(p, c, phase) PROVE Invoke(p)
  <2>1. cmd'[p] = c
    BY <1>0 DEF Begin, SaveInv, TypeOK, AtomicTypeOK
  <2> QED
    BY <1>0, <2>1 DEF Begin, Invoke
<1>1. CASE BeginNew(p)
  BY <1>0, <1>1 DEF BeginNew
<1>2. CASE BeginEdit(p)
  <2>1. PICK c \in Requests :
            /\ Loadable(file)
            /\ Loaded(file)[c.name] # Absent
            /\ Begin(p, Completed(c, Loaded(file)[c.name]), "acquire")
    BY <1>2 DEF BeginEdit
  <2>2. Loaded(file)[c.name] \in Entries
    BY <2>1, LoadedSound DEF Documents, Commands
  <2> QED
    BY <1>0, <2>1, <2>2, CompletedTyped
<1>3. CASE BeginRm(p)
  BY <1>0, <1>3 DEF BeginRm
<1> QED
  BY <1>1, <1>2, <1>3 DEF Start

\* The rename is the instant a command takes effect.
LEMMA PublishRefines ==
    ASSUME EditInv, NEW p \in Procs, Publish(p)
    PROVE  Apply(p)
<1>1. SaveInv /\ pc[p] = "publish" /\ cmd[p] # NoCommand /\ outcome[p] = "none"
  BY DEF EditInv, LockInv, SaveInv, PhaseInv, Publish
<1>2. Holding(p)
  BY <1>1 DEF EditInv, NoInit, Holding
<1>3. Loadable(file) /\ draft[p] \in Effects(cmd[p], file)
  BY <1>1, <1>2 DEF EditInv, DraftIsCurrent
<1> QED
  BY <1>1, <1>3, PublishSound DEF Publish, Apply, Decide

LEMMA ExitRefines ==
    ASSUME TypeOK, NEW p \in Procs, Exit(p), file' = file
    PROVE  Die /\ (outcome[p] # "none" => Answer(p))
<1>1. cmd' = [q \in Procs |-> IF q \in {p} THEN NoCommand ELSE cmd[q]]
  BY DEF Exit, TypeOK, AtomicTypeOK
<1>2. outcome' = [q \in Procs |-> IF q \in {p} THEN "none" ELSE outcome[q]]
  BY DEF Exit, TypeOK, AtomicTypeOK
<1>3. Die
  <2>1. {p} \in SUBSET Procs
    OBVIOUS
  <2> QED
    BY <1>1, <1>2, <2>1 DEF Die
<1> QED
  BY <1>3 DEF Exit, Answer

(* Every step of Registry is a step of AtomicRegistry or changes nothing   *)
(* it can see.                                                             *)
LEMMA StepRefines ==
    ASSUME EditInv, [Next]_vars
    PROVE  [AtomicNext]_atomicVars
<1> USE DEF AtomicNext
<1>1. SaveInv /\ TypeOK /\ PhaseInv
  BY DEF EditInv, LockInv, SaveInv
<1>2. ASSUME NEW p \in Procs, Start(p)
      PROVE  [AtomicNext]_atomicVars
  BY <1>1, <1>2, StartRefines
<1>3. ASSUME NEW p \in Procs, Publish(p)
      PROVE  [AtomicNext]_atomicVars
  BY <1>3, PublishRefines
<1>4. ASSUME NEW p \in Procs,
             GiveUp(p) \/ LockTimeout(p) \/ RefuseEdit(p) \/ SaveFails(p)
      PROVE  Refuse(p)
  BY <1>1, <1>4 DEF GiveUp, LockTimeout, RefuseEdit, SaveFails, Decide, Refuse, PhaseInv
<1>5. ASSUME NEW p \in Procs, Release(p) \/ Finish(p)
      PROVE  Answer(p)
  BY <1>1, <1>5, ExitRefines DEF Release, Abandoned, Finish, PhaseInv
<1>6. ASSUME NEW p \in Procs, Crash(p)
      PROVE  Die
  BY <1>1, <1>6, ExitRefines DEF Crash, Abandoned
<1>7. ASSUME NEW p \in Procs,
             Acquire(p) \/ LoadAndEdit(p) \/ CreateTemp(p) \/ WriteTemp(p)
      PROVE  UNCHANGED atomicVars
  BY <1>7 DEF Acquire, LoadAndEdit, CreateTemp, WriteTemp, atomicVars
<1>8. DeleteLock \/ UNCHANGED vars => UNCHANGED atomicVars
  BY DEF DeleteLock, vars, atomicVars
<1> QED
  BY <1>2, <1>3, <1>4, <1>5, <1>6, <1>7, <1>8 DEF Next, Run, Proceed

(* The registry is an atomic object: with users who delete only stale lock *)
(* files and no init beside an edit, every command that answers took       *)
(* effect at one instant, on the document of that instant, or not at all   *)
(* (main.rs, update_registry).                                             *)
THEOREM RegistryIsAtomic ==
    ASSUME CarefulUser, NoInitRace
    PROVE  Spec => Linearizable
<1>1. Init => AtomicInit
  BY DEF Init
<1>2. EditInv /\ [Next]_vars => [AtomicNext]_atomicVars
  BY StepRefines
<1> QED
  BY <1>1, <1>2, EditInvariant, PTL DEF Spec, Linearizable, AtomicSpec

-----------------------------------------------------------------------------
(* Entries.                                                                *)

LEMMA OnlyRmRemoves ==
    ASSUME NEW c \in Commands, NEW f, Loadable(f), NEW d \in Effects(c, f),
           NEW n \in Names, Loaded(f)[n] # Absent, d[n] = Absent
    PROVE  c.op = "rm" /\ c.name = n
<1> DEFINE l == Loaded(f)
<1>1. l \in Documents
  BY LoadedSound
<1>2. CASE c.op = "init"
  BY <1>2 DEF Effects, Loaded, Loadable, EmptyDocument
<1>3. CASE c.op = "add"
  <2>0. d \in AddEffects(c, l)
    BY <1>3 DEF Effects
  <2>1. PICK q \in Allocatable(l), w \in Identities(c.path) : IsAddition(c, l, d, q, w)
    BY <2>0, AddAdds
  <2> QED
    BY <1>1, <2>1 DEF Documents, IsAddition
<1>4. CASE c.op = "edit"
  <2>1. PICK e \in {l[c.name]} \ {Absent} :
            d = [l EXCEPT ![c.name] = [e EXCEPT !.model = c.model, !.share = c.share]]
    BY <1>4 DEF Effects, EditEffects
  <2>2. e \in Entries
    BY <1>1, <2>1 DEF Documents, Commands
  <2>3. [e EXCEPT !.model = c.model, !.share = c.share] \in Entries
    BY <2>2 DEF Entries, Commands
  <2> QED
    BY <1>1, <2>1, <2>3 DEF Documents
<1>5. CASE c.op = "rm"
  <2>1. d = [l EXCEPT ![c.name] = Absent]
    BY <1>5 DEF Effects, RmEffects
  <2> QED
    BY <1>1, <1>5, <2>1 DEF Documents
<1> QED
  BY <1>2, <1>3, <1>4, <1>5 DEF Commands

(* No edit of a document moves an instance.                                *)
LEMMA EffectsKeepPlaces ==
    ASSUME NEW c \in Commands, NEW f, Loadable(f), NEW d \in Effects(c, f),
           NEW n \in Names, Loaded(f)[n] # Absent, d[n] # Absent
    PROVE  d[n].port = Loaded(f)[n].port /\ d[n].workspace = Loaded(f)[n].workspace
<1> DEFINE l == Loaded(f)
<1>1. l \in Documents /\ l[n] \in Entries
  BY LoadedSound DEF Documents
<1>2. CASE c.op = "init"
  BY <1>2 DEF Effects, Loaded, Loadable, EmptyDocument
<1>3. CASE c.op = "add"
  <2>0. d \in AddEffects(c, l)
    BY <1>3 DEF Effects
  <2>1. PICK q \in Allocatable(l), w \in Identities(c.path) : IsAddition(c, l, d, q, w)
    BY <2>0, AddAdds
  <2>2. d[n] = l[n]
    BY <1>1, <2>1 DEF Documents, IsAddition
  <2> QED
    BY <2>2
<1>4. CASE c.op = "edit"
  <2>1. PICK e \in {l[c.name]} \ {Absent} :
            d = [l EXCEPT ![c.name] = [e EXCEPT !.model = c.model, !.share = c.share]]
    BY <1>4 DEF Effects, EditEffects
  <2>2. e \in Entries
    BY <1>1, <2>1 DEF Documents, Commands
  <2>3. /\ [e EXCEPT !.model = c.model, !.share = c.share].port = e.port
        /\ [e EXCEPT !.model = c.model, !.share = c.share].workspace = e.workspace
    BY <2>2 DEF Entries
  <2>4. d[n] = IF n = c.name THEN [e EXCEPT !.model = c.model, !.share = c.share] ELSE l[n]
    BY <1>1, <2>1 DEF Documents
  <2> QED
    BY <2>1, <2>3, <2>4
<1>5. CASE c.op = "rm"
  <2>1. d = [l EXCEPT ![c.name] = Absent]
    BY <1>5 DEF Effects, RmEffects
  <2>2. d[n] = l[n]
    BY <1>1, <2>1 DEF Documents, IsAddition
  <2> QED
    BY <2>2
<1> QED
  BY <1>2, <1>3, <1>4, <1>5 DEF Commands

(* An init beside an edit is the only way to lose an instance that nobody  *)
(* has removed: without one, it leaves the registry when an rm of its name *)
(* saves, and not otherwise, however commands interleave, fail and are     *)
(* killed (main.rs, update_registry and cmd_init).                         *)
THEOREM EntriesStay ==
    ASSUME CarefulUser, NoInitRace
    PROVE  Spec => EntriesOnlyLeaveByRm
<1>1. ASSUME EditInv, [Next]_vars, NEW n \in Names,
             Loadable(file), Loaded(file)[n] # Absent, Loaded(file')[n] = Absent
      PROVE  \E p \in Procs : pc[p] = "publish" /\ cmd[p].op = "rm" /\ cmd[p].name = n
  <2>1. PICK p \in Procs : Publish(p)
    BY <1>1, OnlyPublishWrites
  <2>2. /\ file' = draft[p]
        /\ Loaded(file') = draft[p]
    BY <1>1, <2>1, PublishSound DEF EditInv, LockInv, Loaded
  <2>3. pc[p] = "publish" /\ cmd[p] \in Commands
    BY <1>1, <2>1 DEF Publish, EditInv, LockInv, SaveInv, TypeOK, AtomicTypeOK, PhaseInv
  <2>4. draft[p] \in Effects(cmd[p], file)
    BY <1>1, <2>3 DEF EditInv, NoInit, DraftIsCurrent, Holding
  <2> QED
    BY <1>1, <2>2, <2>3, <2>4, OnlyRmRemoves
<1>2. EditInv /\ [Next]_vars =>
          [\A n \in Names :
               Loadable(file) /\ Loaded(file)[n] # Absent /\ Loaded(file')[n] = Absent
               => \E p \in Procs : /\ pc[p] = "publish"
                                   /\ cmd[p].op = "rm" /\ cmd[p].name = n]_vars
  BY <1>1
<1> QED
  BY <1>2, EditInvariant, PTL DEF Spec, EntriesOnlyLeaveByRm

(* What is left of EditInv beside an init: all an init can do under the    *)
(* draft of an edit is to empty the registry.                              *)

InitsSaveNothing ==
    \A p \in Procs : cmd[p] # NoCommand /\ cmd[p].op = "init" => draft[p] = EmptyDocument

DraftIsCurrentOrEmptied ==
    \A p \in Procs : Holding(p) /\ Saving(p) =>
        draft[p] \in Effects(cmd[p], file) \/ file = EmptyDocument

InitRaceInv == LockInv /\ InitsSaveNothing /\ DraftIsCurrentOrEmptied

LEMMA InitRaceNext ==
    ASSUME CarefulUser
    PROVE  InitRaceInv /\ [Next]_vars => InitRaceInv'
<1> SUFFICES ASSUME InitRaceInv, [Next]_vars
             PROVE  InitRaceInv'
  OBVIOUS
<1> USE DEF InitRaceInv, InitsSaveNothing, DraftIsCurrentOrEmptied
<1>1. /\ LockInv /\ LockInv'
      /\ TypeOK /\ PhaseInv
      /\ \A p \in Procs : pc[p] = "idle" => draft[p] = EmptyDocument
  BY LockInvNext DEF LockInv, SaveInv
<1>2. ASSUME NEW p \in Procs, Start(p)
      PROVE  InitRaceInv'
  <2>1. /\ pc[p] = "idle" /\ UNCHANGED <<file, draft>>
        /\ \A q \in Procs : q # p => cmd'[q] = cmd[q] /\ pc'[q] = pc[q]
        /\ pc'[p] = "create" => cmd'[p].op = "init"
        /\ pc'[p] \in {"create", "acquire"}
    BY <1>1, <1>2 DEF Start, BeginNew, BeginEdit, BeginRm, Begin, Goto, PhaseInv, TypeOK,
                      AtomicTypeOK
  <2> QED
    BY <1>1, <2>1 DEF Holding, Saving
<1>3. ASSUME NEW p \in Procs, LoadAndEdit(p)
      PROVE  InitRaceInv'
  <2>1. PICK d \in Effects(cmd[p], file) : draft' = [draft EXCEPT ![p] = d]
    BY <1>3 DEF LoadAndEdit, Savable
  <2>2. cmd[p].op # "init" /\ UNCHANGED <<file, cmd>> /\ pc' = [pc EXCEPT ![p] = "create"]
    BY <1>1, <1>3 DEF LoadAndEdit, LockInv, Goto
  <2> QED
    BY <1>1, <2>1, <2>2 DEF Holding, Saving, TypeOK
<1>4. ASSUME NEW p \in Procs, Publish(p)
      PROVE  InitRaceInv'
  <2>1. /\ UNCHANGED <<cmd, draft>> /\ pc[p] = "publish" /\ cmd[p] # NoCommand
        /\ pc' = [pc EXCEPT ![p] = Leave(p)] /\ file' = draft[p]
    BY <1>1, <1>4, PublishSound DEF Publish, Goto, LockInv, PhaseInv
  <2>2. CASE cmd[p].op = "init"
    BY <1>1, <2>1, <2>2
  <2>3. CASE cmd[p].op # "init"
    <3>1. \A q \in Procs : Holding(q) => q = p
      BY <1>1, <2>1, <2>3 DEF LockInv, Holding
    <3>2. \A q \in Procs : ~(Holding(q) /\ Saving(q))'
      BY <1>1, <2>1, <2>3, <3>1 DEF Holding, Saving, Leave, TypeOK
    <3> QED
      BY <1>1, <2>1, <3>2
  <2> QED
    BY <2>2, <2>3
<1>5. ASSUME NEW p \in Procs,
             GiveUp(p) \/ Acquire(p) \/ LockTimeout(p) \/ RefuseEdit(p) \/ CreateTemp(p)
             \/ WriteTemp(p) \/ SaveFails(p)
      PROVE  InitRaceInv'
  <2>1. /\ UNCHANGED <<file, cmd, draft>>
        /\ \A q \in Procs : (Holding(q) /\ Saving(q))' => Holding(q) /\ Saving(q)
    BY <1>1, <1>5 DEF GiveUp, Acquire, LockTimeout, RefuseEdit, CreateTemp, WriteTemp,
                      SaveFails, Goto, Leave, Holding, Saving, TypeOK
  <2> QED
    BY <1>1, <2>1
<1>6. ASSUME NEW p \in Procs, Release(p) \/ Finish(p) \/ Crash(p)
      PROVE  InitRaceInv'
  <2>1. file' = file /\ Exit(p)
    BY <1>6 DEF Release, Finish, Crash
  <2>2. \A q \in Procs :
            /\ pc'[q] = IF q = p THEN "idle" ELSE pc[q]
            /\ cmd'[q] = IF q = p THEN NoCommand ELSE cmd[q]
            /\ draft'[q] = IF q = p THEN EmptyDocument ELSE draft[q]
    BY <1>1, <2>1 DEF Exit, Goto, TypeOK, AtomicTypeOK
  <2> QED
    BY <1>1, <2>1, <2>2 DEF Holding, Saving
<1>7. CASE DeleteLock \/ UNCHANGED vars
  BY <1>1, <1>7 DEF DeleteLock, vars, Holding, Saving
<1> QED
  BY <1>2, <1>3, <1>4, <1>5, <1>6, <1>7 DEF Next, Run, Proceed

LEMMA InitRaceInvariant ==
    ASSUME CarefulUser
    PROVE  Spec => []InitRaceInv
<1>1. Init => InitRaceInv
  BY LockInvInit
     DEF Init, AtomicInit, InitRaceInv, InitsSaveNothing, DraftIsCurrentOrEmptied, Saving
<1> QED
  BY <1>1, InitRaceNext, PTL DEF Spec

(* What an init can cost at most: also beside one, an instance leaves the  *)
(* registry only at the instant an rm of its name saves, or an init.  No   *)
(* later save of another command loses anything, though its draft may be   *)
(* of the registry as it was before that init (main.rs, cmd_init and       *)
(* update_registry).                                                       *)
THEOREM OnlyRmAndInitRemove ==
    ASSUME CarefulUser
    PROVE  Spec =>
               [][\A n \in Names :
                      Loadable(file) /\ Loaded(file)[n] # Absent /\ Loaded(file')[n] = Absent
                      => \E p \in Procs :
                             /\ pc[p] = "publish"
                             /\ \/ cmd[p].op = "rm" /\ cmd[p].name = n
                                \/ cmd[p].op = "init"]_vars
<1>1. ASSUME InitRaceInv, [Next]_vars, NEW n \in Names,
             Loadable(file), Loaded(file)[n] # Absent, Loaded(file')[n] = Absent
      PROVE  \E p \in Procs : /\ pc[p] = "publish"
                              /\ \/ cmd[p].op = "rm" /\ cmd[p].name = n
                                 \/ cmd[p].op = "init"
  <2>1. PICK p \in Procs : Publish(p)
    BY <1>1, OnlyPublishWrites
  <2>2. Loaded(file') = draft[p] /\ file # EmptyDocument
    BY <1>1, <2>1, PublishSound DEF InitRaceInv, LockInv, Loaded, EmptyDocument
  <2>3. pc[p] = "publish" /\ cmd[p] \in Commands
    BY <1>1, <2>1 DEF Publish, InitRaceInv, LockInv, SaveInv, TypeOK, AtomicTypeOK, PhaseInv
  <2>4. CASE cmd[p].op # "init"
    <3>1. draft[p] \in Effects(cmd[p], file)
      BY <1>1, <2>2, <2>3, <2>4 DEF InitRaceInv, DraftIsCurrentOrEmptied, Holding, Saving
    <3> QED
      BY <1>1, <2>2, <2>3, <3>1, OnlyRmRemoves
  <2> QED
    BY <2>3, <2>4
<1>2. InitRaceInv /\ [Next]_vars =>
          [\A n \in Names :
               Loadable(file) /\ Loaded(file)[n] # Absent /\ Loaded(file')[n] = Absent
               => \E p \in Procs : /\ pc[p] = "publish"
                                   /\ \/ cmd[p].op = "rm" /\ cmd[p].name = n
                                      \/ cmd[p].op = "init"]_vars
  BY <1>1
<1> QED
  BY <1>2, InitRaceInvariant, PTL DEF Spec

(* An instance is where it was added for as long as it is registered: no   *)
(* command moves it to another port or workspace, not even one whose draft *)
(* is of the registry before an init beside it (main.rs, cmd_edit and      *)
(* update_registry).                                                       *)
THEOREM InstancesKeepTheirPlace ==
    ASSUME CarefulUser
    PROVE  Spec =>
               [][\A n \in Names :
                      /\ Loadable(file) /\ Loaded(file)[n] # Absent
                      /\ Loadable(file') /\ Loaded(file')[n] # Absent
                      => /\ Loaded(file')[n].port = Loaded(file)[n].port
                         /\ Loaded(file')[n].workspace = Loaded(file)[n].workspace]_vars
<1>1. ASSUME InitRaceInv, [Next]_vars, NEW n \in Names,
             Loadable(file), Loaded(file)[n] # Absent,
             Loadable(file'), Loaded(file')[n] # Absent
      PROVE  /\ Loaded(file')[n].port = Loaded(file)[n].port
             /\ Loaded(file')[n].workspace = Loaded(file)[n].workspace
  <2>1. CASE file' = file
    BY <2>1
  <2>2. CASE file' # file
    <3>1. PICK p \in Procs : Publish(p)
      BY <1>1, <2>2, OnlyPublishWrites
    <3>2. Loaded(file') = draft[p] /\ file # EmptyDocument
      BY <1>1, <3>1, PublishSound DEF InitRaceInv, LockInv, Loaded, EmptyDocument
    <3>3. pc[p] = "publish" /\ cmd[p] \in Commands
      BY <1>1, <3>1 DEF Publish, InitRaceInv, LockInv, SaveInv, TypeOK, AtomicTypeOK, PhaseInv
    <3>4. cmd[p] # NoCommand /\ cmd[p].op # "init"
      BY <1>1, <3>2, <3>3, RegistryAssumption
         DEF InitRaceInv, InitsSaveNothing, EmptyDocument
    <3>5. draft[p] \in Effects(cmd[p], file)
      BY <1>1, <3>2, <3>3, <3>4 DEF InitRaceInv, DraftIsCurrentOrEmptied, Holding, Saving
    <3> QED
      BY <1>1, <3>2, <3>3, <3>5, EffectsKeepPlaces
  <2> QED
    BY <2>1, <2>2
<1>2. InitRaceInv /\ [Next]_vars =>
          [\A n \in Names :
               /\ Loadable(file) /\ Loaded(file)[n] # Absent
               /\ Loadable(file') /\ Loaded(file')[n] # Absent
               => /\ Loaded(file')[n].port = Loaded(file)[n].port
                  /\ Loaded(file')[n].workspace = Loaded(file)[n].workspace]_vars
  BY <1>1
<1> QED
  BY <1>2, InitRaceInvariant, PTL DEF Spec

-----------------------------------------------------------------------------
(* Workspaces.                                                             *)

\* Every workspace a document records is a physical directory, or a spelling
\* that canonicalize may fail to resolve.
Recorded(w) == Resolve[w] = w \/ w \in Unresolved
Physical(doc) == \A n \in Registered(doc) : Recorded(doc[n].workspace)

PhysicalInv ==
    /\ SaveInv
    /\ file \in Documents /\ Consistent(file) => Physical(file)
    /\ \A p \in Procs : Saving(p) => Physical(draft[p])

LEMMA EffectsPhysical ==
    ASSUME NEW c \in Commands, NEW f, Loadable(f), Physical(Loaded(f)),
           NEW d \in Effects(c, f)
    PROVE  Physical(d)
<1> DEFINE l == Loaded(f)
<1>1. l \in Documents
  BY LoadedSound
<1>2. CASE c.op = "init"
  BY <1>2 DEF Effects, Loaded, Physical, EmptyDocument, Registered, Loadable
<1>3. CASE c.op = "add"
  <2>0. d \in AddEffects(c, l)
    BY <1>3 DEF Effects
  <2>1. PICK q \in Allocatable(l), w \in Identities(c.path) : IsAddition(c, l, d, q, w)
    BY <2>0, AddAdds
  <2>2. Recorded(w)
    BY DEF Identities, Recorded, Commands
  <2> QED
    BY <1>1, <2>1, <2>2 DEF Physical, Registered, Documents, Commands, IsAddition
<1>4. CASE c.op = "edit"
  <2>1. PICK e \in {l[c.name]} \ {Absent} :
            d = [l EXCEPT ![c.name] = [e EXCEPT !.model = c.model, !.share = c.share]]
    BY <1>4 DEF Effects, EditEffects
  <2>2. e \in Entries /\ Recorded(e.workspace)
    BY <1>1, <2>1 DEF Documents, Commands, Physical, Registered
  <2>3. [e EXCEPT !.model = c.model, !.share = c.share].workspace = e.workspace
    BY <2>2 DEF Entries
  <2> QED
    BY <1>1, <2>1, <2>2, <2>3 DEF Physical, Registered, Documents, Commands
<1>5. CASE c.op = "rm"
  <2>1. d = [l EXCEPT ![c.name] = Absent]
    BY <1>5 DEF Effects, RmEffects
  <2> QED
    BY <1>1, <2>1 DEF Physical, Registered, Documents, Commands
<1> QED
  BY <1>2, <1>3, <1>4, <1>5 DEF Commands

LEMMA PhysicalInit ==
    ASSUME \A f \in InitialFiles \cap Documents : Physical(f)
    PROVE  Init => PhysicalInv
<1>1. Init => \A p \in Procs : ~Saving(p)
  BY DEF Init, Saving
<1> QED
  BY <1>1, SaveInvInit DEF PhysicalInv, Init, AtomicInit

LEMMA PhysicalNext == PhysicalInv /\ [Next]_vars => PhysicalInv'
<1> SUFFICES ASSUME PhysicalInv, [Next]_vars
             PROVE  PhysicalInv'
  OBVIOUS
<1> USE DEF PhysicalInv
<1>1. SaveInv'
  BY SaveInvNext
<1>2. (file \in Documents /\ Consistent(file) => Physical(file))'
  <2>1. CASE file' = file
    BY <2>1
  <2>2. CASE file' # file
    <3>1. PICK p \in Procs : Publish(p)
      BY <2>2, OnlyPublishWrites
    <3>2. file' = draft[p] /\ Saving(p)
      BY <3>1, PublishSound DEF Publish, Saving
    <3> QED
      BY <3>2
  <2> QED
    BY <2>1, <2>2
<1>3. ASSUME NEW p \in Procs, Saving(p)'
      PROVE  Physical(draft[p])'
  <2>1. CASE Saving(p) /\ draft'[p] = draft[p]
    BY <2>1
  <2>2. CASE LoadAndEdit(p)
    <3>1. Physical(Loaded(file))
      BY <2>2 DEF LoadAndEdit, Loadable, Loaded, Physical, Registered, EmptyDocument
    <3>2. cmd[p] \in Commands
      BY <2>2 DEF LoadAndEdit, SaveInv, TypeOK, AtomicTypeOK, PhaseInv
    <3>3. draft'[p] \in Effects(cmd[p], file) /\ Loadable(file)
      BY <2>2 DEF LoadAndEdit, Savable, SaveInv, TypeOK
    <3> QED
      BY <3>1, <3>2, <3>3, EffectsPhysical
  <2>3. CASE BeginNew(p)
    <3>1. draft'[p] = EmptyDocument
      BY <2>3 DEF BeginNew, Begin, SaveInv, PhaseInv
    <3> QED
      BY <3>1 DEF Physical, EmptyDocument, Registered
  <2>4. (Saving(p) /\ draft'[p] = draft[p]) \/ LoadAndEdit(p) \/ BeginNew(p)
    BY <1>3 DEF Saving, Next, vars, Start, BeginNew, BeginEdit, BeginRm,
           Begin, Run, Proceed, GiveUp, Acquire, LockTimeout, LoadAndEdit, RefuseEdit,
           CreateTemp, WriteTemp, Publish, SaveFails, Release, Finish, Crash, Abandoned,
           Exit, Goto, Leave, DeleteLock, SaveInv, TypeOK, AtomicTypeOK
  <2> QED
    BY <2>1, <2>2, <2>3, <2>4
<1> QED
  BY <1>1, <1>2, <1>3

LEMMA PhysicalIsDistinct == PhysicalInv => DirectoriesDistinct
BY DEF PhysicalInv, DirectoriesDistinct, Physical, Recorded, Consistent, Registered,
       Documents

(* If the registry the router starts from records physical directories, or *)
(* spellings that canonicalize may fail to resolve, two instances never    *)
(* come to share a directory unless one of them is recorded by such a      *)
(* spelling (main.rs, cmd_add; workspace.rs, identity).                    *)
THEOREM DirectoriesStayDistinct ==
    ASSUME \A f \in InitialFiles \cap Documents : Physical(f)
    PROVE  Spec => []DirectoriesDistinct
BY PhysicalInit, PhysicalNext, PhysicalIsDistinct, PTL DEF Spec
=============================================================================
