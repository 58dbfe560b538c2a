-------------------------- MODULE StateRootProofs ---------------------------
(***************************************************************************)
(* What StateRoot guarantees for any models, commands and mishaps, while   *)
(* one command runs at a time.                                             *)
(***************************************************************************)
EXTENDS StateRoot, TLAPS

(* Two commands never run at once.                                         *)
OneAtATime == \A p, q \in Procs : p = q

-----------------------------------------------------------------------------
(* Types, which need no such assumption.                                   *)

LEMMA TypeInit == Init => TypeOK
<1> SUFFICES ASSUME Init PROVE TypeOK
  OBVIOUS
<1>1. [model |-> Default, share |-> FALSE] \in Entries
  BY DEF Entries
<1>2. draft \in [Procs -> Entries]
  BY <1>1 DEF Init
<1>3. QED
  BY <1>2 DEF Init, TypeOK

LEMMA TypeNext == TypeOK /\ [Next]_vars => TypeOK'
<1> SUFFICES ASSUME TypeOK, [Next]_vars PROVE TypeOK'
  OBVIOUS
<1> USE DEF TypeOK, StartPhases, EditPhases, files, control
<1>1. ASSUME NEW p \in Procs, Add(p) \/ Rm(p)
      PROVE  TypeOK'
  BY <1>1 DEF Add, Rm
<1>2. ASSUME NEW p \in Procs, BeginStart(p)
      PROVE  TypeOK'
  BY <1>2, GoneAssumption DEF BeginStart
<1>3. ASSUME NEW p \in Procs, MakeRoot(p) \/ CheckCredentials(p) \/ Spawn(p)
      PROVE  TypeOK'
  BY <1>3 DEF MakeRoot, CheckCredentials, Spawn, Goto, Look
<1>11. ASSUME NEW p \in Procs, CheckSettings(p)
      PROVE  TypeOK'
  <2>1. draft[p].model # Default => draft[p].model \in Models
    BY DEF Entries
  <2>2. QED
    BY <1>11, <2>1 DEF CheckSettings, Goto
<1>4. ASSUME NEW p \in Procs, WriteSettings(p)
      PROVE  TypeOK'
  BY <1>4 DEF WriteSettings, Goto
<1>5. ASSUME NEW p \in Procs, BeginEdit(p)
      PROVE  TypeOK'
  <2>1. entry \in Entries
    BY <1>5 DEF BeginEdit
  <2>2. draft' \in [Procs -> Entries]
    BY <1>5, <2>1 DEF BeginEdit, Entries
  <2>3. QED
    BY <1>5, <2>2 DEF BeginEdit
<1>6. ASSUME NEW p \in Procs, Remove(p) \/ Record(p)
      PROVE  TypeOK'
  BY <1>6 DEF Remove, Record, Goto
<1>12. ASSUME NEW p \in Procs, Reconcile(p)
      PROVE  TypeOK'
  BY <1>12 DEF Reconcile, Look
<1>7. ASSUME NEW p \in Procs, Link(p) \/ LinkFails(p) \/ WriteEmpty(p)
      PROVE  TypeOK'
  BY <1>7 DEF Link, LinkFails, WriteEmpty, Onward, Goto
<1>8. ASSUME NEW p \in Procs, Fail(p) \/ Kill(p) \/ RecordFails(p)
      PROVE  TypeOK'
  BY <1>8 DEF Fail, Kill, RecordFails, GiveUp, Goto
<1>9. ASSUME ChooseModel \/ EnterKey \/ EndHarness \/ ChangeHost
      PROVE  TypeOK'
  BY <1>9 DEF ChooseModel, EnterKey, EndHarness, ChangeHost
<1>10. ASSUME UNCHANGED vars
       PROVE  TypeOK'
  BY <1>10 DEF vars
<1> QED
  BY <1>1, <1>2, <1>3, <1>4, <1>5, <1>6, <1>7, <1>8, <1>9, <1>10, <1>11, <1>12
     DEF Next, Command

(* The variables keep their types, and a command is in a phase of its own  *)
(* kind, however many run at once.                                         *)
THEOREM StateRootTyped == Spec => []TypeOK
<1>1. QED
  BY TypeInit, TypeNext, PTL DEF Spec
-----------------------------------------------------------------------------
(* What a command knows of the files in each of its phases, and what a     *)
(* harness that runs meanwhile tells of them.                              *)

StartKnows(p) ==
    /\ pc[p] = "choose" => settings = "absent" /\ ~running
    /\ pc[p] = "spawn" => file # "none"
    /\ op[p] = "start" /\ pc[p] \notin {"idle", "root"} => root
    /\ pc[p] # "idle" /\ op[p] = "start" => draft[p] = entry
    /\ op[p] = "start" /\ pc[p] \in {"credentials", "link", "write", "spawn"} =>
           draft[p].model = Default \/ settings # "absent"

EditKnows(p) ==
    /\ pc[p] # "idle" /\ op[p] # "start" => ~running
    /\ pc[p] \in {"reconcile", "remove"} => op[p] = "sharing"
    /\ pc[p] = "record" /\ op[p] = "sharing" /\ ~draft[p].share => file # "link"

\* A file is written in the place of none, or through a link that led to none.
WriteKnows(p) ==
    /\ pc[p] \in {"remove", "link", "write"} => root
    /\ pc[p] = "link" => file = "none" /\ draft[p].share
    /\ pc[p] = "write" =>
           \/ file = "none"
           \/ file = "link" /\ op[p] = "start" /\ ~looked[p]

\* A harness has a credential file, and settings where a model is pinned.
HarnessKnows ==
    running => /\ file # "none" /\ root /\ entry # Gone
               /\ entry.model = Default \/ settings # "absent"

RootInv ==
    /\ TypeOK
    /\ ~root => file # "link"
    /\ HarnessKnows
    /\ \A p \in Procs : pc[p] # "idle" => entry # Gone
    /\ \A p \in Procs : StartKnows(p) /\ EditKnows(p) /\ WriteKnows(p)

LEMMA RootInit == Init => RootInv
BY TypeInit DEF Init, RootInv, HarnessKnows, StartKnows, EditKnows, WriteKnows

(* A command that ends knows nothing any more.                             *)
LEMMA EndKeepsRootInv ==
    ASSUME RootInv, TypeOK', NEW p \in Procs, OneAtATime, Goto(p, "idle"), UNCHANGED <<entry, files, running>>
    PROVE  RootInv'
BY DEF RootInv, TypeOK, OneAtATime, Goto, files, HarnessKnows, StartKnows, EditKnows,
       WriteKnows

LEMMA RootNext == OneAtATime /\ RootInv /\ [Next]_vars => RootInv'
<1> SUFFICES ASSUME OneAtATime, RootInv, [Next]_vars PROVE RootInv'
  OBVIOUS
<1>0. TypeOK /\ TypeOK'
  BY TypeNext DEF RootInv
<1> USE <1>0 DEF RootInv, OneAtATime, HarnessKnows, StartKnows, EditKnows, WriteKnows
<1>1. ASSUME NEW p \in Procs, Add(p) \/ Rm(p)
      PROVE  RootInv'
  BY <1>1 DEF Add, Rm, files, control
<1>2. ASSUME NEW p \in Procs, BeginStart(p)
      PROVE  RootInv'
  BY <1>2 DEF BeginStart, files, TypeOK
<1>12. ASSUME NEW p \in Procs, BeginEdit(p)
      PROVE  RootInv'
  BY <1>12 DEF BeginEdit, files, TypeOK
<1>3. ASSUME NEW p \in Procs, MakeRoot(p)
      PROVE  RootInv'
  BY <1>3 DEF MakeRoot, Goto, TypeOK
<1>13. ASSUME NEW p \in Procs, CheckSettings(p) \/ WriteSettings(p)
      PROVE  RootInv'
  <2>1. op[p] = "start" /\ draft[p] = entry /\ root
    BY <1>13 DEF CheckSettings, WriteSettings, TypeOK, EditPhases
  <2>2. CASE CheckSettings(p)
    BY <2>1, <2>2 DEF CheckSettings, Goto, files, TypeOK
  <2>3. CASE WriteSettings(p)
    <3>1. draft[p].model # "absent"
      BY StateRootAssumption, <2>1 DEF TypeOK, Entries
    <3>2. QED
      BY <2>1, <2>3, <3>1 DEF WriteSettings, Goto, TypeOK
  <2>4. QED
    BY <1>13, <2>2, <2>3
<1>4. ASSUME NEW p \in Procs, CheckCredentials(p)
      PROVE  RootInv'
  <2>1. op[p] = "start" /\ root
    BY <1>4 DEF CheckCredentials, TypeOK, EditPhases
  <2>2. QED
    BY <1>4, <2>1 DEF CheckCredentials, FileExists, Look, files, TypeOK
<1>5. ASSUME NEW p \in Procs, Reconcile(p) \/ Remove(p)
      PROVE  RootInv'
  BY <1>5 DEF Reconcile, Remove, Goto, Look, files, TypeOK
<1>6. ASSUME NEW p \in Procs, Link(p) \/ LinkFails(p)
      PROVE  RootInv'
  BY <1>6 DEF Link, LinkFails, Onward, Goto, files, TypeOK
<1>7. ASSUME NEW p \in Procs, WriteEmpty(p)
      PROVE  RootInv'
  BY <1>7 DEF WriteEmpty, Onward, Goto, files, TypeOK
<1>14. ASSUME NEW p \in Procs, Spawn(p)
      PROVE  RootInv'
  <2>1. op[p] = "start" /\ root
    BY <1>14 DEF Spawn, TypeOK, EditPhases
  <2>2. QED
    BY <1>14, <2>1 DEF Spawn, Goto, files, TypeOK
<1>8. ASSUME NEW p \in Procs, Record(p)
      PROVE  RootInv'
  <2>1. op[p] # "start" /\ ~running
    BY <1>8 DEF Record, TypeOK, StartPhases
  <2>2. QED
    BY <1>8, <2>1 DEF Record, Goto, files, TypeOK
<1>15. ASSUME NEW p \in Procs, Fail(p) \/ Kill(p) \/ RecordFails(p)
      PROVE  RootInv'
  BY <1>15, EndKeepsRootInv DEF Fail, Kill, RecordFails, GiveUp
<1>9. ASSUME ChooseModel \/ EnterKey
      PROVE  RootInv'
  BY <1>9 DEF ChooseModel, EnterKey, control
<1>10. ASSUME EndHarness \/ ChangeHost
       PROVE  RootInv'
  BY <1>10 DEF EndHarness, ChangeHost, files, control
<1>11. ASSUME UNCHANGED vars
       PROVE  RootInv'
  BY <1>11 DEF vars, files, control, FileExists
<1> QED
  BY <1>1, <1>2, <1>3, <1>4, <1>5, <1>6, <1>7, <1>8, <1>9, <1>10, <1>11, <1>12, <1>13,
     <1>14, <1>15 DEF Next, Command

LEMMA RootInvHolds == ASSUME OneAtATime PROVE Spec => []RootInv
<1>1. QED
  BY RootInit, RootNext, PTL DEF Spec
(* Sharing that is turned off is off when the registry says so, whatever   *)
(* fails or is killed on the way.                                          *)
THEOREM SharingReallyStops == ASSUME OneAtATime PROVE Spec => []SharingStops
<1>1. RootInv => SharingStops
  BY DEF RootInv, EditKnows, SharingStops
<1>2. QED
  BY <1>1, RootInvHolds, PTL

(* No command empties a credential file of the host that was there when    *)
(* it looked, whoever else writes or removes it.                           *)
THEOREM HostKeysStay == ASSUME OneAtATime PROVE Spec => HostKeysKept
<1>1. RootInv /\ [Next]_vars =>
          [\A p \in Procs :
               WriteEmpty(p) /\ host = "keyed" /\ host' = "empty" => ~looked[p]]_vars
  BY DEF WriteEmpty, RootInv, WriteKnows
<1>2. QED
  BY <1>1, RootInvHolds, PTL DEF Spec, HostKeysKept

(* Whatever earlier commands have left behind, a harness is started, or    *)
(* taken over, with a credential file.                                     *)
THEOREM HarnessesStartWithFile == ASSUME OneAtATime PROVE Spec => StartsWithFile
<1>1. RootInv /\ [Next]_vars => [\A p \in Procs : Spawn(p) => file # "none"]_vars
  BY DEF Spawn, RootInv, StartKnows
<1>2. QED
  BY <1>1, RootInvHolds, PTL DEF Spec, StartsWithFile

(* A start neither reverts a model that was chosen...                      *)
THEOREM ChoicesStay == ASSUME OneAtATime PROVE Spec => ChoiceKept
<1>1. RootInv /\ [Next]_vars => [settings = "chosen" => settings' = "chosen"]_settings
  <2> SUFFICES ASSUME RootInv, [Next]_vars, settings = "chosen"
               PROVE  settings' = "chosen"
    OBVIOUS
  <2>1. ASSUME NEW p \in Procs, Command(p)
        PROVE  settings' = "chosen"
    <3>1. CASE WriteSettings(p)
      BY <3>1 DEF WriteSettings, RootInv, StartKnows
    <3>2. CASE ~WriteSettings(p)
      BY <2>1, <3>2
         DEF Command, Add, Rm, BeginStart, MakeRoot, CheckSettings, CheckCredentials,
             Spawn, BeginEdit, Reconcile, Remove, Record, Link, LinkFails, WriteEmpty,
             Fail, Kill, RecordFails, GiveUp, files
    <3>3. QED
      BY <3>1, <3>2
  <2>2. QED
    BY <2>1 DEF Next, ChooseModel, EnterKey, EndHarness, ChangeHost, vars, files
<1>2. QED
  BY <1>1, RootInvHolds, PTL DEF Spec, ChoiceKept

(* ... nor does it lose a key that was entered.                            *)
THEOREM KeysStay == ASSUME OneAtATime PROVE Spec => KeysSurviveStarts
<1> DEFINE Asked == \E p \in Procs : op[p] = "sharing" /\ pc[p] = "remove"
<1>1. RootInv /\ [Next]_vars => [file = "keyed" /\ file' # "keyed" => Asked]_vars
  <2> SUFFICES ASSUME RootInv, [Next]_vars, file = "keyed", file' # "keyed"
               PROVE  Asked
    OBVIOUS
  <2>1. ASSUME NEW p \in Procs, Command(p)
        PROVE  Asked
    <3>1. CASE Link(p) \/ WriteEmpty(p)
      BY <3>1 DEF Link, WriteEmpty, RootInv, WriteKnows
    <3>2. CASE Remove(p)
      BY <3>2 DEF Remove, RootInv, EditKnows
    <3>3. CASE ~(Link(p) \/ WriteEmpty(p) \/ Remove(p))
      BY <2>1, <3>3
         DEF Command, Add, Rm, BeginStart, MakeRoot, CheckSettings, WriteSettings,
             CheckCredentials, Spawn, BeginEdit, Reconcile, Record, LinkFails,
             Fail, Kill, RecordFails, GiveUp, files
    <3>4. QED
      BY <3>1, <3>2, <3>3
  <2>2. QED
    BY <2>1 DEF Next, ChooseModel, EnterKey, EndHarness, ChangeHost, vars, files
<1>2. QED
  BY <1>1, RootInvHolds, PTL DEF Spec, KeysSurviveStarts

-----------------------------------------------------------------------------
(* What links the file and the registry while nothing is removed from the  *)
(* registry, and no edit is cut off between the two.                       *)

\* A command that has begun is about the entry as it is.
DraftKnows(p) ==
    /\ pc[p] # "idle" => entry # Gone
    /\ pc[p] # "idle" /\ op[p] # "sharing" => draft[p].share = entry.share

LinkInv ==
    /\ RootInv
    /\ \A p \in Procs : DraftKnows(p)
    /\ file = "link" =>
           /\ entry # Gone
           /\ \/ entry.share
              \/ \E p \in Procs : pc[p] = "record" /\ draft[p].share

LEMMA LinkInit == Init => LinkInv
  BY RootInit DEF Init, LinkInv, DraftKnows

LEMMA LinkNext ==
    ASSUME OneAtATime, "rm" \notin Commands, "unrecorded" \notin Mishaps
    PROVE  LinkInv /\ [Next]_vars => LinkInv'
<1> SUFFICES ASSUME LinkInv, [Next]_vars PROVE LinkInv'
  OBVIOUS
<1>0. RootInv /\ RootInv' /\ TypeOK /\ TypeOK'
  BY RootNext DEF LinkInv, RootInv
<1> USE <1>0 DEF LinkInv, DraftKnows, OneAtATime
<1>1. ASSUME NEW p \in Procs, Add(p)
      PROVE  LinkInv'
  BY <1>1, GoneAssumption DEF Add, files, control
<1>2. ASSUME NEW p \in Procs, BeginStart(p)
      PROVE  LinkInv'
  BY <1>2 DEF BeginStart, files, TypeOK
<1>3. ASSUME NEW p \in Procs, BeginEdit(p)
      PROVE  LinkInv'
  BY <1>3 DEF BeginEdit, files, TypeOK
<1>4. ASSUME NEW p \in Procs,
             \/ MakeRoot(p) \/ CheckSettings(p) \/ WriteSettings(p)
             \/ CheckCredentials(p) \/ Spawn(p) \/ Reconcile(p) \/ LinkFails(p)
      PROVE  LinkInv'
  BY <1>4 DEF MakeRoot, CheckSettings, WriteSettings, CheckCredentials, Spawn,
              Reconcile, LinkFails, Goto, Look, files, TypeOK
<1>5. ASSUME NEW p \in Procs, Remove(p)
      PROVE  LinkInv'
  BY <1>5 DEF Remove, Goto, TypeOK
<1>6. ASSUME NEW p \in Procs, Link(p)
      PROVE  LinkInv'
  <2>1. draft[p].share /\ entry # Gone
    BY <1>6 DEF Link, RootInv, WriteKnows
  <2>2. op[p] \in {"model", "sharing"} => pc'[p] = "record"
    BY <1>6 DEF Link, Onward, Goto, TypeOK
  <2>3. op[p] = "start" => entry.share
    BY <1>6, <2>1 DEF Link
  <2>4. QED
    BY <1>6, <2>1, <2>2, <2>3 DEF Link, Onward, Goto, TypeOK
<1>7. ASSUME NEW p \in Procs, WriteEmpty(p)
      PROVE  LinkInv'
  BY <1>7 DEF WriteEmpty, Onward, Goto, TypeOK
<1>8. ASSUME NEW p \in Procs, Record(p)
      PROVE  LinkInv'
  <2>1. entry' = draft[p] /\ entry' # Gone
    BY <1>8, GoneAssumption DEF Record, TypeOK
  <2>2. file = "link" => draft[p].share
    BY <1>8 DEF Record, RootInv, EditKnows, TypeOK
  <2>3. QED
    BY <1>8, <2>1, <2>2 DEF Record, Goto, files, TypeOK
<1>9. ASSUME NEW p \in Procs, Fail(p) \/ Kill(p)
      PROVE  LinkInv'
  BY <1>9 DEF Fail, Kill, GiveUp, Goto, files, TypeOK
<1>10. ASSUME ChooseModel \/ EnterKey \/ EndHarness \/ ChangeHost
       PROVE  LinkInv'
  BY <1>10 DEF ChooseModel, EnterKey, EndHarness, ChangeHost, files, control
<1>11. ASSUME UNCHANGED vars
       PROVE  LinkInv'
  BY <1>11 DEF vars, files, control
<1> QED
  BY <1>1, <1>2, <1>3, <1>4, <1>5, <1>6, <1>7, <1>8, <1>9, <1>10, <1>11
     DEF Next, Command, Rm, RecordFails

(* Unless an instance is removed and added again, or an edit is cut off    *)
(* before it is recorded, a private instance never reads the host's        *)
(* credentials.                                                            *)
THEOREM PrivateStaysUnreachable ==
    ASSUME OneAtATime, "rm" \notin Commands, "unrecorded" \notin Mishaps
    PROVE  Spec => []PrivateIsUnreachable
<1>1. LinkInv => PrivateIsUnreachable
  BY DEF LinkInv, PrivateIsUnreachable, Idle
<1>2. QED
  BY <1>1, LinkInit, LinkNext, PTL DEF Spec
=============================================================================
