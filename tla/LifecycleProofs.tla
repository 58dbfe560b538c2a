-------------------------- MODULE LifecycleProofs ---------------------------
(***************************************************************************)
(* What Lifecycle guarantees to processes the router did not start, proved *)
(* for any sets of commands and process ids: KillInv holds with every      *)
(* mishap, GuardInv where no program takes the port under a running        *)
(* command.  Then what the commands guarantee about the harness they did   *)
(* start, for any number of them that come one after the other: AloneInv,  *)
(* and with fewer mishaps OwnInv and UrlInv.                               *)
(***************************************************************************)
EXTENDS Lifecycle, FiniteSetTheorems, TLAPS

-----------------------------------------------------------------------------
(* The variables keep their types, and a command that uses its child or    *)
(* its target has one (multi.rs, start; process.rs, stop_listener_on).     *)

LEMMA TypeInit == Init => TypeOK
BY LifecycleAssumption DEF Init, TypeOK, MaybePids, Kinds, Phases, Foreign

LEMMA TypeNext == TypeOK /\ [Next]_vars => TypeOK'
<1> SUFFICES ASSUME TypeOK, [Next]_vars PROVE TypeOK'
  OBVIOUS
<1> USE DEF MaybePids, Kinds, Phases, Foreign
<1>1. ASSUME NEW p \in Procs, Start(p)
      PROVE  TypeOK'
  <2>1. CASE BeginAdd(p)
    BY <2>1 DEF BeginAdd, Begin, osVars, TypeOK
  <2>2. CASE BeginStart(p)
    BY <2>2 DEF BeginStart, Begin, osVars, TypeOK
  <2>3. CASE BeginRestart(p)
    BY <2>3 DEF BeginRestart, Begin, osVars, TypeOK
  <2>4. CASE BeginStop(p)
    BY <2>4 DEF BeginStop, Begin, osVars, TypeOK
  <2> QED
    BY <1>1, <2>1, <2>2, <2>3, <2>4 DEF Start
<1>2. ASSUME NEW p \in Procs,
             ProbePort(p) \/ CheckOwner(p) \/ StartFails(p) \/ ChildExits(p)
             \/ ConfirmReady(p) \/ Crash(p)
      PROVE  TypeOK'
  BY <1>2 DEF ProbePort, CheckOwner, StartFails, ChildExits, ConfirmReady, Crash,
              Goto, Leave, osVars, fileVars, TypeOK
<1>3. ASSUME NEW p \in Procs,
             CheckServing(p) \/ CheckWhose(p) \/ ConfirmStopped(p)
      PROVE  TypeOK'
  BY <1>3 DEF CheckServing, CheckWhose, ConfirmStopped, Goto, Leave, Stopped,
              NotOurs, osVars, fileVars, TypeOK
<1>4. ASSUME NEW p \in Procs, Remove(p)
       PROVE  TypeOK'
  <2>1. registered' \in BOOLEAN
    BY <1>4 DEF Remove, TypeOK
  <2>2. CASE Goto(p, "clearpid")
    BY <1>4, <2>1, <2>2 DEF Remove, Goto, osVars, TypeOK
  <2>3. CASE Leave(p)
    BY <1>4, <2>1, <2>3 DEF Remove, Leave, osVars, TypeOK
  <2> QED
    BY <1>4, <2>2, <2>3 DEF Remove
<1>5. ASSUME NEW p \in Procs, ClearUrl(p) \/ ClearPid(p)
       PROVE  TypeOK'
  BY <1>5 DEF ClearUrl, ClearPid, Goto, Leave, osVars, TypeOK
<1>6. ASSUME NEW p \in Procs, Spawn(p)
      PROVE  TypeOK'
  <2>1. PICK k \in Fresh : /\ Born(k, IF Shim THEN "shim" ELSE "ours", NoPid)
                           /\ child' = [child EXCEPT ![p] = k]
    BY <1>6 DEF Spawn
  <2>2. k \in Pids /\ k # NoPid
    BY LifecycleAssumption DEF Fresh
  <2> QED
    BY <1>6, <2>1, <2>2 DEF Spawn, Born, fileVars, TypeOK
<1>7. ASSUME NEW p \in Procs, RecordChild(p) \/ RecordListener(p)
      PROVE  TypeOK'
  BY <1>7 DEF RecordChild, RecordListener, Goto, Write, osVars, TypeOK
<1>8. ASSUME NEW p \in Procs, ReadUrl(p) \/ PublishUrl(p)
      PROVE  TypeOK'
  BY <1>8 DEF ReadUrl, PublishUrl, Leave, Write, osVars, fileVars, TypeOK
<1>9. ASSUME NEW p \in Procs, Ready(p) \/ Timeout(p) \/ Kill(p)
      PROVE  TypeOK'
  BY <1>9 DEF Ready, Timeout, Kill, Die, Goto, Leave, osVars, fileVars, TypeOK
<1>10. ASSUME NEW p \in Procs, FindListener(p)
      PROVE  TypeOK'
  BY <1>10 DEF FindListener, Stopped, NotOurs, Aim, Goto, Leave, osVars, fileVars, TypeOK
<1>11. ASSUME NEW k \in Pids, Launch(k) \/ Bind(k) \/ Exit(k) \/ End(k)
      PROVE  TypeOK'
  BY <1>11 DEF Launch, Bind, Exit, End, Born, Fresh, Die, fileVars, localVars, TypeOK
<1>12. CASE Intrude
  BY <1>12 DEF Intrude, Born, Fresh, fileVars, localVars, TypeOK
<1>13. CASE UNCHANGED vars
  BY <1>13 DEF vars, osVars, fileVars, localVars, TypeOK
<1> QED
  BY <1>1, <1>2, <1>3, <1>4, <1>5, <1>6, <1>7, <1>8, <1>9, <1>10,
     <1>11, <1>12, <1>13
  DEF Next, Run

(* The variables keep their types; a command that is about to use the      *)
(* process it spawned, or the one it aims at, has one (multi.rs, start;    *)
(* process.rs, stop_listener_on).                                          *)
THEOREM LifecycleTyped == Spec => []TypeOK
BY TypeInit, TypeNext, PTL DEF Spec

-----------------------------------------------------------------------------
(* With every mishap: what the router kills is the process it spawned, or  *)
(* one that looked like a harness when it took aim, and what these have    *)
(* started.  A process id is not given again while a command remembers it. *)

OrphansAreForeign == \A k \in ForeignPids : parent[k] = NoPid

ChildrenAreOurs == \A p \in Procs : child[p] \notin ForeignPids

TargetsAreHarnesses == \A p \in Procs, k \in Pids : target[p] = k => os[k] # "other"

KillInv ==
    /\ TypeOK
    /\ OrphansAreForeign
    /\ ChildrenAreOurs
    /\ TargetsAreHarnesses

(* Processes are born under ids nobody remembers, and foreign ones are     *)
(* nobody's children.                                                      *)
LEMMA BirthKeepsKillInv ==
    ASSUME KillInv, NEW k \in Fresh, NEW kind \in Kinds, NEW by \in MaybePids,
           Born(k, kind, by), kind \in Foreign => by = NoPid
    PROVE  /\ OrphansAreForeign'
           /\ \A p \in Procs : /\ child[p] \notin ForeignPids'
                               /\ \A j \in Pids : target[p] = j => os'[j] # "other"
<1>1. /\ k \in Pids
      /\ \A p \in Procs : k # child[p] /\ k # target[p]
  BY DEF Fresh, Remembered
<1>2. /\ \A j \in Pids : os'[j] = IF j = k THEN kind ELSE os[j]
      /\ \A j \in Pids : parent'[j] = IF j = k THEN by
                                     ELSE IF parent[j] = k THEN NoPid ELSE parent[j]
  BY <1>1 DEF Born, KillInv, TypeOK
<1>3. OrphansAreForeign'
  BY <1>1, <1>2 DEF KillInv, OrphansAreForeign, ForeignPids
<1>4. \A p \in Procs : child[p] \notin ForeignPids'
  BY <1>1, <1>2 DEF KillInv, ChildrenAreOurs, ForeignPids
<1>5. \A p \in Procs, j \in Pids : target[p] = j => os'[j] # "other"
  BY <1>1, <1>2 DEF KillInv, TargetsAreHarnesses
<1> QED
  BY <1>3, <1>4, <1>5

(* A process that dies is foreign no longer.                               *)
LEMMA DeathKeepsKillInv ==
    ASSUME KillInv, NEW S, Die(S)
    PROVE  /\ OrphansAreForeign'
           /\ \A p \in Procs : /\ child[p] \notin ForeignPids'
                               /\ \A j \in Pids : target[p] = j => os'[j] # "other"
<1>1. /\ \A j \in Pids : os'[j] = IF j \in S THEN "gone" ELSE os[j]
      /\ parent' = parent
  BY DEF Die
<1> QED
  BY <1>1 DEF KillInv, OrphansAreForeign, ChildrenAreOurs, TargetsAreHarnesses,
              ForeignPids, Foreign

LEMMA KillInit == Init => KillInv
BY TypeInit, LifecycleAssumption
   DEF Init, KillInv, OrphansAreForeign, ChildrenAreOurs, TargetsAreHarnesses,
       ForeignPids, Foreign

LEMMA KillNext == KillInv /\ [Next]_vars => KillInv'
<1> SUFFICES ASSUME KillInv, [Next]_vars PROVE KillInv'
  OBVIOUS
<1>1. TypeOK /\ TypeOK'
  BY TypeNext DEF KillInv
<1> USE DEF OrphansAreForeign, ChildrenAreOurs, TargetsAreHarnesses, ForeignPids
<1>2. ASSUME NEW p \in Procs, Start(p)
      PROVE  KillInv'
  BY <1>1, <1>2 DEF Start, BeginAdd, BeginStart, BeginRestart, BeginStop, Begin,
                    osVars, KillInv
<1>3. ASSUME UNCHANGED <<os, parent>>,
             NEW p \in Procs,
             child' = child \/ child' = [child EXCEPT ![p] = NoPid],
             target' = target \/ target' = [target EXCEPT ![p] = NoPid]
      PROVE  KillInv'
  BY <1>1, <1>3, LifecycleAssumption DEF KillInv, TypeOK
<1>4. ASSUME NEW p \in Procs,
             ProbePort(p) \/ CheckOwner(p) \/ StartFails(p) \/ RecordChild(p)
             \/ ChildExits(p) \/ ConfirmReady(p) \/ RecordListener(p)
             \/ PublishUrl(p) \/ ReadUrl(p) \/ Crash(p)
      PROVE  KillInv'
  BY <1>3, <1>4 DEF ProbePort, CheckOwner, StartFails, RecordChild, ChildExits,
                    ConfirmReady, RecordListener, PublishUrl, ReadUrl, Crash,
                    Goto, Leave, osVars, fileVars
<1>5. ASSUME NEW p \in Procs,
             CheckServing(p) \/ CheckWhose(p) \/ ConfirmStopped(p) \/ Remove(p)
             \/ ClearUrl(p) \/ ClearPid(p)
      PROVE  KillInv'
  BY <1>3, <1>5 DEF CheckServing, CheckWhose, ConfirmStopped, Remove, ClearUrl,
                    ClearPid, Stopped, NotOurs, Goto, Leave, osVars
<1>6. ASSUME NEW p \in Procs, FindListener(p)
      PROVE  KillInv'
  <2>1. CASE Aim(p) /\ LooksLikeOurs(holder)
    BY <1>1, <1>6, <2>1 DEF FindListener, Aim, LooksLikeOurs, KillInv, TypeOK, osVars
  <2>2. CASE Stopped(p) \/ NotOurs(p) \/ Leave(p)
    BY <1>3, <1>6, <2>2 DEF FindListener, Stopped, NotOurs, Goto, Leave, osVars
  <2> QED
    BY <1>6, <2>1, <2>2 DEF FindListener
<1>7. ASSUME NEW p \in Procs, Spawn(p)
      PROVE  KillInv'
  <2>1. PICK k \in Fresh : /\ Born(k, IF Shim THEN "shim" ELSE "ours", NoPid)
                           /\ child' = [child EXCEPT ![p] = k]
    BY <1>7 DEF Spawn
  <2>2. /\ OrphansAreForeign'
        /\ \A q \in Procs : /\ child[q] \notin ForeignPids'
                            /\ \A j \in Pids : target[q] = j => os'[j] # "other"
    BY <2>1, BirthKeepsKillInv DEF Kinds, MaybePids
  <2>3. k \in Pids /\ os'[k] \notin Foreign
    BY <1>1, <2>1 DEF Fresh, Born, Foreign, TypeOK
  <2> QED
    BY <1>1, <1>7, <2>1, <2>2, <2>3 DEF Spawn, KillInv, TypeOK
<1>8. ASSUME NEW p \in Procs, Ready(p) \/ Timeout(p) \/ Kill(p)
      PROVE  KillInv'
  <2>1. /\ OrphansAreForeign'
        /\ \A q \in Procs : /\ child[q] \notin ForeignPids'
                            /\ \A j \in Pids : target[q] = j => os'[j] # "other"
    BY <1>8, DeathKeepsKillInv DEF Ready, Timeout, Kill
  <2> QED
    BY <1>1, <1>8, <2>1, LifecycleAssumption
       DEF Ready, Timeout, Kill, Goto, Leave, KillInv, TypeOK
<1>9. ASSUME NEW k \in Pids, Exit(k) \/ End(k)
      PROVE  KillInv'
  BY <1>1, <1>9, DeathKeepsKillInv DEF Exit, End, localVars, KillInv
<1>10. ASSUME NEW k \in Pids, Launch(k)
       PROVE  KillInv'
  <2>1. PICK j \in Fresh : Born(j, "ours", k)
    BY <1>10 DEF Launch
  <2> QED
    BY <1>1, <1>10, <2>1, BirthKeepsKillInv
       DEF Launch, localVars, KillInv, Kinds, Foreign, MaybePids
<1>11. ASSUME NEW k \in Pids, Bind(k)
       PROVE  KillInv'
  BY <1>1, <1>11 DEF Bind, localVars, KillInv
<1>12. CASE Intrude
  <2>1. PICK k \in Fresh, kind \in Foreign : Born(k, kind, NoPid)
    BY <1>12 DEF Intrude
  <2> QED
    BY <1>1, <1>12, <2>1, BirthKeepsKillInv
       DEF Intrude, localVars, KillInv, Kinds, MaybePids
<1>13. CASE UNCHANGED vars
  BY <1>1, <1>13 DEF vars, osVars, localVars, KillInv
<1> QED
  BY <1>2, <1>4, <1>5, <1>6, <1>7, <1>8, <1>9, <1>10, <1>11, <1>12, <1>13
  DEF Next, Run

(* What a router command kills: the child of a start that ends its wait,   *)
(* or the target of a stop and what it has started.                        *)
LEMMA RouterKillsWhat ==
    TypeOK /\ [Next]_vars =>
        \A k \in Pids : RouterKills(k) =>
            \E p \in Procs : \/ k = child[p]
                             \/ pc[p] = "kill" /\ k \in Family(target[p])
<1> SUFFICES ASSUME TypeOK, [Next]_vars, NEW k \in Pids, RouterKills(k)
             PROVE  \E p \in Procs : \/ k = child[p]
                                     \/ pc[p] = "kill" /\ k \in Family(target[p])
  OBVIOUS
<1>1. k \in Pids /\ os[k] # "gone" /\ os'[k] = "gone"
  BY DEF RouterKills, Alive
<1>2. \E q \in Procs : pc'[q] # pc[q]
  BY DEF RouterKills
<1>3. ASSUME NEW p \in Procs, Ready(p) \/ Timeout(p)
      PROVE  k = child[p]
  BY <1>1, <1>3 DEF Ready, Timeout, Die
<1>4. ASSUME NEW p \in Procs, Kill(p)
      PROVE  pc[p] = "kill" /\ k \in Family(target[p])
  BY <1>1, <1>4 DEF Kill, Die
<1>5. ASSUME NEW p \in Procs, Spawn(p)
      PROVE  FALSE
  BY <1>1, <1>5 DEF Spawn, Born, Fresh, TypeOK
<1>6. ASSUME NEW p \in Procs, Start(p)
      PROVE  FALSE
  BY <1>1, <1>6 DEF Start, BeginAdd, BeginStart, BeginRestart, BeginStop, Begin, osVars
<1>7. ASSUME NEW p \in Procs,
             ProbePort(p) \/ CheckOwner(p) \/ StartFails(p) \/ RecordChild(p)
             \/ ChildExits(p) \/ ConfirmReady(p) \/ RecordListener(p)
             \/ PublishUrl(p) \/ ReadUrl(p) \/ Crash(p)
      PROVE  FALSE
  BY <1>1, <1>7 DEF ProbePort, CheckOwner, StartFails, RecordChild, ChildExits,
                    ConfirmReady, RecordListener, PublishUrl, ReadUrl, Crash, osVars
<1>8. ASSUME NEW p \in Procs,
             CheckServing(p) \/ CheckWhose(p) \/ FindListener(p) \/ ConfirmStopped(p)
             \/ Remove(p) \/ ClearUrl(p) \/ ClearPid(p)
      PROVE  FALSE
  BY <1>1, <1>8 DEF CheckServing, CheckWhose, FindListener, ConfirmStopped, Remove,
                    ClearUrl, ClearPid, osVars
<1>9. ASSUME NEW j \in Pids, Launch(j) \/ Bind(j) \/ Exit(j) \/ End(j)
      PROVE  FALSE
  BY <1>2, <1>9 DEF Launch, Bind, Exit, End, localVars
<1>10. CASE Intrude
  BY <1>2, <1>10 DEF Intrude, localVars
<1>11. CASE UNCHANGED vars
  BY <1>2, <1>11 DEF vars, localVars
<1> QED
  BY <1>3, <1>4, <1>5, <1>6, <1>7, <1>8, <1>9, <1>10, <1>11 DEF Next, Run

(* Whatever goes wrong and however commands interleave, a program that is  *)
(* not a harness is never killed (process.rs, stop_listener_on).           *)
THEOREM OthersStayUntouched == Spec => OthersUntouched
<1>1. ASSUME KillInv, [Next]_vars
      PROVE  \A k \in Pids : os[k] = "other" => ~RouterKills(k)
  <2> SUFFICES ASSUME NEW k \in Pids, os[k] = "other", RouterKills(k)
               PROVE  FALSE
    OBVIOUS
  <2>1. k \in ForeignPids /\ parent[k] = NoPid
    BY <1>1 DEF KillInv, OrphansAreForeign, ForeignPids, Foreign
  <2>2. PICK p \in Procs : \/ k = child[p]
                           \/ pc[p] = "kill" /\ k \in Family(target[p])
    BY <1>1, <2>1, RouterKillsWhat DEF KillInv
  <2>3. CASE k = child[p]
    BY <1>1, <2>1, <2>3 DEF KillInv, ChildrenAreOurs
  <2>4. CASE pc[p] = "kill" /\ k \in Family(target[p])
    <3>1. k = target[p]
      BY <1>1, <2>1, <2>4 DEF Family, KillInv, TypeOK
    <3> QED
      BY <1>1, <3>1 DEF KillInv, TargetsAreHarnesses
  <2> QED
    BY <2>2, <2>3, <2>4
<1>2. KillInv /\ [Next]_vars => [\A k \in Pids : os[k] = "other" => ~RouterKills(k)]_vars
  BY <1>1
<1> QED
  BY KillInit, KillNext, <1>2, PTL DEF Spec, OthersUntouched

(* The URLs the router remembers, in browser-url and in commands that run. *)
UrlsAreOurs ==
    /\ urlFile \notin ForeignPids
    /\ \A p \in Procs : url[p] \notin ForeignPids

LEMMA UrlsStayOurs == KillInv /\ UrlsAreOurs /\ [Next]_vars => UrlsAreOurs'
<1> SUFFICES ASSUME KillInv, UrlsAreOurs, [Next]_vars PROVE UrlsAreOurs'
  OBVIOUS
<1>1. TypeOK /\ NoPid \notin ForeignPids
  BY LifecycleAssumption DEF KillInv, ForeignPids
<1>2. ASSUME os' = os, urlFile' \in {urlFile, NoPid} \cup {url[p] : p \in Procs},
             NEW p \in Procs,
             url' = url \/ url' = [url EXCEPT ![p] = NoPid]
      PROVE  UrlsAreOurs'
  BY <1>1, <1>2 DEF UrlsAreOurs, ForeignPids, TypeOK
<1>3. ASSUME NEW p \in Procs, Start(p)
      PROVE  UrlsAreOurs'
  BY <1>2, <1>3 DEF Start, BeginAdd, BeginStart, BeginRestart, BeginStop, Begin, osVars
<1>4. ASSUME NEW p \in Procs,
             ProbePort(p) \/ CheckOwner(p) \/ StartFails(p) \/ RecordChild(p)
             \/ ChildExits(p) \/ ConfirmReady(p) \/ RecordListener(p) \/ Crash(p)
      PROVE  UrlsAreOurs'
  BY <1>2, <1>4 DEF ProbePort, CheckOwner, StartFails, RecordChild, ChildExits,
                    ConfirmReady, RecordListener, Crash, Goto, Leave, osVars, fileVars
<1>5. ASSUME NEW p \in Procs,
             CheckServing(p) \/ CheckWhose(p) \/ FindListener(p) \/ ConfirmStopped(p)
             \/ Remove(p) \/ ClearUrl(p) \/ ClearPid(p)
      PROVE  UrlsAreOurs'
  BY <1>2, <1>5 DEF CheckServing, CheckWhose, FindListener, ConfirmStopped, Remove,
                    ClearUrl, ClearPid, Stopped, NotOurs, Aim, Goto, Leave, osVars, fileVars
<1>6. ASSUME NEW p \in Procs, PublishUrl(p)
      PROVE  UrlsAreOurs'
  BY <1>2, <1>6 DEF PublishUrl, Write, Leave, osVars
<1>7. ASSUME NEW p \in Procs, ReadUrl(p)
      PROVE  UrlsAreOurs'
  <2>1. /\ holder # NoPid /\ holder \in Family(child[p])
        /\ url' = [url EXCEPT ![p] = holder] /\ os' = os /\ urlFile' = urlFile
        /\ child[p] # NoPid /\ child[p] \notin ForeignPids
    BY <1>1, <1>7 DEF ReadUrl, UrlToCome, osVars, fileVars, TypeOK, KillInv, ChildrenAreOurs
  <2>2. holder \notin ForeignPids
    BY <2>1 DEF Family, KillInv, OrphansAreForeign
  <2> QED
    BY <1>1, <2>1, <2>2 DEF UrlsAreOurs, ForeignPids, TypeOK
<1>8. ASSUME NEW S, Die(S), UNCHANGED urlFile, NEW p \in Procs,
             url' = url \/ url' = [url EXCEPT ![p] = NoPid]
      PROVE  UrlsAreOurs'
  <2>1. ForeignPids' \subseteq ForeignPids
    BY <1>8 DEF Die, ForeignPids, Foreign
  <2> QED
    BY <1>1, <1>8, <2>1 DEF UrlsAreOurs, TypeOK
<1>9. ASSUME NEW p \in Procs, Ready(p) \/ Timeout(p) \/ Kill(p)
      PROVE  UrlsAreOurs'
  BY <1>8, <1>9 DEF Ready, Timeout, Kill, Goto, Leave, fileVars
<1>10. ASSUME NEW k \in Pids, Exit(k) \/ End(k)
       PROVE  UrlsAreOurs'
  <2>1. ForeignPids' \subseteq ForeignPids
    BY <1>10 DEF Exit, End, Die, ForeignPids, Foreign
  <2> QED
    BY <1>10, <2>1 DEF Exit, End, fileVars, localVars, UrlsAreOurs
<1>11. ASSUME NEW k \in Fresh, NEW kind, NEW by, Born(k, kind, by),
              UNCHANGED <<urlFile, url>>
       PROVE  UrlsAreOurs'
  <2>1. k # urlFile /\ \A p \in Procs : k # url[p]
    BY DEF Fresh, Remembered
  <2>2. ForeignPids' \subseteq ForeignPids \cup {k}
    BY <1>1, <1>11 DEF Born, ForeignPids, Foreign, TypeOK
  <2> QED
    BY <1>11, <2>1, <2>2 DEF UrlsAreOurs
<1>12. ASSUME NEW p \in Procs, Spawn(p)
       PROVE  UrlsAreOurs'
  BY <1>11, <1>12 DEF Spawn, fileVars
<1>13. ASSUME NEW k \in Pids, Launch(k)
       PROVE  UrlsAreOurs'
  BY <1>11, <1>13 DEF Launch, fileVars, localVars
<1>14. CASE Intrude
  BY <1>11, <1>14 DEF Intrude, fileVars, localVars
<1>15. ASSUME (\E k \in Pids : Bind(k)) \/ UNCHANGED vars
       PROVE  UrlsAreOurs'
  BY <1>15 DEF Bind, vars, osVars, fileVars, localVars, UrlsAreOurs, ForeignPids
<1> QED
  BY <1>3, <1>4, <1>5, <1>6, <1>7, <1>9, <1>10, <1>12, <1>13, <1>14, <1>15 DEF Next, Run

(* Whatever goes wrong and however commands interleave, the URL a start    *)
(* announces, like the one open finds in browser-url, carries the token of *)
(* a process the router has started, never of a program that has taken the *)
(* port (main.rs, start_one; browser.rs).                                  *)
THEOREM AnnouncedUrlsAreOurs ==
    Spec => [](UrlsAreOurs /\ \A p \in Procs : Announced(p) \notin ForeignPids)
<1>1. Init => UrlsAreOurs
  BY LifecycleAssumption DEF Init, UrlsAreOurs, ForeignPids
<1>2. UrlsAreOurs => UrlsAreOurs /\ \A p \in Procs : Announced(p) \notin ForeignPids
  BY DEF UrlsAreOurs, Announced
<1> QED
  BY <1>1, <1>2, KillInit, KillNext, UrlsStayOurs, PTL DEF Spec

-----------------------------------------------------------------------------
(* Without race: a start that has seen the port free, or held by the       *)
(* recorded process, goes on finding no foreign process there, so what it  *)
(* records is the router's own.  With lookups in time (without slow) a     *)
(* stop, too, aims at nothing else.                                        *)

Guarded == {"spawn", "record", "await", "identify"}
           \cup IF "slow" \in Mishaps THEN {} ELSE {"listen"}

PortIsGuarded == \A p \in Procs : pc[p] \in Guarded => holder \notin ForeignPids

TargetsAreOurs ==
    "slow" \notin Mishaps => \A p \in Procs : target[p] \notin ForeignPids

GuardInv ==
    /\ KillInv
    /\ ForeignNotAdopted
    /\ TargetsAreOurs
    /\ PortIsGuarded

LEMMA GuardInit == Init => GuardInv
BY KillInit, LifecycleAssumption
   DEF Init, GuardInv, ForeignNotAdopted, TargetsAreOurs, PortIsGuarded, ForeignPids,
       Foreign, Guarded

(* A foreign process is never taken for the recorded one or its child.     *)
LEMMA OwnedIsNotForeign ==
    ASSUME GuardInv, Owned
    PROVE  holder \notin ForeignPids
BY DEF GuardInv, KillInv, OrphansAreForeign, ForeignNotAdopted, Owned, Family

LEMMA BirthKeepsGuardInv ==
    ASSUME GuardInv, NEW k \in Fresh, NEW kind \in Kinds, NEW by \in MaybePids,
           Born(k, kind, by)
    PROVE  /\ \A j \in ForeignPids' : j \in ForeignPids \/ (j = k /\ kind \in Foreign)
           /\ pidFile \notin ForeignPids'
           /\ "slow" \notin Mishaps => \A p \in Procs : target[p] \notin ForeignPids'
<1>1. /\ k \in Pids /\ k # pidFile
      /\ \A p \in Procs : k # target[p]
  BY DEF Fresh, Remembered
<1>2. \A j \in Pids : os'[j] = IF j = k THEN kind ELSE os[j]
  BY <1>1 DEF Born, GuardInv, KillInv, TypeOK
<1> QED
  BY <1>1, <1>2 DEF GuardInv, ForeignNotAdopted, TargetsAreOurs, ForeignPids

LEMMA DeathKeepsGuardInv ==
    ASSUME GuardInv, NEW S, Die(S)
    PROVE  /\ ForeignPids' \subseteq ForeignPids
           /\ holder' \in {holder, NoPid}
BY DEF Die, ForeignPids, Foreign

LEMMA GuardNext ==
    ASSUME "race" \notin Mishaps
    PROVE  GuardInv /\ [Next]_vars => GuardInv'
<1> SUFFICES ASSUME GuardInv, [Next]_vars PROVE GuardInv'
  OBVIOUS
<1>1. KillInv /\ TypeOK /\ KillInv'
  BY KillNext DEF GuardInv, KillInv
<1>2. NoPid \notin ForeignPids /\ NoPid \notin ForeignPids'
  BY LifecycleAssumption DEF ForeignPids
<1> USE DEF ForeignNotAdopted, TargetsAreOurs, PortIsGuarded, Guarded
<1>3. ASSUME UNCHANGED <<os, holder>>,
             pidFile' \in {pidFile, NoPid},
             NEW p \in Procs,
             target' = target \/ target' = [target EXCEPT ![p] = NoPid],
             NEW phase,
             pc' = [pc EXCEPT ![p] = phase],
             phase \in Guarded => holder \notin ForeignPids
      PROVE  GuardInv'
  BY <1>1, <1>2, <1>3 DEF GuardInv, ForeignPids, TypeOK
<1>4. ASSUME NEW p \in Procs, Start(p)
      PROVE  GuardInv'
  <2>1. PICK phase \in {"probe", "check"} : pc' = [pc EXCEPT ![p] = phase]
    BY <1>4 DEF Start, BeginAdd, BeginStart, BeginRestart, BeginStop, Begin
  <2> QED
    BY <1>3, <1>4, <2>1 DEF Start, BeginAdd, BeginStart, BeginRestart, BeginStop,
                            Begin, osVars
<1>5. ASSUME NEW p \in Procs, UNCHANGED <<os, holder, pidFile>>, Leave(p)
      PROVE  GuardInv'
  BY <1>3, <1>5 DEF Leave
<1>6. ASSUME NEW p \in Procs, StartFails(p) \/ ChildExits(p) \/ PublishUrl(p) \/ Crash(p)
      PROVE  GuardInv'
  BY <1>5, <1>6 DEF StartFails, ChildExits, PublishUrl, Crash, osVars, fileVars
<1>7. ASSUME NEW p \in Procs, ProbePort(p) \/ CheckOwner(p) \/ ConfirmReady(p)
      PROVE  GuardInv'
  <2>1. CASE Leave(p)
    BY <1>5, <1>7, <2>1 DEF ProbePort, CheckOwner, ConfirmReady, osVars, fileVars
  <2>2. CASE ProbePort(p)
    BY <1>2, <1>3, <2>2 DEF ProbePort, Goto, osVars, fileVars
  <2>3. CASE CheckOwner(p) /\ Owned /\ Goto(p, "spawn")
    BY <1>3, <2>3, OwnedIsNotForeign DEF CheckOwner, Goto, osVars, fileVars
  <2>4. CASE ConfirmReady(p)
    BY <1>3, <2>4 DEF ConfirmReady, Goto, osVars, fileVars, GuardInv
  <2> QED
    BY <1>7, <2>1, <2>2, <2>3, <2>4 DEF CheckOwner
<1>8. ASSUME NEW p \in Procs, RecordChild(p) \/ RecordListener(p)
      PROVE  GuardInv'
  <2>1. pidFile' \notin ForeignPids
    BY <1>8 DEF RecordChild, RecordListener, Write, GuardInv, KillInv, ChildrenAreOurs
  <2> QED
    BY <1>1, <1>8, <2>1 DEF RecordChild, RecordListener, Goto, osVars, GuardInv,
                            ForeignPids, TypeOK
<1>9. ASSUME NEW p \in Procs, Spawn(p)
      PROVE  GuardInv'
  <2>1. PICK k \in Fresh : Born(k, IF Shim THEN "shim" ELSE "ours", NoPid)
    BY <1>9 DEF Spawn
  <2>2. /\ ForeignPids' \subseteq ForeignPids
        /\ pidFile \notin ForeignPids'
        /\ "slow" \notin Mishaps => \A q \in Procs : target[q] \notin ForeignPids'
    BY <2>1, BirthKeepsGuardInv DEF Kinds, Foreign, MaybePids
  <2> QED
    BY <1>1, <1>9, <2>2 DEF Spawn, fileVars, GuardInv, TypeOK
<1>10. ASSUME NEW p \in Procs, ReadUrl(p)
       PROVE  GuardInv'
  BY <1>1, <1>10 DEF ReadUrl, osVars, fileVars, GuardInv, ForeignPids
<1>11. ASSUME NEW p \in Procs, Ready(p) \/ Timeout(p) \/ Kill(p)
       PROVE  GuardInv'
  <2>1. ForeignPids' \subseteq ForeignPids /\ holder' \in {holder, NoPid}
    BY <1>11, DeathKeepsGuardInv DEF Ready, Timeout, Kill
  <2>2. \A q \in Procs : pc'[q] \in Guarded => pc[q] \in Guarded
    BY <1>1, <1>11 DEF Ready, Timeout, Kill, Goto, Leave, TypeOK
  <2> QED
    BY <1>1, <1>2, <1>11, <2>1, <2>2
       DEF Ready, Timeout, Kill, Goto, Leave, fileVars, GuardInv, TypeOK
<1>12. ASSUME NEW p \in Procs, CheckServing(p) \/ CheckWhose(p)
       PROVE  GuardInv'
  <2>1. CASE CheckServing(p)
    BY <1>2, <1>3, <2>1 DEF CheckServing, Goto, osVars, fileVars
  <2>2. CASE CheckWhose(p) /\ Owned /\ Goto(p, "listen")
    BY <1>3, <2>2, OwnedIsNotForeign DEF CheckWhose, Goto, osVars, fileVars
  <2>3. CASE CheckWhose(p) /\ NotOurs(p)
    BY <1>3, <1>5, <2>3 DEF CheckWhose, NotOurs, Goto, osVars, fileVars
  <2> QED
    BY <1>12, <2>1, <2>2, <2>3 DEF CheckWhose
<1>13. ASSUME NEW p \in Procs, FindListener(p)
       PROVE  GuardInv'
  <2>1. CASE Aim(p)
    BY <1>1, <1>13, <2>1 DEF FindListener, Aim, osVars, fileVars, GuardInv,
                             ForeignPids, TypeOK
  <2>2. CASE Stopped(p)
    <3>1. PICK phase \in {"remove", "clearurl"} : Goto(p, phase)
      BY <2>2 DEF Stopped
    <3> QED
      BY <1>3, <1>13, <3>1 DEF FindListener, Goto, osVars, fileVars
  <2>3. CASE NotOurs(p) \/ Leave(p)
    BY <1>3, <1>5, <1>13, <2>3 DEF FindListener, NotOurs, Goto, osVars, fileVars
  <2> QED
    BY <1>13, <2>1, <2>2, <2>3 DEF FindListener
<1>14. ASSUME NEW p \in Procs,
              ConfirmStopped(p) \/ Remove(p) \/ ClearUrl(p) \/ ClearPid(p)
       PROVE  GuardInv'
  <2>1. CASE Leave(p) /\ pidFile' = pidFile
    BY <1>5, <1>14, <2>1 DEF ConfirmStopped, Remove, ClearUrl, ClearPid, osVars
  <2>2. CASE Leave(p) /\ pidFile' = NoPid
    BY <1>3, <1>14, <2>2 DEF ConfirmStopped, Remove, ClearUrl, ClearPid, Leave, osVars
  <2>3. CASE \E phase \in {"remove", "clearurl", "clearpid"} : Goto(p, phase)
    BY <1>3, <1>14, <2>3 DEF ConfirmStopped, Remove, ClearUrl, ClearPid, Goto,
                             osVars, fileVars
  <2> QED
    BY <1>14, <2>1, <2>2, <2>3 DEF ConfirmStopped, Remove, ClearUrl, ClearPid,
                                   Stopped, fileVars
<1>15. ASSUME NEW k \in Pids, Exit(k) \/ End(k)
       PROVE  GuardInv'
  BY <1>1, <1>2, <1>15, DeathKeepsGuardInv DEF Exit, End, fileVars, localVars, GuardInv
<1>16. ASSUME NEW k \in Pids, Launch(k)
       PROVE  GuardInv'
  <2>1. PICK j \in Fresh : Born(j, "ours", k)
    BY <1>16 DEF Launch
  <2>2. /\ ForeignPids' \subseteq ForeignPids
        /\ pidFile \notin ForeignPids'
        /\ "slow" \notin Mishaps => \A q \in Procs : target[q] \notin ForeignPids'
    BY <2>1, BirthKeepsGuardInv DEF Kinds, Foreign, MaybePids
  <2> QED
    BY <1>1, <1>16, <2>2 DEF Launch, fileVars, localVars, GuardInv
<1>17. ASSUME NEW k \in Pids, Bind(k)
       PROVE  GuardInv'
  BY <1>1, <1>17 DEF Bind, fileVars, localVars, GuardInv, ForeignPids, Foreign
<1>18. CASE Intrude
  <2>1. \A p \in Procs : pc'[p] \notin Guarded
    BY <1>18 DEF Intrude, localVars
  <2>2. PICK k \in Fresh, kind \in Foreign : Born(k, kind, NoPid)
    BY <1>18 DEF Intrude
  <2>3. /\ pidFile \notin ForeignPids'
        /\ "slow" \notin Mishaps => \A q \in Procs : target[q] \notin ForeignPids'
    BY <2>2, BirthKeepsGuardInv DEF Kinds, MaybePids
  <2> QED
    BY <1>1, <1>18, <2>1, <2>3 DEF Intrude, fileVars, localVars, GuardInv
<1>19. CASE UNCHANGED vars
  BY <1>1, <1>19 DEF vars, osVars, fileVars, localVars, GuardInv, ForeignPids
<1> QED
  BY <1>4, <1>6, <1>7, <1>8, <1>9, <1>10, <1>11, <1>12, <1>13, <1>14, <1>15,
     <1>16, <1>17, <1>18, <1>19
  DEF Next, Run

(* Unless a program takes the port under a running command, harness-pid,   *)
(* on which every later command relies, never names a process the router   *)
(* did not start, whatever else goes wrong and however many commands run   *)
(* (browser.rs, pid_path).                                                 *)
THEOREM ForeignStaysUnadopted ==
    ASSUME "race" \notin Mishaps
    PROVE  Spec => []ForeignNotAdopted
<1>1. GuardInv => ForeignNotAdopted
  BY DEF GuardInv
<1> QED
  BY GuardInit, GuardNext, <1>1, PTL DEF Spec

(* If lookups are in time as well, no harness that somebody else has       *)
(* started is ever killed by a router command (process.rs,                 *)
(* stop_listener_on; main.rs, cmd_stop).                                   *)
THEOREM ForeignStaysUntouched ==
    ASSUME {"race", "slow"} \cap Mishaps = {}
    PROVE  Spec => ForeignUntouched
<1>0. "race" \notin Mishaps /\ "slow" \notin Mishaps
  OBVIOUS
<1>1. ASSUME GuardInv, [Next]_vars
      PROVE  \A k \in ForeignPids : ~RouterKills(k)
  <2> SUFFICES ASSUME NEW k \in ForeignPids, RouterKills(k)
               PROVE  FALSE
    OBVIOUS
  <2>1. k \in Pids /\ parent[k] = NoPid
    BY <1>1 DEF GuardInv, KillInv, OrphansAreForeign, ForeignPids
  <2>2. PICK p \in Procs : \/ k = child[p]
                           \/ pc[p] = "kill" /\ k \in Family(target[p])
    <3>1. TypeOK
      BY <1>1 DEF GuardInv, KillInv
    <3> QED
      BY <1>1, <2>1, <3>1, RouterKillsWhat
  <2>3. CASE k = child[p]
    BY <1>1, <2>3 DEF GuardInv, KillInv, ChildrenAreOurs
  <2>4. CASE pc[p] = "kill" /\ k \in Family(target[p])
    <3>1. k = target[p]
      BY <1>1, <2>1, <2>4 DEF Family, GuardInv, KillInv, TypeOK
    <3> QED
      BY <1>0, <1>1, <3>1 DEF GuardInv, TargetsAreOurs
  <2> QED
    BY <2>2, <2>3, <2>4
<1>2. GuardInv /\ [Next]_vars => [\A k \in ForeignPids : ~RouterKills(k)]_vars
  BY <1>1
<1> QED
  BY GuardInit, GuardNext, <1>0, <1>2, PTL DEF Spec, ForeignUntouched

-----------------------------------------------------------------------------
(* One command at a time, none of them typed for an instance that already  *)
(* runs, killed or out of time, and nobody else who takes the port while   *)
(* it runs.  Then a harness of ours is always where the next command will  *)
(* look for it: it has the port, or it is the one the command has spawned. *)

OneAtATime == \E p : Procs = {p}

Only == CHOOSE p \in Procs : TRUE

LEMMA OnlyProc == OneAtATime => Procs = {Only}
BY DEF OneAtATime, Only

Shims == {k \in Pids : os[k] = "shim"}

\* A start that has not spawned anything.
Before == {"probe", "own", "spawn"}

\* A start that has, and still holds the child.
Launching == {"record", "await", "identify", "grace"}

\* The process ids of the harness that belongs to the child.
Kin == IF Shim THEN {j \in Pids : parent[j] = child[Only]} ELSE {child[Only]}

Quiet == Shims = {} /\ OurHarnesses \subseteq {holder}

Launched ==
    /\ Shims \subseteq {child[Only]}
    /\ os[child[Only]] \in {"gone", IF Shim THEN "shim" ELSE "ours"}
    /\ parent[child[Only]] = NoPid
    /\ OurHarnesses \subseteq Kin
    /\ \A i, j \in Kin : i = j
    /\ ~Alive(child[Only]) => OurHarnesses = {}
    /\ holder \in OurHarnesses \cup {NoPid}

\* The port has answered: the shim has started its harness.
Served ==
    /\ OurHarnesses \subseteq {holder}
    /\ Shim /\ Alive(child[Only]) => Kin # {}

\* What a command that is about to do phase knows of the processes.
Known(phase) ==
    /\ phase \in Before => Quiet /\ OurHarnesses = {}
    /\ phase = "spawn" => holder = NoPid
    /\ phase \in Launching => Launched
    /\ phase \in {"identify", "grace"} => Served
    /\ phase \notin Before \cup Launching => Quiet

HolderServes == holder \in OurHarnesses \cup ForeignPids \cup {NoPid}

AloneInv ==
    /\ KillInv
    /\ ForeignNotAdopted
    /\ HolderServes
    /\ Known(pc[Only])

LEMMA AloneInit == OneAtATime /\ Init => AloneInv
BY OnlyProc, KillInit, LifecycleAssumption
   DEF Init, AloneInv, ForeignNotAdopted, HolderServes, Known, Quiet, Shims,
       OurHarnesses, ForeignPids, Foreign, Before, Launching

(* A step that leaves the processes alone keeps the invariant when the     *)
(* phase it leads to asks for no more than is known.                       *)
LEMMA AloneGoesOn ==
    ASSUME AloneInv, KillInv', UNCHANGED osVars,
           pidFile' \notin ForeignPids,
           Known(pc'[Only]),
           pc'[Only] \in Launching => child' = child
    PROVE  AloneInv'
BY DEF AloneInv, ForeignNotAdopted, HolderServes, Known, Quiet, Launched, Served, Kin,
       Shims, OurHarnesses, ForeignPids, Alive, osVars, Before, Launching

(* Whatever dies: nothing is left that was not there.                      *)
LEMMA DeathKeepsQuiet ==
    ASSUME AloneInv, NEW S, Die(S)
    PROVE  /\ Shims' = Shims \ S
           /\ OurHarnesses' = OurHarnesses \ S
           /\ ForeignPids' = ForeignPids \ S
           /\ holder' = IF holder \in S THEN NoPid ELSE holder
           /\ Quiet => Quiet'
           /\ HolderServes'
<1>1. /\ Shims' = Shims \ S
      /\ OurHarnesses' = OurHarnesses \ S
      /\ ForeignPids' = ForeignPids \ S
      /\ holder' = IF holder \in S THEN NoPid ELSE holder
  BY DEF Die, Shims, OurHarnesses, ForeignPids, Foreign
<1> QED
  BY <1>1 DEF AloneInv, HolderServes, Quiet

(* A harness dies, or a shim whose harness has died, under a start.        *)
LEMMA DeathKeepsLaunched ==
    ASSUME OneAtATime, AloneInv, pc[Only] \in Launching,
           NEW k \in Pids, Die({k}), k \in Shims => OurHarnesses = {},
           UNCHANGED localVars
    PROVE  /\ Launched'
           /\ Served => Served'
<1>1. Launched /\ TypeOK /\ child[Only] \in Pids
  BY OnlyProc DEF AloneInv, KillInv, Known, Launching, TypeOK, MaybePids
<1>2. /\ Shims' = Shims \ {k}
      /\ OurHarnesses' = OurHarnesses \ {k}
      /\ holder' = IF holder = k THEN NoPid ELSE holder
  BY DeathKeepsQuiet
<1>3. parent' = parent /\ child' = child /\ Kin' = Kin
  BY DEF Die, localVars, Kin
<1>4. os'[child[Only]] = IF child[Only] = k THEN "gone" ELSE os[child[Only]]
  BY <1>1 DEF Die
<1>5. Alive(child[Only])' <=> Alive(child[Only]) /\ child[Only] # k
  BY <1>1, <1>3, <1>4 DEF Alive
<1>6. child[Only] = k => OurHarnesses' = {}
  BY <1>1, <1>2 DEF Launched, Shims, Alive, Kin
<1>7. Launched'
  BY <1>1, <1>2, <1>3, <1>4, <1>5, <1>6 DEF Launched
<1>8. Served => Served'
  BY <1>2, <1>3, <1>5 DEF Served
<1> QED
  BY <1>7, <1>8

(* The shim of a start launches the one harness it has.                    *)
LEMMA LaunchKeepsLaunched ==
    ASSUME OneAtATime, AloneInv, NEW k \in Pids, Launch(k)
    PROVE  /\ pc[Only] \in {"record", "await"}
           /\ Launched'
           /\ UNCHANGED <<holder, fileVars, localVars>>
           /\ ForeignPids' = ForeignPids
<1>1. PICK j \in Fresh : Born(j, "ours", k)
  BY DEF Launch
<1>2. UNCHANGED <<holder, fileVars, localVars>> /\ os[k] = "shim" /\ Family(k) = {k}
  BY DEF Launch
<1>3. k \in Shims /\ TypeOK
  BY <1>2 DEF Shims, AloneInv, KillInv
<1>4. pc[Only] \in Launching
  BY <1>3 DEF AloneInv, Known, Quiet
<1>5. Launched /\ child[Only] \in Pids
  BY <1>3, <1>4, OnlyProc DEF AloneInv, Known, Launching, TypeOK, MaybePids
<1>6. k = child[Only]
  BY <1>3, <1>5 DEF Launched
<1>7. Shim /\ Kin = {} /\ OurHarnesses = {}
  BY <1>2, <1>5, <1>6, LifecycleAssumption DEF Launched, Family, Kin
<1>8. pc[Only] \in {"record", "await"}
  BY <1>2, <1>4, <1>6, <1>7 DEF AloneInv, Known, Served, Launching, Alive
<1>9. j \in Pids /\ j # k
  BY <1>2 DEF Fresh, Alive
<1>10. /\ \A i \in Pids : os'[i] = IF i = j THEN "ours" ELSE os[i]
       /\ \A i \in Pids : parent'[i] = IF i = j THEN k
                                      ELSE IF parent[i] = j THEN NoPid ELSE parent[i]
  BY <1>1, <1>3, <1>9 DEF Born, TypeOK
<1>11. /\ ~Alive(j)
       /\ Shims' = Shims /\ OurHarnesses' = {j} /\ ForeignPids' = ForeignPids
  BY <1>1, <1>7, <1>9, <1>10 DEF Shims, OurHarnesses, ForeignPids, Foreign, Fresh, Alive
<1>12. child' = child /\ Kin' = {j}
  BY <1>2, <1>6, <1>7, <1>9, <1>10, LifecycleAssumption DEF Kin, localVars
<1>13. os'[child[Only]] = "shim" /\ parent'[child[Only]] = NoPid
  BY <1>2, <1>5, <1>6, <1>9, <1>10 DEF Launched
<1>14. Launched'
  <2>1. holder' = NoPid
    BY <1>2, <1>5, <1>7 DEF Launched
  <2> QED
    BY <1>2, <1>5, <1>6, <1>7, <1>11, <1>12, <1>13, <2>1 DEF Launched, Alive
<1> QED
  BY <1>2, <1>8, <1>11, <1>14

(* The harness of a start takes the port.                                  *)
LEMMA BindKeepsLaunched ==
    ASSUME OneAtATime, AloneInv, NEW k \in Pids, Bind(k)
    PROVE  /\ pc[Only] \in {"record", "await"}
           /\ Launched'
           /\ HolderServes'
           /\ UNCHANGED <<os, parent, fileVars, localVars>>
           /\ OurHarnesses = {k} /\ holder' = k
<1>1. k \in OurHarnesses /\ holder = NoPid /\ k # NoPid
  BY LifecycleAssumption DEF Bind, OurHarnesses
<1>2. pc[Only] \in {"record", "await"}
  BY <1>1 DEF AloneInv, Known, Quiet, Served, Launching
<1>3. Launched
  BY <1>2 DEF AloneInv, Known, Launching
<1>4. UNCHANGED <<os, parent, fileVars, localVars>> /\ holder' = k
  BY DEF Bind
<1>5. /\ OurHarnesses' = OurHarnesses /\ Shims' = Shims /\ Kin' = Kin
      /\ child' = child /\ Alive(child[Only])' = Alive(child[Only])
  BY <1>4 DEF OurHarnesses, Shims, Kin, Alive, localVars
<1>6. Launched' /\ HolderServes'
  BY <1>1, <1>3, <1>4, <1>5 DEF Launched, HolderServes
<1>7. OurHarnesses = {k}
  BY <1>1, <1>3 DEF Launched
<1> QED
  BY <1>2, <1>4, <1>6, <1>7

(* A process ends by itself, or exits because it has nothing left to do.   *)
LEMMA ExitsAreLate ==
    ASSUME OneAtATime, AloneInv, "detached" \notin Mishaps,
           NEW k \in Pids, Exit(k) \/ End(k)
    PROVE  /\ Die({k})
           /\ UNCHANGED <<fileVars, localVars>>
           /\ k \in Shims => OurHarnesses = {}
<1>1. Die({k}) /\ UNCHANGED <<fileVars, localVars>>
  BY DEF Exit, End
<1>2. ASSUME k \in Shims PROVE OurHarnesses = {}
  <2>1. os[k] = "shim"
    BY <1>2 DEF Shims
  <2>2. PICK j \in Family(k) \ {k} : ~Alive(j)
    BY <2>1 DEF Exit, End, Foreign
  <2>3. pc[Only] \in Launching
    BY <1>2 DEF AloneInv, Known, Quiet
  <2>4. Launched /\ child[Only] \in Pids
    BY <2>3, OnlyProc DEF AloneInv, KillInv, Known, Launching, TypeOK, MaybePids
  <2>5. k = child[Only]
    BY <1>2, <2>4 DEF Launched
  <2>6. Shim /\ j \in Kin
    BY <2>1, <2>2, <2>4, <2>5 DEF Launched, Kin, Family
  <2> QED
    BY <2>2, <2>4, <2>6 DEF Launched, OurHarnesses, Alive
<1> QED
  BY <1>1, <1>2

(* What the recorded process listens on is the router's own.               *)
LEMMA OwnedIsOurs ==
    ASSUME AloneInv, Owned
    PROVE  holder \in OurHarnesses
BY LifecycleAssumption
   DEF AloneInv, KillInv, OrphansAreForeign, ForeignNotAdopted, HolderServes, Owned,
       Family, ForeignPids

Unhurried == {"again", "race", "timeout", "crash", "detached"} \cap Mishaps = {}

LEMMA SpawnLaunches ==
    ASSUME OneAtATime, AloneInv, Spawn(Only)
    PROVE  /\ pc'[Only] = "record"
           /\ Launched'
           /\ UNCHANGED <<holder, fileVars>>
           /\ ForeignPids' = ForeignPids
<1>1. TypeOK /\ Only \in Procs
  BY OnlyProc DEF AloneInv, KillInv
<1>2. /\ pc[Only] = "spawn" /\ pc' = [pc EXCEPT ![Only] = "record"]
      /\ UNCHANGED <<holder, fileVars>>
  BY DEF Spawn
<1>3. Quiet /\ OurHarnesses = {} /\ holder = NoPid
  BY <1>2 DEF AloneInv, Known, Before
<1>4. PICK k \in Fresh : /\ Born(k, IF Shim THEN "shim" ELSE "ours", NoPid)
                         /\ child' = [child EXCEPT ![Only] = k]
  BY DEF Spawn
<1>5. k \in Pids /\ k # NoPid /\ ~Alive(k) /\ child'[Only] = k
  BY <1>1, <1>4, LifecycleAssumption DEF Fresh, TypeOK
<1>6. /\ \A i \in Pids : os'[i] = IF i = k THEN IF Shim THEN "shim" ELSE "ours" ELSE os[i]
      /\ \A i \in Pids : parent'[i] = IF i = k \/ parent[i] = k THEN NoPid ELSE parent[i]
  BY <1>1, <1>4, <1>5 DEF Born, TypeOK
<1>7. ForeignPids' = ForeignPids
  BY <1>5, <1>6 DEF ForeignPids, Foreign, Alive
<1>8. /\ Shims' = IF Shim THEN {k} ELSE {}
      /\ OurHarnesses' = IF Shim THEN {} ELSE {k}
  BY <1>3, <1>5, <1>6 DEF Shims, OurHarnesses, Quiet
<1>9. Kin' = IF Shim THEN {} ELSE {k}
  BY <1>5, <1>6 DEF Kin
<1>10. /\ os'[k] = IF Shim THEN "shim" ELSE "ours"
       /\ parent'[k] = NoPid
  BY <1>5, <1>6
<1>11. Launched'
  BY <1>2, <1>3, <1>5, <1>8, <1>9, <1>10 DEF Launched, Alive
<1>12. pc'[Only] = "record"
  BY <1>1, <1>2 DEF TypeOK
<1> QED
  BY <1>2, <1>7, <1>11, <1>12

LEMMA AloneNext ==
    ASSUME OneAtATime, Unhurried
    PROVE  AloneInv /\ [Next]_vars => AloneInv'
<1> SUFFICES ASSUME AloneInv, [Next]_vars PROVE AloneInv'
  OBVIOUS
<1>1. TypeOK /\ KillInv' /\ Only \in Procs
  BY KillNext, OnlyProc DEF AloneInv, KillInv
<1>2. NoPid \notin OurHarnesses /\ NoPid \notin ForeignPids /\ OurHarnesses \cap ForeignPids = {}
  BY LifecycleAssumption DEF OurHarnesses, ForeignPids, Foreign
<1> USE DEF Before, Launching
<1>3. ASSUME UNCHANGED osVars, UNCHANGED pidFile, NEW phase,
             pc' = [pc EXCEPT ![Only] = phase], Known(phase),
             phase \in Launching => UNCHANGED child
      PROVE  AloneInv'
  BY <1>1, <1>3, AloneGoesOn DEF AloneInv, ForeignNotAdopted, TypeOK
<1>4. ASSUME UNCHANGED osVars, UNCHANGED pidFile, Leave(Only), Quiet
      PROVE  AloneInv'
  BY <1>3, <1>4 DEF Leave, Known
<1>5. CASE Start(Only)
  <2>1. Quiet /\ pc[Only] = "idle" /\ UNCHANGED osVars
    BY <1>5 DEF Start, BeginAdd, BeginStart, BeginRestart, BeginStop, Begin, AloneInv, Known
  <2>2. PICK phase \in {"probe", "check"} : pc' = [pc EXCEPT ![Only] = phase]
    BY <1>5 DEF Start, BeginAdd, BeginStart, BeginRestart, BeginStop, Begin
  <2>3. Known(phase)
    <3>1. phase = "probe" => OurHarnesses = {}
      BY <1>1, <1>2, <1>5, <2>1, <2>2
         DEF Start, BeginAdd, BeginStart, BeginRestart, BeginStop, Begin, Startable,
             Unhurried, Quiet, OurHarnesses, TypeOK
    <3> QED
      BY <2>1, <3>1 DEF Known
  <2>4. pidFile' \notin ForeignPids
    BY <1>2, <1>5 DEF Start, BeginAdd, BeginStart, BeginRestart, BeginStop, Begin, AloneInv,
                      ForeignNotAdopted
  <2> QED
    BY <1>1, <2>1, <2>2, <2>3, <2>4, AloneGoesOn DEF TypeOK
<1>6. CASE ProbePort(Only) \/ CheckOwner(Only) \/ StartFails(Only)
  <2>1. Quiet /\ OurHarnesses = {} /\ UNCHANGED <<osVars, fileVars>>
    BY <1>6 DEF ProbePort, CheckOwner, StartFails, AloneInv, Known
  <2>2. ~Owned
    BY <2>1, OwnedIsOurs
  <2>3. CASE Leave(Only)
    BY <1>4, <2>1, <2>3 DEF fileVars
  <2>4. CASE ProbePort(Only)
    BY <1>3, <2>1, <2>4 DEF ProbePort, Goto, fileVars, Known
  <2> QED
    BY <1>6, <2>2, <2>3, <2>4 DEF CheckOwner, StartFails
<1>7. CASE Spawn(Only)
  BY <1>1, <1>7, SpawnLaunches
     DEF AloneInv, ForeignNotAdopted, HolderServes, Known, Launched, fileVars
<1>8. CASE RecordChild(Only) \/ ConfirmReady(Only) \/ RecordListener(Only)
  <2>1. Launched /\ UNCHANGED <<osVars, child>>
    BY <1>8 DEF RecordChild, ConfirmReady, RecordListener, Goto, osVars, fileVars,
                AloneInv, Known
  <2>2. pidFile' \in {pidFile, child[Only], holder}
    BY <1>8 DEF RecordChild, ConfirmReady, RecordListener, Write, fileVars
  <2>3. pidFile' \notin ForeignPids
    BY <1>1, <1>2, <2>1, <2>2
       DEF AloneInv, ForeignNotAdopted, KillInv, ChildrenAreOurs, Launched
  <2>4. ConfirmReady(Only) => Served
    BY <2>1 DEF ConfirmReady, Launched, Served
  <2>5. Known(pc'[Only])
    BY <1>1, <1>8, <2>1, <2>4
       DEF RecordChild, ConfirmReady, RecordListener, Goto, AloneInv, Known, TypeOK
  <2> QED
    BY <1>1, <2>1, <2>3, <2>5, AloneGoesOn
<1>9. CASE ChildExits(Only)
  <2>1. Launched /\ ~Alive(child[Only]) /\ Leave(Only) /\ UNCHANGED <<osVars, fileVars>>
    BY <1>9 DEF ChildExits, AloneInv, Known
  <2>2. Quiet
    BY <2>1 DEF Launched, Quiet, Shims, Alive
  <2> QED
    BY <1>4, <2>1, <2>2 DEF fileVars
<1>10. CASE ReadUrl(Only)
  BY <1>1, <1>10, AloneGoesOn DEF ReadUrl, fileVars, AloneInv, ForeignNotAdopted
<1>11. CASE Ready(Only) \/ Kill(Only)
  <2>1. PICK S : Die(S) /\ (Ready(Only) => S = {child[Only]})
    BY <1>11 DEF Ready, Kill
  <2>2. PICK phase \in {"publish", "confirm"} : Goto(Only, phase) /\ UNCHANGED fileVars
    BY <1>11 DEF Ready, Kill
  <2>3. Quiet'
    <3>1. CASE Ready(Only)
      <4>1. Launched /\ Served
        BY <3>1 DEF Ready, AloneInv, Known
      <4> QED
        BY <2>1, <3>1, <4>1, DeathKeepsQuiet DEF Launched, Served, Quiet
    <3>2. CASE Kill(Only)
      BY <2>1, <3>2, DeathKeepsQuiet DEF Kill, AloneInv, Known
    <3> QED
      BY <1>11, <3>1, <3>2
  <2> QED
    BY <1>1, <2>1, <2>2, <2>3, DeathKeepsQuiet
       DEF Goto, fileVars, AloneInv, ForeignNotAdopted, Known, TypeOK
<1>12. CASE PublishUrl(Only)
  BY <1>4, <1>12 DEF PublishUrl, AloneInv, Known
<1>13. CASE \/ CheckServing(Only) \/ CheckWhose(Only) \/ FindListener(Only)
            \/ ConfirmStopped(Only) \/ Remove(Only) \/ ClearUrl(Only) \/ ClearPid(Only)
  <2>1. Quiet /\ UNCHANGED osVars
    BY <1>13 DEF CheckServing, CheckWhose, FindListener, ConfirmStopped, Remove, ClearUrl,
                 ClearPid, AloneInv, Known
  <2>2. pidFile' \notin ForeignPids
    BY <1>2, <1>13 DEF CheckServing, CheckWhose, FindListener, ConfirmStopped, Remove,
                       ClearUrl, ClearPid, fileVars, AloneInv, ForeignNotAdopted
  <2>3. pc'[Only] \notin Before \cup Launching
    BY <1>1, <1>13 DEF CheckServing, CheckWhose, FindListener, ConfirmStopped, Remove,
                       ClearUrl, ClearPid, Stopped, NotOurs, Aim, Goto, Leave, TypeOK
  <2> QED
    BY <1>1, <2>1, <2>2, <2>3, AloneGoesOn DEF Known
<1>14. CASE Timeout(Only) \/ Crash(Only)
  BY <1>14 DEF Timeout, Crash, Unhurried
<1>15. ASSUME NEW k \in Pids, Launch(k) \/ Bind(k)
       PROVE  AloneInv'
  BY <1>1, <1>15, LaunchKeepsLaunched, BindKeepsLaunched
     DEF AloneInv, ForeignNotAdopted, HolderServes, Known, Launched, ForeignPids,
         fileVars, localVars
<1>16. ASSUME NEW k \in Pids, Exit(k) \/ End(k)
       PROVE  AloneInv'
  <2>1. /\ Die({k}) /\ UNCHANGED <<fileVars, localVars>>
        /\ k \in Shims => OurHarnesses = {}
    BY <1>16, ExitsAreLate DEF Unhurried
  <2>2. /\ OurHarnesses' \subseteq OurHarnesses /\ ForeignPids' \subseteq ForeignPids
        /\ holder' \in {holder, NoPid} /\ HolderServes'
        /\ Quiet => Quiet'
    BY <2>1, DeathKeepsQuiet
  <2>3. pc[Only] \in Launching => Launched' /\ (Served => Served')
    BY <2>1, DeathKeepsLaunched
  <2> QED
    BY <1>1, <2>1, <2>2, <2>3
       DEF AloneInv, ForeignNotAdopted, Known, fileVars, localVars
<1>17. CASE Intrude
  <2>1. pc[Only] = "idle" /\ holder = NoPid /\ UNCHANGED <<fileVars, localVars>>
    BY <1>1, <1>17 DEF Intrude, Unhurried
  <2>2. Quiet /\ OurHarnesses = {}
    BY <1>2, <2>1 DEF AloneInv, Known, Quiet
  <2>3. PICK k \in Fresh, kind \in Foreign : Born(k, kind, NoPid) /\ holder' = k
    BY <1>17 DEF Intrude
  <2>4. k \in Pids /\ k # pidFile /\ \A i \in Pids : os'[i] = IF i = k THEN kind ELSE os[i]
    BY <1>1, <2>3 DEF Fresh, Remembered, Born, TypeOK
  <2>5. Shims' = {} /\ OurHarnesses' = {} /\ ForeignPids' = ForeignPids \cup {k}
    BY <2>2, <2>3, <2>4 DEF Shims, OurHarnesses, ForeignPids, Foreign, Quiet
  <2> QED
    BY <1>1, <2>1, <2>3, <2>4, <2>5
       DEF AloneInv, ForeignNotAdopted, HolderServes, Known, Quiet, fileVars, localVars
<1>18. CASE UNCHANGED vars
  BY <1>1, <1>18, AloneGoesOn DEF vars, fileVars, localVars, AloneInv, ForeignNotAdopted
<1> QED
  BY <1>5, <1>6, <1>7, <1>8, <1>9, <1>10, <1>11, <1>12, <1>13, <1>14, <1>15, <1>16,
     <1>17, <1>18, OnlyProc
  DEF Next, Run

(* Two harnesses never run on the state root of one instance, whichever    *)
(* files could not be written and whatever a probe or a lookup has missed  *)
(* (multi.rs, start: the port is probed, and its owner asked for, before   *)
(* anything is spawned).                                                   *)
THEOREM OneHarnessRuns ==
    ASSUME OneAtATime, Unhurried
    PROVE  Spec => []OneHarness
<1>1. ASSUME AloneInv PROVE OneHarness
  <2>1. \A i, j \in OurHarnesses : i = j
    BY <1>1 DEF AloneInv, Known, Quiet, Launched
  <2>2. OurHarnesses = {} \/ \E k : OurHarnesses = {k}
    BY <2>1
  <2>3. Cardinality(OurHarnesses) \in {0, 1}
    BY <2>2, FS_EmptySet, FS_Singleton
  <2> QED
    BY <2>3 DEF OneHarness
<1> QED
  BY <1>1, AloneInit, AloneNext, PTL DEF Spec

(* When stop says that it has stopped the instance, no harness of it is    *)
(* left: the port was free, and there is none elsewhere (process.rs,       *)
(* stop_listener_on; main.rs, cmd_stop).                                   *)
THEOREM StopStopsTheHarness ==
    ASSUME OneAtATime, Unhurried
    PROVE  Spec => StopMeansStopped
<1>1. ASSUME AloneInv, [Next]_vars, NEW p \in Procs,
             pc[p] \in {"listen", "confirm"}, pc'[p] = "clearurl"
      PROVE  OurHarnesses = {}
  <2>1. Procs = {Only} /\ p = Only /\ Quiet
    BY <1>1, OnlyProc DEF AloneInv, Known, Before, Launching
  <2>2. pc'[Only] # pc[Only]
    BY <1>1, <2>1
  <2>3. FindListener(Only) \/ ConfirmStopped(Only)
    BY <1>1, <2>1, <2>2
       DEF Next, Start, Run, BeginAdd, BeginStart, BeginRestart, BeginStop, Begin,
           ProbePort, CheckOwner, StartFails, Spawn, RecordChild, ChildExits,
           ConfirmReady, RecordListener, Ready, PublishUrl, CheckServing, CheckWhose,
           Kill, Remove, ClearUrl, ClearPid, ReadUrl, Timeout, Crash, Unhurried,
           Launch, Bind, Exit, End, Intrude, localVars, vars
  <2>4. holder = NoPid
    BY <1>1, <2>1, <2>3
       DEF FindListener, ConfirmStopped, NotOurs, Aim, Goto, Leave, AloneInv, KillInv,
           TypeOK
  <2> QED
    BY <2>1, <2>4, LifecycleAssumption DEF Quiet, OurHarnesses
<1>2. AloneInv /\ [Next]_vars =>
          [\A p \in Procs : pc[p] \in {"listen", "confirm"} /\ pc'[p] = "clearurl" =>
               OurHarnesses = {}]_vars
  BY <1>1
<1> QED
  BY AloneInit, AloneNext, <1>2, PTL DEF Spec, StopMeansStopped

-----------------------------------------------------------------------------
(* If besides every probe and lookup answers and every file is written, a  *)
(* harness that has the port is the one harness-pid names, or its child,   *)
(* as soon as the command that started it has seen it serve.               *)

Untroubled == Mishaps \subseteq {"silent"}

LEMMA UntroubledIsUnhurried == Untroubled => Unhurried
BY DEF Untroubled, Unhurried

\* The phases in which harness-pid is relied upon.
Relying == {"idle", "grace", "publish", "check", "whose", "listen"}

OwnInv ==
    /\ AloneInv
    /\ pc[Only] \in Relying /\ holder \in OurHarnesses => Owned
    /\ pc[Only] \in {"await", "identify"} => pidFile = child[Only]
    /\ pc[Only] = "kill" => OurHarnesses \subseteq {target[Only]}
    /\ pc[Only] \in {"confirm", "remove", "clearurl", "clearpid"} => OurHarnesses = {}

LEMMA OwnInit == OneAtATime /\ Init => OwnInv
BY AloneInit, OnlyProc, LifecycleAssumption DEF Init, OwnInv, OurHarnesses

LEMMA OwnNext ==
    ASSUME OneAtATime, Untroubled
    PROVE  OwnInv /\ [Next]_vars => OwnInv'
<1> SUFFICES ASSUME OwnInv, [Next]_vars PROVE OwnInv'
  OBVIOUS
<1>1. AloneInv /\ TypeOK /\ Only \in Procs /\ AloneInv' /\ Unhurried
  BY AloneNext, UntroubledIsUnhurried, OnlyProc DEF OwnInv, AloneInv, KillInv
<1>2. NoPid \notin OurHarnesses /\ OurHarnesses \cap ForeignPids = {}
  BY LifecycleAssumption DEF OurHarnesses, ForeignPids, Foreign
<1>3. pc[Only] \notin Launching => Quiet
  BY <1>1 DEF AloneInv, Known
<1>4. CASE Start(Only)
  <2>1. pc[Only] = "idle" /\ UNCHANGED osVars
    BY <1>4 DEF Start, BeginAdd, BeginStart, BeginRestart, BeginStop, Begin
  <2>2. CASE BeginStop(Only)
    BY <1>1, <2>1, <2>2 DEF BeginStop, Begin, OwnInv, Owned, Family, OurHarnesses, Relying,
                            osVars, TypeOK
  <2>3. CASE BeginAdd(Only) \/ BeginStart(Only) \/ BeginRestart(Only)
    BY <1>1, <2>1, <2>3 DEF BeginAdd, BeginStart, BeginRestart, Begin, OwnInv, Relying,
                            TypeOK
  <2> QED
    BY <1>4, <2>2, <2>3 DEF Start
<1>5. CASE ProbePort(Only) \/ CheckOwner(Only) \/ StartFails(Only) \/ Spawn(Only)
  <2>1. OurHarnesses = {} /\ UNCHANGED holder /\ pc'[Only] \in {"own", "spawn", "idle", "record"}
    BY <1>1, <1>5 DEF ProbePort, CheckOwner, StartFails, Spawn, Goto, Leave, osVars,
                      AloneInv, Known, Before, TypeOK
  <2>2. Spawn(Only) => pc'[Only] = "record"
    BY <1>1 DEF Spawn, TypeOK
  <2>3. ~Spawn(Only) => UNCHANGED osVars
    BY <1>5 DEF ProbePort, CheckOwner, StartFails
  <2> QED
    BY <1>1, <1>5, <2>1, <2>2, <2>3 DEF OwnInv, OurHarnesses, osVars, Relying
<1>6. CASE RecordChild(Only) \/ ConfirmReady(Only)
  BY <1>1, <1>6 DEF RecordChild, ConfirmReady, Write, Untroubled, Goto, fileVars, OwnInv,
                    Relying, TypeOK
<1>7. CASE RecordListener(Only)
  <2>1. /\ pc'[Only] = "grace" /\ UNCHANGED osVars
        /\ pidFile' = IF holder # NoPid THEN holder ELSE pidFile
    BY <1>1, <1>7 DEF RecordListener, Write, Untroubled, Goto, TypeOK
  <2>2. holder \in OurHarnesses => Owned'
    BY <1>2, <2>1 DEF Owned, Family, osVars
  <2> QED
    BY <1>1, <2>1, <2>2 DEF OwnInv, OurHarnesses, osVars
<1>8. CASE ReadUrl(Only)
  BY <1>1, <1>8 DEF ReadUrl, OwnInv, Owned, Family, OurHarnesses, osVars, fileVars
<1>9. ASSUME NEW S, Die(S), UNCHANGED pidFile
       PROVE  /\ OurHarnesses' \subseteq OurHarnesses
              /\ holder' \in OurHarnesses' => holder' = holder
              /\ Owned /\ holder' = holder => Owned'
  <2>1. NoPid \notin OurHarnesses'
    BY LifecycleAssumption DEF OurHarnesses
  <2> QED
    BY <1>1, <1>9, <2>1, DeathKeepsQuiet DEF Die, Owned, Family
<1>10. CASE Ready(Only)
  <2>1. PICK S : Die(S)
    BY <1>10 DEF Ready
  <2>2. pc[Only] = "grace" /\ pc'[Only] = "publish" /\ UNCHANGED pidFile
    BY <1>1, <1>10 DEF Ready, Goto, fileVars, TypeOK
  <2> QED
    BY <1>1, <1>9, <2>1, <2>2 DEF OwnInv, Relying
<1>11. CASE ChildExits(Only)
  <2>1. OurHarnesses = {} /\ UNCHANGED osVars /\ pc'[Only] = "idle"
    BY <1>1, <1>11 DEF ChildExits, Leave, AloneInv, Known, Launching, Launched, TypeOK
  <2> QED
    BY <1>1, <2>1 DEF OwnInv, OurHarnesses, osVars
<1>12. CASE PublishUrl(Only)
  BY <1>1, <1>12 DEF PublishUrl, Leave, OwnInv, Owned, Family, OurHarnesses, Relying,
                     osVars, TypeOK
<1>13. CASE CheckServing(Only) \/ CheckWhose(Only) \/ FindListener(Only)
  <2>1. /\ pc[Only] \in {"check", "whose", "listen"}
        /\ UNCHANGED <<osVars, fileVars>>
        /\ Owned' = Owned /\ OurHarnesses' = OurHarnesses
    BY <1>13 DEF CheckServing, CheckWhose, FindListener, Owned, Family, OurHarnesses,
                 osVars, fileVars
  <2>2. Quiet /\ (holder \in OurHarnesses => Owned)
    BY <1>3, <2>1 DEF OwnInv, Relying, Launching
  <2>3. CASE pc'[Only] \in Relying
    BY <1>1, <2>1, <2>2, <2>3 DEF OwnInv, Relying, osVars
  <2>4. CASE Aim(Only)
    BY <1>1, <2>1, <2>2, <2>4 DEF Aim, OwnInv, Relying, Quiet, TypeOK
  <2>5. CASE pc'[Only] \in {"remove", "clearurl"}
    <3>1. holder \notin OurHarnesses
      BY <1>1, <1>2, <1>13, <2>1, <2>2, <2>5
         DEF CheckServing, CheckWhose, FindListener, Stopped, NotOurs, Aim, Goto, Leave,
             Untroubled, LooksLikeOurs, OurHarnesses, TypeOK
    <3> QED
      BY <1>1, <2>1, <2>2, <2>5, <3>1 DEF OwnInv, Quiet, Relying
  <2> QED
    BY <1>1, <1>13, <2>3, <2>4, <2>5
       DEF CheckServing, CheckWhose, FindListener, Stopped, NotOurs, Goto, Leave, Relying,
           TypeOK
<1>14. CASE Kill(Only)
  <2>1. OurHarnesses \subseteq {target[Only]} /\ pc'[Only] = "confirm"
    BY <1>1, <1>14 DEF Kill, Goto, OwnInv, TypeOK
  <2>2. OurHarnesses' = {}
    BY <1>1, <1>14, <2>1, DeathKeepsQuiet DEF Kill, Family
  <2> QED
    BY <1>1, <2>1, <2>2 DEF OwnInv, Relying
<1>15. CASE ConfirmStopped(Only) \/ Remove(Only) \/ ClearUrl(Only) \/ ClearPid(Only)
  <2>1. OurHarnesses = {} /\ UNCHANGED osVars
    BY <1>15 DEF ConfirmStopped, Remove, ClearUrl, ClearPid, OwnInv
  <2>2. pc'[Only] \in {"idle", "remove", "clearurl", "clearpid"}
    BY <1>1, <1>15 DEF ConfirmStopped, Remove, ClearUrl, ClearPid, Stopped, Goto, Leave,
                       TypeOK
  <2> QED
    BY <1>1, <2>1, <2>2 DEF OwnInv, OurHarnesses, osVars
<1>16. CASE Timeout(Only) \/ Crash(Only)
  BY <1>1, <1>16 DEF Timeout, Crash, Unhurried
<1>17. ASSUME NEW k \in Pids, Launch(k) \/ Bind(k)
       PROVE  OwnInv'
  BY <1>1, <1>17, LaunchKeepsLaunched, BindKeepsLaunched
     DEF OwnInv, Relying, fileVars, localVars
<1>18. ASSUME NEW k \in Pids, Exit(k) \/ End(k)
       PROVE  OwnInv'
  <2>1. Die({k}) /\ UNCHANGED <<fileVars, localVars>>
    BY <1>1, <1>18 DEF Exit, End
  <2> QED
    BY <1>1, <1>9, <2>1 DEF OwnInv, fileVars, localVars
<1>19. CASE Intrude
  <2>1. /\ pc'[Only] = "idle"
        /\ \E k \in Fresh, kind \in Foreign : Born(k, kind, NoPid) /\ holder' = k
    BY <1>1, <1>19 DEF Intrude, Unhurried, localVars
  <2>2. holder' \notin OurHarnesses'
    BY <1>1, <2>1 DEF OurHarnesses, Born, Fresh, Foreign, TypeOK
  <2> QED
    BY <1>1, <2>1, <2>2 DEF OwnInv
<1>20. CASE UNCHANGED vars
  BY <1>1, <1>20 DEF vars, osVars, fileVars, localVars, OwnInv, Owned, Family, OurHarnesses
<1> QED
  BY <1>4, <1>5, <1>6, <1>7, <1>8, <1>10, <1>11, <1>12, <1>13, <1>14, <1>15,
     <1>16, <1>17, <1>18, <1>19, <1>20, OnlyProc
  DEF Next, Run

(* Between commands, a harness of ours that serves is known for ours: stop *)
(* and rm will not refuse to touch it (multi.rs, confirm_ready; main.rs,   *)
(* serving_state).                                                         *)
THEOREM ServingStaysOwned ==
    ASSUME OneAtATime, Untroubled
    PROVE  Spec => []ServingIsOwned
<1>1. OwnInv => ServingIsOwned
  BY OnlyProc DEF OwnInv, ServingIsOwned, Idle, Relying
<1> QED
  BY <1>1, OwnInit, OwnNext, PTL DEF Spec

(* An instance is forgotten only when no harness of it is left, serving or *)
(* on its way there (main.rs, cmd_rm).                                     *)
THEOREM RmStopsTheHarness ==
    ASSUME OneAtATime, Untroubled
    PROVE  Spec => RemovedMeansStopped
<1>1. ASSUME OwnInv, [Next]_vars, registered, ~registered'
      PROVE  OurHarnesses = {}
  <2>1. \E p \in Procs : Remove(p)
    BY <1>1
       DEF Next, Start, Run, BeginAdd, BeginStart, BeginRestart, BeginStop, Begin,
           ProbePort, CheckOwner, StartFails, Spawn, RecordChild, ChildExits,
           ConfirmReady, RecordListener, Ready, PublishUrl, CheckServing, CheckWhose,
           FindListener, ConfirmStopped, Kill, ClearUrl, ClearPid, ReadUrl, Timeout,
           Crash, Launch, Bind, Exit, End, Intrude, fileVars, vars
  <2> QED
    BY <1>1, <2>1, OnlyProc DEF Remove, OwnInv
<1>2. OwnInv /\ [Next]_vars => [registered /\ ~registered' => OurHarnesses = {}]_vars
  BY <1>1
<1> QED
  BY <1>2, OwnInit, OwnNext, PTL DEF Spec, RemovedMeansStopped

-----------------------------------------------------------------------------
(* If every file is written and every harness that serves says so, but     *)
(* whether or not probes and lookups answer: the URL line a start has read *)
(* is that of the process that has the port.                               *)

Talkative ==
    {"again", "race", "timeout", "crash", "silent", "io", "detached"} \cap Mishaps = {}

LEMMA TalkativeIsUnhurried == Talkative => Unhurried
BY DEF Talkative, Unhurried

UrlInv ==
    /\ AloneInv
    /\ pc[Only] \in {"idle", "probe", "own", "spawn", "record"} => url[Only] = NoPid
    /\ pc[Only] \in {"await", "identify", "grace"} => url[Only] \in Kin \cup {NoPid}
    /\ pc[Only] = "publish" => holder \in {url[Only], NoPid}

LEMMA UrlInit == OneAtATime /\ Init => UrlInv
BY AloneInit, OnlyProc DEF Init, UrlInv

LEMMA UrlNext ==
    ASSUME OneAtATime, Talkative
    PROVE  UrlInv /\ [Next]_vars => UrlInv'
<1> SUFFICES ASSUME UrlInv, [Next]_vars PROVE UrlInv'
  OBVIOUS
<1>1. AloneInv /\ TypeOK /\ Only \in Procs /\ AloneInv' /\ Unhurried
  BY AloneNext, TalkativeIsUnhurried, OnlyProc DEF UrlInv, AloneInv, KillInv
<1>2. ASSUME Leave(Only) PROVE UrlInv'
  BY <1>1, <1>2 DEF Leave, UrlInv, TypeOK
<1>3. ASSUME Start(Only) \/ ProbePort(Only) \/ CheckOwner(Only) \/ StartFails(Only)
             \/ Spawn(Only) \/ RecordChild(Only)
      PROVE  UrlInv'
  <2>1. /\ pc[Only] \in {"idle", "probe", "own", "spawn", "record"}
        /\ url' = url \/ Leave(Only)
    BY <1>3 DEF Start, BeginAdd, BeginStart, BeginRestart, BeginStop, Begin, ProbePort,
                CheckOwner, StartFails, Spawn, RecordChild, Goto
  <2>2. pc'[Only] \in {"check", "probe", "own", "spawn", "record", "await"} \/ Leave(Only)
    BY <1>1, <1>3
       DEF Start, BeginAdd, BeginStart, BeginRestart, BeginStop, Begin, ProbePort,
           CheckOwner, StartFails, Spawn, RecordChild, Goto, TypeOK
  <2> QED
    BY <1>1, <1>2, <2>1, <2>2 DEF UrlInv
<1>4. ASSUME ConfirmReady(Only) \/ RecordListener(Only) PROVE UrlInv'
  <2>1. pc[Only] \in {"await", "identify"} /\ pc'[Only] \in {"identify", "grace"}
    BY <1>1, <1>4 DEF ConfirmReady, RecordListener, Goto, TypeOK
  <2>2. UNCHANGED <<url, child, parent>>
    BY <1>4 DEF ConfirmReady, RecordListener, Goto, osVars
  <2> QED
    BY <1>1, <2>1, <2>2 DEF UrlInv, Kin
<1>5. CASE ReadUrl(Only)
  <2>1. /\ pc[Only] \in {"await", "grace"} /\ holder # NoPid
        /\ url'[Only] = holder /\ UNCHANGED <<pc, child, parent>>
    BY <1>1, <1>5 DEF ReadUrl, UrlToCome, osVars, TypeOK
  <2>2. holder \in Kin
    BY <1>1, <2>1 DEF AloneInv, Known, Launching, Launched
  <2> QED
    BY <1>1, <2>1, <2>2 DEF UrlInv, Kin
<1>6. CASE ChildExits(Only) \/ PublishUrl(Only)
  BY <1>2, <1>6 DEF ChildExits, PublishUrl
<1>7. CASE Ready(Only)
  <2>1. /\ pc[Only] = "grace" /\ pc'[Only] = "publish" /\ UNCHANGED url
        /\ Die({child[Only]}) /\ ~UrlToCome(Only)
    BY <1>1, <1>7 DEF Ready, Goto, Talkative, TypeOK
  <2>2. Launched /\ url[Only] \in Kin \cup {NoPid}
    BY <1>1, <2>1 DEF AloneInv, Known, Launching, UrlInv
  <2>3. ASSUME holder # NoPid PROVE url[Only] = holder
    <3>1. holder \in Kin
      BY <2>2, <2>3 DEF Launched
    <3>2. holder \in Family(child[Only])
      BY <3>1 DEF Kin, Family
    <3>3. url[Only] # NoPid
      BY <2>1, <2>3, <3>2 DEF UrlToCome
    <3> QED
      BY <2>2, <3>1, <3>3 DEF Launched
  <2>4. holder' \in {holder, NoPid}
    BY <2>1 DEF Die
  <2> QED
    BY <1>1, <2>1, <2>3, <2>4 DEF UrlInv
<1>8. CASE \/ CheckServing(Only) \/ CheckWhose(Only) \/ FindListener(Only) \/ Kill(Only)
           \/ ConfirmStopped(Only) \/ Remove(Only) \/ ClearUrl(Only) \/ ClearPid(Only)
  <2>1. \/ Leave(Only)
        \/ pc'[Only] \in {"whose", "remove", "listen", "kill", "confirm", "clearurl",
                          "clearpid"}
    BY <1>1, <1>8 DEF CheckServing, CheckWhose, FindListener, Kill, ConfirmStopped, Remove,
                      ClearUrl, ClearPid, Stopped, NotOurs, Aim, Goto, TypeOK
  <2> QED
    BY <1>1, <1>2, <2>1 DEF UrlInv
<1>9. CASE Timeout(Only) \/ Crash(Only)
  BY <1>1, <1>9 DEF Timeout, Crash, Unhurried
<1>10. ASSUME NEW k \in Pids, Launch(k)
       PROVE  UrlInv'
  <2>1. /\ pc[Only] \in {"record", "await"} /\ UNCHANGED <<holder, localVars>>
        /\ Launched'
    BY <1>1, <1>10, LaunchKeepsLaunched
  <2>2. pc[Only] = "await" => url[Only] = NoPid
    <3>1. k \in Shims
      BY <1>10 DEF Launch, Shims
    <3>2. Launched /\ Family(k) = {k} /\ os[k] = "shim"
      BY <1>1, <1>10, <2>1 DEF Launch, AloneInv, Known, Launching
    <3>3. k = child[Only]
      BY <3>1, <3>2 DEF Launched
    <3>4. Kin = {}
      BY <3>2, <3>3, LifecycleAssumption DEF Launched, Kin, Family
    <3> QED
      BY <3>4 DEF UrlInv
  <2> QED
    BY <1>1, <2>1, <2>2 DEF UrlInv, localVars
<1>11. ASSUME NEW k \in Pids, Bind(k)
       PROVE  UrlInv'
  BY <1>1, <1>11, BindKeepsLaunched DEF UrlInv, Kin, fileVars, localVars
<1>12. ASSUME NEW k \in Pids, Exit(k) \/ End(k)
       PROVE  UrlInv'
  <2>1. Die({k}) /\ UNCHANGED localVars
    BY <1>1, <1>12 DEF Exit, End
  <2>2. holder' \in {holder, NoPid} /\ parent' = parent
    BY <2>1 DEF Die
  <2> QED
    BY <1>1, <2>1, <2>2 DEF UrlInv, Kin, localVars
<1>13. CASE Intrude
  BY <1>1, <1>13 DEF Intrude, Unhurried, UrlInv, localVars
<1>14. CASE UNCHANGED vars
  BY <1>1, <1>14 DEF vars, osVars, localVars, UrlInv, Kin
<1> QED
  BY <1>3, <1>4, <1>5, <1>6, <1>7, <1>8, <1>9, <1>10, <1>11, <1>12, <1>13, <1>14, OnlyProc
  DEF Next, Run

(* The URL a start announces, and the one that open will find, is that of  *)
(* the process that serves (main.rs, start_one; browser.rs, url_path).     *)
THEOREM StartAnnouncesWhoServes ==
    ASSUME OneAtATime, Talkative
    PROVE  Spec => AnnouncedUrlServes
<1>1. ASSUME UrlInv, NEW p \in Procs, PublishUrl(p), holder # NoPid
      PROVE  Announced(p) = holder /\ urlFile' = holder
  <2>1. p = Only /\ url[p] = holder
    BY <1>1, OnlyProc DEF PublishUrl, UrlInv
  <2> QED
    BY <1>1, <2>1 DEF PublishUrl, Announced, Write, Talkative
<1>2. UrlInv /\ [Next]_vars =>
          [\A p \in Procs : PublishUrl(p) /\ holder # NoPid =>
               Announced(p) = holder /\ urlFile' = holder]_vars
  BY <1>1
<1> QED
  BY <1>2, UrlInit, UrlNext, PTL DEF Spec, AnnouncedUrlServes

-----------------------------------------------------------------------------
(* With a shim in front of the harness, the kill at the end of a start     *)
(* hits the shim, which no longer matters: a shim never has the port.      *)

ChildrenAreShims == \A p \in Procs : child[p] # NoPid => os[child[p]] \in {"shim", "gone"}

ShimInv == TypeOK /\ HolderServes /\ ChildrenAreShims

LEMMA ShimNext ==
    ASSUME Shim
    PROVE  ShimInv /\ [Next]_vars => ShimInv'
<1> SUFFICES ASSUME ShimInv, [Next]_vars PROVE ShimInv'
  OBVIOUS
<1>1. TypeOK /\ TypeOK'
  BY TypeNext DEF ShimInv
<1> USE DEF ShimInv, HolderServes, ChildrenAreShims
<1>2. ASSUME UNCHANGED <<os, holder>>,
             \A q \in Procs : child'[q] \in {child[q], NoPid}
      PROVE  ShimInv'
  BY <1>1, <1>2 DEF OurHarnesses, ForeignPids
<1>3. ASSUME NEW p \in Procs, Leave(p), UNCHANGED <<os, holder>>
      PROVE  ShimInv'
  BY <1>1, <1>2, <1>3 DEF Leave, TypeOK
<1>4. ASSUME NEW S, Die(S),
             \A q \in Procs : child'[q] \in {child[q], NoPid}
      PROVE  ShimInv'
  BY <1>1, <1>4, LifecycleAssumption
     DEF Die, OurHarnesses, ForeignPids, Foreign, TypeOK, MaybePids
<1>5. ASSUME NEW k \in Fresh, NEW kind, NEW by, Born(k, kind, by),
             UNCHANGED child, holder' \in {holder, k},
             holder' = k => kind \in {"ours"} \cup Foreign
      PROVE  ShimInv'
  <2>1. /\ k \in Pids /\ os[k] = "gone"
        /\ \A q \in Procs : child[q] # k
    BY DEF Fresh, Alive, Remembered
  <2>2. \A j \in Pids : os'[j] = IF j = k THEN kind ELSE os[j]
    BY <1>1, <1>5, <2>1 DEF Born, TypeOK
  <2>3. HolderServes'
    BY <1>1, <1>5, <2>1, <2>2 DEF OurHarnesses, ForeignPids, Foreign
  <2>4. ChildrenAreShims'
    BY <1>1, <1>5, <2>1, <2>2 DEF TypeOK, MaybePids
  <2> QED
    BY <1>1, <2>3, <2>4
<1>6. ASSUME NEW p \in Procs, Start(p)
      PROVE  ShimInv'
  BY <1>2, <1>6 DEF Start, BeginAdd, BeginStart, BeginRestart, BeginStop, Begin, osVars
<1>7. ASSUME NEW p \in Procs,
             ProbePort(p) \/ CheckOwner(p) \/ StartFails(p) \/ ChildExits(p)
             \/ ConfirmReady(p) \/ Crash(p) \/ PublishUrl(p)
      PROVE  ShimInv'
  BY <1>2, <1>3, <1>7 DEF ProbePort, CheckOwner, StartFails, ChildExits, ConfirmReady,
                          Crash, PublishUrl, Goto, osVars, fileVars
<1>8. ASSUME NEW p \in Procs, RecordChild(p) \/ RecordListener(p) \/ ReadUrl(p)
      PROVE  ShimInv'
  BY <1>2, <1>8 DEF RecordChild, RecordListener, ReadUrl, Goto, osVars
<1>9. ASSUME NEW p \in Procs,
             CheckServing(p) \/ CheckWhose(p) \/ FindListener(p) \/ ConfirmStopped(p)
      PROVE  ShimInv'
  BY <1>2, <1>3, <1>9 DEF CheckServing, CheckWhose, FindListener, ConfirmStopped, NotOurs,
                          Stopped, Aim, Goto, osVars, fileVars
<1>10. ASSUME NEW p \in Procs, Remove(p) \/ ClearUrl(p) \/ ClearPid(p)
       PROVE  ShimInv'
  BY <1>2, <1>3, <1>10 DEF Remove, ClearUrl, ClearPid, Goto, osVars
<1>11. ASSUME NEW p \in Procs, Spawn(p)
       PROVE  ShimInv'
  <2>1. PICK k \in Fresh : Born(k, "shim", NoPid) /\ child' = [child EXCEPT ![p] = k]
    BY <1>11 DEF Spawn
  <2>2. /\ k \in Pids /\ os[k] = "gone" /\ holder' = holder
        /\ \A q \in Procs : child[q] # k
    BY <1>11 DEF Spawn, Fresh, Alive, Remembered
  <2>3. /\ \A j \in Pids : os'[j] = IF j = k THEN "shim" ELSE os[j]
        /\ \A q \in Procs : child'[q] = IF q = p THEN k ELSE child[q]
    BY <1>1, <2>1, <2>2 DEF Born, TypeOK
  <2>4. HolderServes'
    BY <1>1, <2>2, <2>3 DEF OurHarnesses, ForeignPids, Foreign
  <2>5. ChildrenAreShims'
    BY <1>1, <2>2, <2>3 DEF TypeOK, MaybePids
  <2> QED
    BY <1>1, <2>4, <2>5
<1>12. ASSUME NEW p \in Procs, Ready(p) \/ Timeout(p) \/ Kill(p)
       PROVE  ShimInv'
  <2>1. \A q \in Procs : child'[q] \in {child[q], NoPid}
    BY <1>1, <1>12 DEF Ready, Timeout, Kill, Goto, Leave, TypeOK
  <2> QED
    BY <1>4, <1>12, <2>1 DEF Ready, Timeout, Kill
<1>13. ASSUME NEW k \in Pids, Exit(k) \/ End(k)
       PROVE  ShimInv'
  BY <1>4, <1>13 DEF Exit, End, localVars
<1>14. ASSUME NEW k \in Pids, Launch(k)
       PROVE  ShimInv'
  BY <1>5, <1>14 DEF Launch, localVars
<1>15. ASSUME NEW k \in Pids, Bind(k)
       PROVE  ShimInv'
  BY <1>1, <1>15 DEF Bind, localVars, OurHarnesses, ForeignPids
<1>16. CASE Intrude
  BY <1>5, <1>16 DEF Intrude, localVars
<1>17. CASE UNCHANGED vars
  BY <1>2, <1>17 DEF vars, osVars, localVars
<1> QED
  BY <1>6, <1>7, <1>8, <1>9, <1>10, <1>11, <1>12, <1>13, <1>14, <1>15, <1>16, <1>17
  DEF Next, Run

(* Where the harness is launched through dsh.cmd, a start that says the    *)
(* instance is ready leaves it running, whatever goes wrong and however    *)
(* many commands run.  Where it is launched directly nothing of the kind   *)
(* holds: the child that kill_on_drop hits is the harness (multi.rs,       *)
(* await_ready; process.rs, launch).                                       *)
THEOREM ReadyLeavesItRunning ==
    ASSUME Shim
    PROVE  Spec => ReadyMeansRunning
<1>1. Init => ShimInv
  BY TypeInit, LifecycleAssumption DEF Init, ShimInv, HolderServes, ChildrenAreShims
<1>2. ASSUME ShimInv, Next, NEW p \in Procs, pc[p] = "grace", pc'[p] = "publish"
      PROVE  holder' = holder
  <2>1. Ready(p)
    <3>1. ASSUME NEW q \in Procs, NEW phase \in Phases \ {"publish"},
                 pc' = [pc EXCEPT ![q] = phase]
          PROVE  FALSE
      BY <1>2, <3>1 DEF ShimInv, TypeOK
    <3>2. ASSUME NEW q \in Procs, Leave(q)
          PROVE  FALSE
      BY <3>1, <3>2 DEF Leave, Phases
    <3>3. pc' # pc
      BY <1>2
    <3>4. ASSUME NEW q \in Procs, Start(q)
          PROVE  FALSE
      BY <3>1, <3>4 DEF Start, BeginAdd, BeginStart, BeginRestart, BeginStop, Begin, Phases
    <3>5. ASSUME NEW q \in Procs,
                 \/ ProbePort(q) \/ CheckOwner(q) \/ StartFails(q) \/ Spawn(q)
                 \/ RecordChild(q) \/ ReadUrl(q) \/ ChildExits(q) \/ ConfirmReady(q)
                 \/ RecordListener(q) \/ Timeout(q) \/ PublishUrl(q) \/ Crash(q)
          PROVE  FALSE
      BY <3>1, <3>2, <3>3, <3>5
         DEF ProbePort, CheckOwner, StartFails, Spawn, RecordChild, ReadUrl, ChildExits,
             ConfirmReady, RecordListener, Timeout, PublishUrl, Crash, Goto, Phases
    <3>6. ASSUME NEW q \in Procs,
                 \/ CheckServing(q) \/ CheckWhose(q) \/ FindListener(q) \/ Kill(q)
                 \/ ConfirmStopped(q) \/ Remove(q) \/ ClearUrl(q) \/ ClearPid(q)
          PROVE  FALSE
      BY <3>1, <3>2, <3>6
         DEF CheckServing, CheckWhose, FindListener, Kill, ConfirmStopped, Remove,
             ClearUrl, ClearPid, NotOurs, Stopped, Aim, Goto, Phases
    <3>7. ~(\E k \in Pids : Launch(k) \/ Bind(k) \/ Exit(k) \/ End(k)) /\ ~Intrude
      BY <3>3 DEF Launch, Bind, Exit, End, Intrude, localVars
    <3>8. PICK q \in Procs : Ready(q)
      BY <1>2, <3>4, <3>5, <3>6, <3>7 DEF Next, Run
    <3> QED
      BY <1>2, <3>8 DEF Ready, Goto, ShimInv, TypeOK
  <2>2. child[p] \in Pids
    BY <1>2 DEF ShimInv, TypeOK, MaybePids
  <2>3. holder # child[p]
    BY <1>2, <2>2, LifecycleAssumption
       DEF ShimInv, HolderServes, ChildrenAreShims, OurHarnesses, ForeignPids, Foreign
  <2> QED
    BY <2>1, <2>3 DEF Ready, Die
<1>3. ShimInv /\ [Next]_vars =>
          [\A p \in Procs : pc[p] = "grace" /\ pc'[p] = "publish" => holder' = holder]_vars
  BY <1>2
<1> QED
  BY <1>1, ShimNext, <1>3, PTL DEF Spec, ReadyMeansRunning
=============================================================================
