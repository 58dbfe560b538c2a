-------------------------- MODULE SupervisorProofs --------------------------
(***************************************************************************)
(* What Supervisor guarantees to any number of tasks that call start and   *)
(* stop as they like, with any timeouts and any harnesses.                 *)
(***************************************************************************)
EXTENDS Supervisor, TLAPS

-----------------------------------------------------------------------------
(* A Child belongs to the start that spawned it, and only the lines of     *)
(* such a child can be unread.                                             *)

ChildrenAreOwned == \A t \in Tasks : pc[t] \notin Owning => child[t] = NoPid

LinesHaveReaders == \A k \in Pids : line[k] # "none" => \E t \in Tasks : child[t] = k

LoopInv == TypeOK /\ ChildrenAreOwned /\ LinesHaveReaders

LEMMA LoopInit == Init => LoopInv
BY SupervisorAssumption
   DEF Init, LoopInv, TypeOK, ChildrenAreOwned, LinesHaveReaders, MaybePids, Phases,
       Owning, RuntimeStates, Lines, SlowProbe

(* Whatever start returns, nothing is left of its child's lines.           *)
LEMMA ReturnKeepsLoopInv ==
    ASSUME LoopInv, NEW t \in Tasks, Return(t),
           state' \in RuntimeStates, pid' \in MaybePids, authUrl' \in MaybePids
    PROVE  LoopInv'
<1> USE DEF LoopInv, MaybePids, Phases, Owning, SlowProbe
<1>1. TypeOK'
  BY DEF TypeOK, Return, Goto, Lines
<1>2. ChildrenAreOwned'
  BY DEF TypeOK, ChildrenAreOwned, Return, Goto
<1>3. LinesHaveReaders'
  BY DEF TypeOK, LinesHaveReaders, Return
<1> QED
  BY <1>1, <1>2, <1>3

LEMMA LoopNext == LoopInv /\ [Next]_vars => LoopInv'
<1> SUFFICES ASSUME LoopInv, [Next]_vars PROVE LoopInv'
  OBVIOUS
<1> USE DEF LoopInv, MaybePids, Phases, Owning, RuntimeStates, SlowProbe
<1>1. ASSUME NEW t \in Tasks, CallStart(t) \/ CallStop(t) \/ Stop(t)
      PROVE  LoopInv'
  BY <1>1 DEF CallStart, CallStop, Stop, Goto, osVars, statusVars, loopVars, TypeOK,
              ChildrenAreOwned, LinesHaveReaders
<1>2. ASSUME NEW t \in Tasks, ProbePort(t) \/ MarkStarting(t)
      PROVE  LoopInv'
  BY <1>2 DEF ProbePort, MarkStarting, Goto, osVars, statusVars, loopVars, TypeOK,
              ChildrenAreOwned, LinesHaveReaders
<1>3. ASSUME NEW t \in Tasks,
             Refuse(t) \/ SpawnFails(t) \/ Deadline(t) \/ ChildExits(t) \/ PublishUrl(t)
      PROVE  LoopInv'
  BY <1>3, ReturnKeepsLoopInv
     DEF Refuse, SpawnFails, Deadline, ChildExits, PublishUrl, statusVars, TypeOK
<1>4. ASSUME NEW t \in Tasks, Spawn(t)
      PROVE  LoopInv'
  <2>1. PICK k \in Pids : /\ os' = [os EXCEPT ![k] = "booting"]
                          /\ silent' = silent \ {k} /\ told' = told \ {k}
                          /\ child' = [child EXCEPT ![t] = k]
                          /\ pid' = k
    BY <1>4 DEF Spawn, Fresh
  <2>2. TypeOK'
    BY <1>4, <2>1, SupervisorAssumption DEF Spawn, Goto, TypeOK
  <2>3. ChildrenAreOwned'
    BY <1>4, <2>1 DEF Spawn, Goto, TypeOK, ChildrenAreOwned
  <2>4. child[t] = NoPid
    BY <1>4 DEF Spawn, ChildrenAreOwned
  <2>5. LinesHaveReaders'
    BY <1>4, <2>1, <2>4, SupervisorAssumption DEF Spawn, TypeOK, LinesHaveReaders
  <2> QED
    BY <2>2, <2>3, <2>5
<1>5. ASSUME NEW t \in Tasks, ReadLine(t) \/ ReadUrl(t)
      PROVE  LoopInv'
  <2>1. captured' \in [Tasks -> MaybePids] /\ announced' \in [Tasks -> BOOLEAN]
    BY <1>5 DEF ReadLine, ReadUrl, Receive, TypeOK
  <2>2. TypeOK'
    BY <1>5, <2>1 DEF ReadLine, ReadUrl, Receive, statusVars, TypeOK, Lines
  <2>3. ChildrenAreOwned' /\ LinesHaveReaders'
    BY <1>5 DEF ReadLine, ReadUrl, Receive, TypeOK, ChildrenAreOwned, LinesHaveReaders
  <2> QED
    BY <2>2, <2>3
<1>6. ASSUME NEW t \in Tasks, ReadClosed(t) \/ Probe(t) \/ GraceEnds(t)
      PROVE  LoopInv'
  BY <1>6 DEF ReadClosed, Probe, GraceEnds, Goto, osVars, statusVars, loopVars, TypeOK,
              ChildrenAreOwned, LinesHaveReaders
<1>7. ASSUME NEW t \in Tasks, Confirm(t)
      PROVE  LoopInv'
  BY <1>7, SupervisorAssumption
     DEF Confirm, Goto, Serving, osVars, TypeOK, ChildrenAreOwned, LinesHaveReaders
<1>8. ASSUME NEW k \in Pids, Boot(k) \/ Crash(k) \/ CloseStreams(k)
      PROVE  LoopInv'
  BY <1>8 DEF Boot, Crash, CloseStreams, statusVars, loopVars, TypeOK,
              ChildrenAreOwned, LinesHaveReaders
<1>9. ASSUME NEW k \in Pids, Say(k)
      PROVE  LoopInv'
  BY <1>9 DEF Say, statusVars, loopVars, TypeOK, ChildrenAreOwned, LinesHaveReaders
<1>10. CASE Tick
  <2>1. waited' \in [Tasks -> 0..SlowProbe]
    BY <1>10 DEF Tick, Busy, Due, FastProbe, TypeOK
  <2>2. left' \in [Tasks -> Nat]
    BY <1>10 DEF Tick, TypeOK
  <2> QED
    BY <1>10, <2>1, <2>2 DEF Tick, statusVars, TypeOK, ChildrenAreOwned, LinesHaveReaders
<1>11. CASE UNCHANGED vars
  BY <1>11 DEF vars, osVars, statusVars, loopVars, TypeOK, ChildrenAreOwned,
               LinesHaveReaders
<1> QED
  BY <1>1, <1>2, <1>3, <1>4, <1>5, <1>6, <1>7, <1>8, <1>9, <1>10, <1>11 DEF Next, Run

(* The variables keep their types; whoever waits for a child has one, and  *)
(* no timer runs past the slower of the two (supervisor.rs,                *)
(* await_readiness).                                                       *)
THEOREM SupervisorTyped == Spec => []TypeOK
<1>1. LoopInv => TypeOK
  BY DEF LoopInv
<1> QED
  BY LoopInit, LoopNext, <1>1, PTL DEF Spec

-----------------------------------------------------------------------------
(* Only a failed spawn leaves Starting behind: whatever else ends a start  *)
(* says so, or leaves the state to a later one (state.rs, Starting;        *)
(* supervisor.rs, start and await_readiness).                              *)
THEOREM StartingIsUnderWay ==
    ASSUME "spawn" \notin Mishaps
    PROVE  Spec => []StartingMeansStarting
<1>1. Init => StartingMeansStarting
  BY DEF Init, StartingMeansStarting
<1>2. LoopInv /\ StartingMeansStarting /\ [Next]_vars => StartingMeansStarting'
  <2> SUFFICES ASSUME LoopInv, StartingMeansStarting, [Next]_vars
               PROVE  StartingMeansStarting'
    OBVIOUS
  <2> USE DEF LoopInv, StartingMeansStarting
  <2>1. ASSUME NEW t \in Tasks, state' # "starting"
        PROVE  StartingMeansStarting'
    BY <2>1
  <2>2. ASSUME NEW t \in Tasks,
               Refuse(t) \/ Deadline(t) \/ ChildExits(t) \/ Confirm(t)
               \/ CallStop(t) \/ Stop(t)
        PROVE  StartingMeansStarting'
    BY <2>1, <2>2 DEF Refuse, Deadline, ChildExits, Confirm, CallStop, Stop
  <2>3. ASSUME NEW t \in Tasks, MarkStarting(t) \/ Spawn(t)
        PROVE  StartingMeansStarting'
    <3>1. pc'[t] \in {"spawn", "await"}
      BY <2>3 DEF MarkStarting, Spawn, Goto, TypeOK
    <3> QED
      BY <3>1
  <2>4. ASSUME NEW t \in Tasks,
               CallStart(t) \/ ProbePort(t) \/ PublishUrl(t) \/ GraceEnds(t)
        PROVE  StartingMeansStarting'
    BY <2>4 DEF CallStart, ProbePort, PublishUrl, GraceEnds, Return, Goto, statusVars,
                TypeOK
  <2>5. ASSUME NEW t \in Tasks, ReadLine(t) \/ ReadUrl(t) \/ ReadClosed(t) \/ Probe(t)
        PROVE  StartingMeansStarting'
    BY <2>5 DEF ReadLine, ReadUrl, Receive, ReadClosed, Probe, Goto, statusVars, TypeOK
  <2>6. ASSUME NEW k \in Pids, Boot(k) \/ Crash(k) \/ CloseStreams(k) \/ Say(k)
        PROVE  StartingMeansStarting'
    BY <2>6 DEF Boot, Crash, CloseStreams, Say, statusVars
  <2>7. CASE Tick \/ UNCHANGED vars
    BY <2>7 DEF Tick, vars, statusVars
  <2> QED
    BY <2>2, <2>3, <2>4, <2>5, <2>6, <2>7 DEF Next, Run, SpawnFails
<1> QED
  BY LoopInit, LoopNext, <1>1, <1>2, PTL DEF Spec

-----------------------------------------------------------------------------
(* A line that announces readiness is printed by a harness that has bound  *)
(* its port, and a process id is not given again while a start remembers   *)
(* the announcement.                                                       *)

AnnouncementsAreTrue ==
    \A k \in Pids : line[k] = "announcement" => os[k] # "booting"

AnnounceInv == LoopInv /\ AnnouncementsAreTrue /\ AnnouncedHasServed

(* classify_line takes the announcement for one, and nothing else that a   *)
(* harness prints.                                                         *)
LEMMA OnlyAnnouncements == \A l \in Lines : Announces(l) <=> l = "announcement"
BY DEF Lines, Announces, Markers

LEMMA AnnounceNext == AnnounceInv /\ [Next]_vars => AnnounceInv'
<1> SUFFICES ASSUME AnnounceInv, [Next]_vars PROVE AnnounceInv'
  OBVIOUS
<1>1. LoopInv /\ TypeOK /\ LoopInv'
  BY LoopNext DEF AnnounceInv, LoopInv
<1> USE DEF AnnounceInv, AnnouncementsAreTrue, AnnouncedHasServed
<1>2. ASSUME UNCHANGED <<os, line, captured>>
      PROVE  AnnounceInv'
  BY <1>1, <1>2
<1>3. ASSUME NEW t \in Tasks,
             CallStart(t) \/ ProbePort(t) \/ MarkStarting(t) \/ ReadClosed(t) \/ Probe(t)
             \/ Confirm(t) \/ GraceEnds(t) \/ CallStop(t) \/ Stop(t)
      PROVE  AnnounceInv'
  BY <1>2, <1>3 DEF CallStart, ProbePort, MarkStarting, ReadClosed, Probe, Confirm,
                    GraceEnds, CallStop, Stop, osVars, loopVars
<1>4. ASSUME NEW t \in Tasks, Return(t)
      PROVE  AnnounceInv'
  <2>1. /\ \A k \in Pids : os'[k] = "booting" => os[k] = "booting"
        /\ \A k \in Pids : line'[k] \in {line[k], "none"}
        /\ \A u \in Tasks : captured'[u] \in {captured[u], NoPid}
        /\ \A u \in Tasks : captured'[u] = NoPid \/ captured'[u] \in Pids
    BY <1>1, <1>4 DEF Return, TypeOK, MaybePids
  <2> QED
    BY <1>1, <2>1
<1>5. ASSUME NEW t \in Tasks,
             Refuse(t) \/ SpawnFails(t) \/ Deadline(t) \/ ChildExits(t) \/ PublishUrl(t)
      PROVE  AnnounceInv'
  BY <1>4, <1>5 DEF Refuse, SpawnFails, Deadline, ChildExits, PublishUrl
<1>6. ASSUME NEW t \in Tasks, Spawn(t)
      PROVE  AnnounceInv'
  <2>1. PICK k \in Fresh : os' = [os EXCEPT ![k] = "booting"]
    BY <1>6 DEF Spawn
  <2>2. /\ k \in Pids /\ line[k] = "none"
        /\ \A u \in Tasks : captured[u] # k
    BY <1>1 DEF Fresh, LoopInv, LinesHaveReaders
  <2>3. UNCHANGED <<line, captured>>
    BY <1>6 DEF Spawn
  <2>4. \A j \in Pids : j # k => os'[j] = os[j]
    BY <1>1, <2>1, <2>2 DEF TypeOK
  <2>5. AnnouncementsAreTrue'
    BY <2>2, <2>3, <2>4
  <2>6. AnnouncedHasServed'
    BY <1>1, <2>2, <2>3, <2>4 DEF TypeOK, MaybePids
  <2> QED
    BY <1>1, <2>5, <2>6
<1>7. ASSUME NEW t \in Tasks, ReadLine(t) \/ ReadUrl(t)
      PROVE  AnnounceInv'
  <2>1. Unread(t) /\ Receive(t) /\ child[t] \in Pids
    BY <1>1, <1>7 DEF ReadLine, ReadUrl, TypeOK, Owning
  <2>2. Announces(line[child[t]]) => line[child[t]] = "announcement"
    BY <1>1, <2>1, OnlyAnnouncements DEF Unread, TypeOK
  <2>3. \A k \in Pids : line'[k] \in {line[k], "none"}
    BY <1>1, <2>1 DEF Receive, TypeOK
  <2>4. \A u \in Tasks : \/ captured'[u] = captured[u]
                         \/ captured'[u] = child[t] /\ Announces(line[child[t]])
    BY <1>1, <2>1 DEF Receive, TypeOK
  <2>5. AnnouncementsAreTrue'
    BY <2>1, <2>3 DEF Receive
  <2>6. AnnouncedHasServed'
    BY <2>1, <2>2, <2>4 DEF Receive
  <2> QED
    BY <1>1, <2>5, <2>6
<1>8. ASSUME NEW k \in Pids, Boot(k) \/ Crash(k)
      PROVE  AnnounceInv'
  <2>1. /\ UNCHANGED <<line, captured>>
        /\ \A j \in Pids : os'[j] = "booting" => os[j] = "booting"
    BY <1>1, <1>8 DEF Boot, Crash, TypeOK, loopVars
  <2> QED
    BY <1>1, <2>1 DEF TypeOK, MaybePids
<1>9. ASSUME NEW k \in Pids, CloseStreams(k)
      PROVE  AnnounceInv'
  BY <1>2, <1>9 DEF CloseStreams, loopVars
<1>10. ASSUME NEW k \in Pids, Say(k)
       PROVE  AnnounceInv'
  BY <1>1, <1>10 DEF Say, loopVars, TypeOK
<1>11. CASE Tick \/ UNCHANGED vars
  BY <1>2, <1>11 DEF Tick, vars, osVars, loopVars
<1> QED
  BY <1>3, <1>5, <1>6, <1>7, <1>8, <1>9, <1>10, <1>11 DEF Next, Run

(* Only a harness that has bound its port is taken to have announced       *)
(* itself (readiness.rs, classify_line).                                   *)
THEOREM AnnouncementsAreBelieved == Spec => []AnnouncedHasServed
<1>1. Init => AnnounceInv
  BY LoopInit DEF Init, AnnounceInv, AnnouncementsAreTrue, AnnouncedHasServed
<1>2. AnnounceInv => AnnouncedHasServed
  BY DEF AnnounceInv
<1> QED
  BY <1>1, AnnounceNext, <1>2, PTL DEF Spec

-----------------------------------------------------------------------------
(* Two starts never own the same child, and what a start has captured came *)
(* from its own.  Hence the line with the token is not dropped by a start  *)
(* that ends meanwhile.                                                    *)

ChildrenAreDistinct ==
    \A t, u \in Tasks : child[t] = child[u] /\ child[t] # NoPid => t = u

CapturedIsTheChilds == \A t \in Tasks : captured[t] \in {NoPid, child[t]}

TokenInv == LoopInv /\ ChildrenAreDistinct /\ CapturedIsTheChilds

LEMMA TokenInit == Init => TokenInv
BY LoopInit DEF Init, TokenInv, ChildrenAreDistinct, CapturedIsTheChilds

LEMMA TokenNext == TokenInv /\ [Next]_vars => TokenInv'
<1> SUFFICES ASSUME TokenInv, [Next]_vars PROVE TokenInv'
  OBVIOUS
<1>1. LoopInv /\ TypeOK /\ LoopInv'
  BY LoopNext DEF TokenInv, LoopInv
<1> USE DEF TokenInv, ChildrenAreDistinct, CapturedIsTheChilds
<1>2. ASSUME UNCHANGED <<child, captured>>
      PROVE  TokenInv'
  BY <1>1, <1>2
<1>3. ASSUME NEW t \in Tasks,
             CallStart(t) \/ ProbePort(t) \/ MarkStarting(t) \/ ReadClosed(t) \/ Probe(t)
             \/ Confirm(t) \/ GraceEnds(t) \/ CallStop(t) \/ Stop(t)
      PROVE  TokenInv'
  BY <1>2, <1>3 DEF CallStart, ProbePort, MarkStarting, ReadClosed, Probe, Confirm,
                    GraceEnds, CallStop, Stop, loopVars
<1>4. ASSUME NEW t \in Tasks, Return(t)
      PROVE  TokenInv'
  <2>1. \A u \in Tasks : /\ child'[u] = IF u = t THEN NoPid ELSE child[u]
                         /\ captured'[u] = IF u = t THEN NoPid ELSE captured[u]
    BY <1>1, <1>4 DEF Return, TypeOK
  <2> QED
    BY <1>1, <2>1
<1>5. ASSUME NEW t \in Tasks,
             Refuse(t) \/ SpawnFails(t) \/ Deadline(t) \/ ChildExits(t) \/ PublishUrl(t)
      PROVE  TokenInv'
  BY <1>4, <1>5 DEF Refuse, SpawnFails, Deadline, ChildExits, PublishUrl
<1>6. ASSUME NEW t \in Tasks, Spawn(t)
      PROVE  TokenInv'
  <2>1. PICK k \in Fresh : child' = [child EXCEPT ![t] = k]
    BY <1>6 DEF Spawn
  <2>2. child[t] = NoPid
    BY <1>1, <1>6 DEF Spawn, LoopInv, ChildrenAreOwned, Owning
  <2>3. UNCHANGED captured
    BY <1>6 DEF Spawn
  <2>4. \A u \in Tasks : child'[u] = IF u = t THEN k ELSE child[u]
    BY <1>1, <2>1 DEF TypeOK
  <2>5. \A u \in Tasks : child[u] # k
    BY DEF Fresh
  <2> QED
    BY <1>1, <2>2, <2>3, <2>4, <2>5
<1>7. ASSUME NEW t \in Tasks, ReadLine(t) \/ ReadUrl(t)
      PROVE  TokenInv'
  <2>1. Receive(t)
    BY <1>7 DEF ReadLine, ReadUrl
  <2>2. \A u \in Tasks : captured'[u] \in {captured[u], child[u]}
    BY <1>1, <2>1 DEF Receive, TypeOK
  <2> QED
    BY <1>1, <2>1, <2>2 DEF Receive
<1>8. ASSUME NEW k \in Pids, Boot(k) \/ Crash(k) \/ Say(k) \/ CloseStreams(k)
      PROVE  TokenInv'
  BY <1>2, <1>8 DEF Boot, Crash, Say, CloseStreams, loopVars
<1>9. CASE Tick \/ UNCHANGED vars
  BY <1>2, <1>9 DEF Tick, vars, loopVars
<1> QED
  BY <1>3, <1>4, <1>5, <1>6, <1>7, <1>8, <1>9 DEF Next, Run

\* The token is in the channel of a start that still waits for it, or read.
TokenIsOnItsWay(t) ==
    /\ pc[t] = "grace"
    /\ \/ left[t] > 0 /\ line[child[t]] = "announcement"
       \/ captured[t] = child[t]

TokenIsReady(t) == pc[t] = "url" /\ captured[t] = child[t]

(* A token that is printed while start still waits for it is not lost: it  *)
(* stays in the channel, or with the start that has read it, until that    *)
(* start goes on to publish it, whatever other starts and stops do and     *)
(* however much the harness prints (supervisor.rs, URL_GRACE_MS).  That    *)
(* the start does go on is TokenIsPublished.                               *)
THEOREM TokenIsNotLost ==
    Spec => [][\A t \in Tasks : TokenIsOnItsWay(t) =>
                   TokenIsOnItsWay(t)' \/ TokenIsReady(t)']_vars
<1>1. ASSUME TokenInv, Next, NEW t \in Tasks, TokenIsOnItsWay(t)
      PROVE  TokenIsOnItsWay(t)' \/ TokenIsReady(t)'
  <2>1. /\ TypeOK /\ pc[t] = "grace" /\ child[t] \in Pids
        /\ \A u \in Tasks : u # t => child[u] # child[t]
        /\ captured[t] \in {NoPid, child[t]}
    BY <1>1, SupervisorAssumption
       DEF TokenInv, LoopInv, TypeOK, Owning, ChildrenAreDistinct, CapturedIsTheChilds,
           TokenIsOnItsWay
  <2>2. ASSUME pc'[t] = pc[t], child'[t] = child[t], left'[t] = left[t],
               captured'[t] = captured[t],
               line[child[t]] = "announcement" => line'[child[t]] = "announcement"
        PROVE  TokenIsOnItsWay(t)'
    BY <1>1, <2>2 DEF TokenIsOnItsWay
  <2>3. ASSUME NEW u \in Tasks,
               CallStart(u) \/ ProbePort(u) \/ MarkStarting(u) \/ ReadClosed(u) \/ Probe(u)
               \/ CallStop(u) \/ Stop(u)
        PROVE  TokenIsOnItsWay(t)'
    BY <2>1, <2>2, <2>3 DEF CallStart, ProbePort, MarkStarting, ReadClosed, Probe,
                            CallStop, Stop, Goto, osVars, loopVars, TypeOK
  <2>4. ASSUME NEW u \in Tasks, u # t, Return(u)
        PROVE  TokenIsOnItsWay(t)'
    BY <2>1, <2>2, <2>4 DEF Return, Goto, TypeOK
  <2>5. ASSUME NEW u \in Tasks,
               Refuse(u) \/ SpawnFails(u) \/ Deadline(u) \/ ChildExits(u) \/ PublishUrl(u)
        PROVE  TokenIsOnItsWay(t)'
    BY <2>1, <2>4, <2>5 DEF Refuse, SpawnFails, Deadline, ChildExits, PublishUrl
  <2>6. ASSUME NEW u \in Tasks, Spawn(u) \/ Confirm(u)
        PROVE  TokenIsOnItsWay(t)'
    BY <2>1, <2>2, <2>6 DEF Spawn, Confirm, Goto, osVars, TypeOK
  <2>7. ASSUME NEW u \in Tasks, u # t, ReadLine(u) \/ ReadUrl(u)
        PROVE  TokenIsOnItsWay(t)'
    BY <2>1, <2>2, <2>7 DEF ReadLine, ReadUrl, Receive, TypeOK
  <2>8. ASSUME ReadLine(t) \/ ReadUrl(t)
        PROVE  TokenIsOnItsWay(t)'
    <3>1. pc' = pc /\ child' = child /\ captured[t] = NoPid /\ Receive(t)
      BY <2>1, <2>8 DEF ReadLine, ReadUrl, Receive
    <3>2. line[child[t]] = "announcement"
      BY <1>1, <2>1, <3>1, SupervisorAssumption DEF TokenIsOnItsWay
    <3>3. captured'[t] = child[t]
      BY <2>1, <3>1, <3>2, OnlyAnnouncements DEF Receive, Lines, TypeOK
    <3> QED
      BY <2>1, <3>1, <3>3 DEF TokenIsOnItsWay
  <2>9. ASSUME NEW u \in Tasks, u # t, GraceEnds(u)
        PROVE  TokenIsOnItsWay(t)'
    BY <2>1, <2>2, <2>9 DEF GraceEnds, Goto, osVars, loopVars, TypeOK
  <2>10. CASE GraceEnds(t)
    <3>1. captured[t] = child[t]
      BY <1>1, <2>1, <2>10 DEF GraceEnds, TokenIsOnItsWay, TypeOK
    <3> QED
      BY <2>1, <2>10, <3>1 DEF GraceEnds, Goto, loopVars, TokenIsReady, TypeOK
  <2>11. ASSUME NEW k \in Pids, Boot(k) \/ Crash(k) \/ Say(k) \/ CloseStreams(k)
         PROVE  TokenIsOnItsWay(t)'
    <3>1. line[child[t]] = "announcement" => line'[child[t]] = "announcement"
      BY <2>1, <2>11 DEF Boot, Crash, Say, CloseStreams, TypeOK
    <3> QED
      BY <2>2, <2>11, <3>1 DEF Boot, Crash, Say, CloseStreams, loopVars
  <2>12. CASE Tick
    <3>1. ~Busy(t)
      BY <2>1, <2>12 DEF Tick
    <3>2. line[child[t]] = "none" /\ captured[t] = NoPid
      BY <2>1, <3>1 DEF Busy, Unread
    <3> QED
      BY <1>1, <2>1, <3>2, SupervisorAssumption DEF TokenIsOnItsWay
  <2> QED
    BY <1>1, <2>3, <2>5, <2>6, <2>7, <2>8, <2>9, <2>10, <2>11, <2>12 DEF Next, Run
<1>2. TokenInv /\ [Next]_vars =>
          [\A t \in Tasks : TokenIsOnItsWay(t) =>
               TokenIsOnItsWay(t)' \/ TokenIsReady(t)']_vars
  BY <1>1
<1> QED
  BY TokenInit, TokenNext, <1>2, PTL DEF Spec
=============================================================================
