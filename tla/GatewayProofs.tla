--------------------------- MODULE GatewayProofs ----------------------------
(***************************************************************************)
(* What Gateway guarantees for any instances, gateways and tabs.  Each     *)
(* theorem names the mishaps it leaves out.                                *)
(***************************************************************************)
EXTENDS Gateway, TLAPS

RegistryKept  == "changed" \notin Mishaps
CookiesKept   == "cleared" \notin Mishaps
OneGateway    == "second" \notin Mishaps
RecordWritten == "unwritten" \notin Mishaps
AnswersInTime == "slow" \notin Mishaps

-----------------------------------------------------------------------------
(* Types.                                                                  *)

OpeningKept == opening' = opening
OpeningOver == opener' = "idle" /\ bare' = FALSE /\ seen' = None /\ found' = {}

LEMMA TypeInit == Init => TypeOK
<1>1. Init => bare \in BOOLEAN
  BY DEF Init
<1> QED
  BY <1>1 DEF Init, TypeOK, Registries

LEMMA TypeVisit ==
    ASSUME TypeOK, NEW t \in Tabs, NEW p \in GatePorts, NEW n \in Names,
           NEW kind \in Documents, Visit(t, p, n, kind),
           UNCHANGED <<instances, gateways>>,
           OpeningKept \/ OpeningOver
    PROVE  TypeOK'
<1>1. [at |-> p, name |-> n] # None
  BY GatewayAssumption
<1>2. /\ tab' \in [Tabs -> [at : GatePorts, name : Names] \cup {None}]
      /\ app' \in [Tabs -> Names \cup {None}]
      /\ ask' \in [Tabs -> {"nothing", "fetch", "upgrade"} \cup Documents]
      /\ sent' = sent /\ marked' = marked
  BY DEF TypeOK, Visit
<1>3. \A s \in Tabs : tab'[s] = None => app'[s] = None /\ ask'[s] = "nothing"
  BY <1>1 DEF TypeOK, Visit
<1>4. /\ opener' \in {"idle", "read", "probe", "refused"}
      /\ bare' \in BOOLEAN
      /\ seen' \in GatePorts \cup {None}
      /\ found' \subseteq Gates
  BY DEF TypeOK, opening, OpeningKept, OpeningOver
<1>5. /\ registry' = registry /\ up' = up
      /\ gate' = gate /\ port' = port /\ routes' = routes /\ record' = record
  BY DEF instances, gateways
<1>6. QED
  BY <1>2, <1>3, <1>4, <1>5 DEF TypeOK

LEMMA TypeNext == TypeOK /\ [Next]_vars => TypeOK'
<1> SUFFICES ASSUME TypeOK, [Next]_vars PROVE TypeOK'
  OBVIOUS
<1> USE DEF instances, gateways, browser, opening
<1>1. ASSUME NEW n \in Names, Add(n)
      PROVE  TypeOK'
  BY <1>1, GatewayAssumption DEF TypeOK, Registries, Add
<1>2. ASSUME NEW n \in Names, Rm(n)
      PROVE  TypeOK'
  BY <1>2 DEF TypeOK, Registries, Rm
<1>3. ASSUME NEW n \in Names, Start(n) \/ Stop(n)
      PROVE  TypeOK'
  BY <1>3 DEF TypeOK, Start, Stop
<1>4. ASSUME NEW g \in Gates, Load(g)
      PROVE  TypeOK'
  BY <1>4 DEF TypeOK, Load
<1>5. ASSUME NEW g \in Gates, Bind(g)
      PROVE  TypeOK'
  BY <1>5, GatewayAssumption DEF TypeOK, Bind
<1>6. ASSUME NEW g \in Gates, WritePort(g)
      PROVE  TypeOK'
  BY <1>6 DEF TypeOK, WritePort
<1>7. ASSUME NEW g \in Gates, End(g)
      PROVE  TypeOK'
  BY <1>7 DEF TypeOK, Registries, End
<1>8. ASSUME NEW t \in Tabs, NEW g \in Gates, Handle(g, t)
      PROVE  TypeOK'
  <2>1. tab[t] # None /\ tab[t].name \in Names
    BY <1>8 DEF TypeOK, Handle
  <2>2. app' \in [Tabs -> Names \cup {None}]
    BY <1>8 DEF TypeOK, Handle, Answering
  <2>3. \A s \in Tabs : tab'[s] = None => app'[s] = None /\ ask'[s] = "nothing"
    BY <1>8, <2>1 DEF TypeOK, Handle
  <2>4. marked' \subseteq Names
    BY <1>8, <2>1 DEF TypeOK, Handle
  <2>5. QED
    BY <1>8, <2>2, <2>3, <2>4 DEF TypeOK, Handle
<1>9. ASSUME NEW t \in Tabs, NEW p \in GatePorts, NEW n \in Names, EnterUrl(t, p, n)
      PROVE  TypeOK'
  BY <1>9, TypeVisit DEF EnterUrl, Documents, OpeningKept
<1>10. ASSUME NEW t \in Tabs, NEW g \in Gates, NEW n \in Names, FollowLink(t, g, n)
       PROVE  TypeOK'
  <2>1. port[g] \in GatePorts
    BY <1>10 DEF TypeOK, FollowLink
  <2>2. QED
    BY <1>10, <2>1, TypeVisit DEF FollowLink, Documents, OpeningKept
<1>11. ASSUME NEW t \in Tabs, NEW kind \in {"fetch", "upgrade"}, Send(t, kind)
       PROVE  TypeOK'
  BY <1>11 DEF TypeOK, Send
<1>12. ASSUME NEW t \in Tabs, Lost(t) \/ CloseTab(t)
       PROVE  TypeOK'
  BY <1>12 DEF TypeOK, Lost, CloseTab
<1>13. ASSUME ClearCookies \/ BeginOpen \/ ReadPort \/ NotRewritten \/ ProbeFails
       PROVE  TypeOK'
  BY <1>13 DEF TypeOK, ClearCookies, BeginOpen, ReadPort, NotRewritten, ProbeFails, Refuse
<1>14. ASSUME ProbeAnswers
       PROVE  TypeOK'
  <2>1. PICK t \in Tabs, n \in Names : Visit(t, seen, n, "url")
    BY <1>14 DEF ProbeAnswers
  <2>2. seen \in GatePorts
    BY <1>14 DEF TypeOK, ProbeAnswers, Listening
  <2>3. QED
    BY <1>14, <2>1, <2>2, TypeVisit DEF ProbeAnswers, Documents, OpeningOver
<1>15. ASSUME UNCHANGED vars
       PROVE  TypeOK'
  BY <1>15 DEF TypeOK, vars
<1> QED
  BY <1>1, <1>2, <1>3, <1>4, <1>5, <1>6, <1>7, <1>8, <1>9, <1>10, <1>11, <1>12,
     <1>13, <1>14, <1>15 DEF Next

(* The variables keep their types, whatever mishaps there are.             *)
THEOREM GatewayTyped == Spec => []TypeOK
<1>1. QED
  BY TypeInit, TypeNext, PTL DEF Spec
-----------------------------------------------------------------------------
(* Markers: a tab that shows an app is marked, so its requests say so.     *)

MarkInv ==
    /\ \A t \in Tabs : app[t] # None => tab[t] # None /\ tab[t].name \in marked
    /\ \A t \in Tabs : ask[t] \in {"fetch", "upgrade"} => tab[t].name \in sent[t]

LEMMA MarkInit == Init => MarkInv
  BY DEF Init, MarkInv

LEMMA MarkVisit ==
    ASSUME TypeOK, MarkInv, NEW t \in Tabs, NEW p \in GatePorts, NEW n \in Names,
           NEW kind \in Documents, Visit(t, p, n, kind)
    PROVE  MarkInv'
<1>1. app'[t] = None /\ ask'[t] \notin {"fetch", "upgrade"}
  BY DEF TypeOK, Visit, Documents
<1>2. ASSUME NEW s \in Tabs, s # t
      PROVE  /\ tab'[s] = tab[s] /\ app'[s] = app[s] /\ ask'[s] = ask[s]
             /\ sent' = sent /\ marked' = marked
  BY <1>2 DEF TypeOK, Visit
<1>3. QED
  BY <1>1, <1>2 DEF MarkInv

LEMMA MarkNext ==
    ASSUME CookiesKept
    PROVE  TypeOK /\ MarkInv /\ [Next]_vars => MarkInv'
<1> SUFFICES ASSUME TypeOK, MarkInv, [Next]_vars PROVE MarkInv'
  OBVIOUS
<1> USE DEF browser
<1>1. ASSUME UNCHANGED browser
      PROVE  MarkInv'
  BY <1>1 DEF MarkInv
<1>2. ASSUME NEW n \in Names, Add(n) \/ Rm(n) \/ Start(n) \/ Stop(n)
      PROVE  MarkInv'
  BY <1>1, <1>2 DEF Add, Rm, Start, Stop
<1>3. ASSUME NEW g \in Gates, Load(g) \/ Bind(g) \/ WritePort(g) \/ End(g)
      PROVE  MarkInv'
  BY <1>1, <1>3 DEF Load, Bind, WritePort, End
<1>4. ASSUME NEW t \in Tabs, NEW g \in Gates, Handle(g, t)
      PROVE  MarkInv'
  <2>1. tab' = tab /\ tab[t] # None
    BY <1>4 DEF TypeOK, Handle
  <2>2. app'[t] # None => app'[t] = app[t] \/ (ask[t] \in Documents /\ Relays(g))
    BY <1>4 DEF TypeOK, Handle, Answering, Targets
  <2>3. app'[t] # None => tab[t].name \in marked'
    BY <1>4, <2>2 DEF MarkInv, Handle
  <2>4. marked \subseteq marked'
    BY <1>4 DEF Handle
  <2>5. ASSUME NEW s \in Tabs, s # t
        PROVE  app'[s] = app[s] /\ ask'[s] = ask[s] /\ sent'[s] = sent[s]
    BY <1>4, <2>5 DEF TypeOK, Handle
  <2>6. ask'[t] = "nothing"
    BY <1>4 DEF TypeOK, Handle
  <2>7. QED
    BY <2>1, <2>3, <2>4, <2>5, <2>6 DEF MarkInv
<1>5. ASSUME NEW t \in Tabs, NEW p \in GatePorts, NEW n \in Names, EnterUrl(t, p, n)
      PROVE  MarkInv'
  BY <1>5, MarkVisit DEF EnterUrl, Documents
<1>6. ASSUME NEW t \in Tabs, NEW g \in Gates, NEW n \in Names, FollowLink(t, g, n)
      PROVE  MarkInv'
  <2>1. port[g] \in GatePorts
    BY <1>6 DEF TypeOK, FollowLink
  <2>2. QED
    BY <1>6, <2>1, MarkVisit DEF FollowLink, Documents
<1>7. ASSUME NEW t \in Tabs, NEW kind \in {"fetch", "upgrade"}, Send(t, kind)
      PROVE  MarkInv'
  BY <1>7 DEF TypeOK, MarkInv, Send
<1>8. ASSUME NEW t \in Tabs, Lost(t) \/ CloseTab(t)
      PROVE  MarkInv'
  BY <1>8 DEF TypeOK, MarkInv, Lost, CloseTab
<1>9. ASSUME ClearCookies
      PROVE  MarkInv'
  <2>1. \A t \in Tabs : tab[t] = None
    BY <1>9 DEF ClearCookies, CookiesKept
  <2>2. \A t \in Tabs : app[t] = None /\ ask[t] = "nothing"
    BY <2>1 DEF TypeOK
  <2>3. QED
    BY <1>9, <2>2 DEF MarkInv, ClearCookies
<1>10. ASSUME BeginOpen \/ ReadPort \/ NotRewritten \/ ProbeFails
       PROVE  MarkInv'
  BY <1>1, <1>10 DEF BeginOpen, ReadPort, NotRewritten, ProbeFails, Refuse
<1>11. ASSUME ProbeAnswers
       PROVE  MarkInv'
  <2>1. PICK t \in Tabs, n \in Names : Visit(t, seen, n, "url")
    BY <1>11 DEF ProbeAnswers
  <2>2. seen \in GatePorts
    BY <1>11 DEF TypeOK, ProbeAnswers, Listening
  <2>3. QED
    BY <2>1, <2>2, MarkVisit DEF Documents
<1>12. ASSUME UNCHANGED vars
       PROVE  MarkInv'
  BY <1>1, <1>12 DEF vars
<1> QED
  BY <1>2, <1>3, <1>4, <1>5, <1>6, <1>7, <1>8, <1>9, <1>10, <1>11, <1>12 DEF Next

LEMMA UpgradeStep ==
    ASSUME MarkInv, NEW g \in Gates, NEW t \in Tabs,
           ask[t] = "upgrade", tab[t].name \in Known(g)
    PROVE  Targets(g, t) # {} \/ sent[t] \ {tab[t].name} # {}
<1> SUFFICES ASSUME sent[t] \ {tab[t].name} = {} PROVE Targets(g, t) # {}
  OBVIOUS
<1>1. sent[t] = {tab[t].name}
  BY DEF MarkInv
<1>2. tab[t].name \in CurrentInstance(g, t)
  BY <1>1 DEF CurrentInstance
<1>3. Resolve(g, tab[t].name) \in Targets(g, t)
  BY <1>2 DEF Targets, Relays, Documents
<1>4. QED
  BY <1>3

(* An upgrade is turned away only when another instance has been opened in *)
(* the browser, whatever happens to the registry meanwhile.                *)
THEOREM UpgradesAreRouted == ASSUME CookiesKept PROVE Spec => UpgradesFindTheirWay
<1>1. TypeOK /\ MarkInv =>
        [\A g \in Gates, t \in Tabs :
             /\ Handle(g, t)
             /\ ask[t] = "upgrade" /\ tab[t].name \in Known(g)
             => Targets(g, t) # {} \/ sent[t] \ {tab[t].name} # {}]_vars
  BY UpgradeStep
<1>2. Spec => [](TypeOK /\ MarkInv)
  BY TypeInit, TypeNext, MarkInit, MarkNext, PTL DEF Spec
<1>3. QED
  BY <1>1, <1>2, PTL DEF UpgradesFindTheirWay

-----------------------------------------------------------------------------
(* Routes: those of a gateway that runs are the registry.                  *)

Distinct == \A m, n \in Names : registry[m] = registry[n] /\ registry[m] # None => m = n

RouteInv ==
    /\ Distinct
    /\ \A g \in Gates : gate[g] # "off" => routes[g] = registry

LEMMA RouteInit == Init => RouteInv
  BY DEF Init, RouteInv, Distinct

LEMMA RouteNext ==
    ASSUME RegistryKept
    PROVE  TypeOK /\ RouteInv /\ [Next]_vars => RouteInv'
<1> SUFFICES ASSUME TypeOK, RouteInv, [Next]_vars PROVE RouteInv'
  OBVIOUS
<1> USE DEF instances, gateways
<1>1. ASSUME UNCHANGED <<registry, gate, routes>>
      PROVE  RouteInv'
  BY <1>1 DEF RouteInv, Distinct
<1>2. ASSUME NEW n \in Names, Add(n)
      PROVE  RouteInv'
  <2>1. PICK p \in Ports : /\ \A m \in Names : registry[m] # p
                           /\ registry' = [registry EXCEPT ![n] = p]
    BY <1>2 DEF Add
  <2>2. Distinct'
    BY <2>1 DEF RouteInv, Distinct, TypeOK, Registries
  <2>3. QED
    BY <1>2, <2>2 DEF RouteInv, Add, MayChange, RegistryKept
<1>3. ASSUME NEW n \in Names, Rm(n)
      PROVE  RouteInv'
  <2>1. Distinct'
    BY <1>3 DEF RouteInv, Distinct, TypeOK, Registries, Rm
  <2>2. QED
    BY <1>3, <2>1 DEF RouteInv, Rm, MayChange, RegistryKept
<1>4. ASSUME NEW g \in Gates, Load(g) \/ Bind(g) \/ WritePort(g) \/ End(g)
      PROVE  RouteInv'
  BY <1>4 DEF TypeOK, RouteInv, Distinct, Load, Bind, WritePort, End
<1>5. QED
  BY <1>1, <1>2, <1>3, <1>4 DEF Next, Start, Stop, Handle, EnterUrl, FollowLink, Send, Lost,
     CloseTab, ClearCookies, BeginOpen, ReadPort, ProbeAnswers, NotRewritten, ProbeFails, Refuse,
     vars

LEMMA OwnStep ==
    ASSUME TypeOK, MarkInv, RouteInv, NEW g \in Gates, NEW t \in Tabs, Handle(g, t),
           ask[t] \in Documents => tab[t].name \in Known(g)
    PROVE  Answering(g, t) \subseteq {tab[t].name}
<1> SUFFICES ASSUME NEW n \in Answering(g, t) PROVE n = tab[t].name
  OBVIOUS
<1>1. n \in Names /\ registry[n] # None /\ registry[n] \in Targets(g, t)
  BY DEF TypeOK, Answering
<1>2. routes[g] = registry
  BY DEF RouteInv, Handle
<1>3. ASSUME NEW m \in Known(g), registry[n] = Resolve(g, m)
      PROVE  n = m
  BY <1>1, <1>2, <1>3 DEF RouteInv, Distinct, Resolve, Known
<1>4. CASE ask[t] \in Documents
  BY <1>1, <1>3, <1>4 DEF Targets
<1>5. CASE ask[t] \notin Documents
  <2>1. ask[t] \in {"fetch", "upgrade"}
    BY <1>5 DEF TypeOK, Handle
  <2>2. PICK m \in CurrentInstance(g, t) : registry[n] = Resolve(g, m)
    BY <1>1, <1>5 DEF Targets
  <2>3. m \in Known(g) /\ m = tab[t].name
    BY <2>1, <2>2 DEF CurrentInstance, MarkInv
  <2>4. QED
    BY <1>3, <2>2, <2>3
<1>6. QED
  BY <1>4, <1>5

(* No tab is answered by another instance than its own, with any number of *)
(* gateways, if the registry keeps still while one of them runs.           *)
THEOREM TabsStayApart ==
    ASSUME RegistryKept, CookiesKept
    PROVE  Spec => OwnInstance
<1>1. TypeOK /\ MarkInv /\ RouteInv =>
        [\A g \in Gates, t \in Tabs :
             /\ Handle(g, t)
             /\ ask[t] \in Documents => tab[t].name \in Known(g)
             => Answering(g, t) \subseteq {tab[t].name}]_vars
  BY OwnStep
<1>2. Spec => [](TypeOK /\ MarkInv /\ RouteInv)
  BY TypeInit, TypeNext, MarkInit, MarkNext, RouteInit, RouteNext, PTL DEF Spec
<1>3. QED
  BY <1>1, <1>2, PTL DEF OwnInstance

-----------------------------------------------------------------------------
(* The record, and what open has read of it.                               *)

OpenInv ==
    /\ \A g, h \in Gates : gate[g] # "off" /\ gate[h] # "off" => g = h
    /\ \A g \in Gates : gate[g] = "serving" => record = port[g]
    /\ \A g \in found : gate[g] = "serving"
    /\ opener = "probe" => \A g \in found : seen = port[g]
    /\ RefusedOnlyWithout

LEMMA OpenInit == Init => OpenInv
  BY DEF Init, OpenInv, RefusedOnlyWithout

LEMMA OpenNext ==
    ASSUME OneGateway, RecordWritten, AnswersInTime
    PROVE  TypeOK /\ OpenInv /\ [Next]_vars => OpenInv'
<1> SUFFICES ASSUME TypeOK, OpenInv, [Next]_vars PROVE OpenInv'
  OBVIOUS
<1> USE DEF gateways, opening, RefusedOnlyWithout
<1>1. ASSUME UNCHANGED <<gateways, opening>>
      PROVE  OpenInv'
  BY <1>1 DEF OpenInv
<1>2. ASSUME NEW g \in Gates, Load(g)
      PROVE  OpenInv'
  BY <1>2 DEF OpenInv, TypeOK, Load, OneGateway
<1>3. ASSUME NEW g \in Gates, Bind(g)
      PROVE  OpenInv'
  BY <1>3 DEF OpenInv, TypeOK, Bind
<1>4. ASSUME NEW g \in Gates, WritePort(g)
      PROVE  OpenInv'
  BY <1>4 DEF OpenInv, TypeOK, WritePort, RecordWritten
<1>5. ASSUME NEW g \in Gates, End(g)
      PROVE  OpenInv'
  BY <1>5 DEF OpenInv, TypeOK, End
<1>6. ASSUME BeginOpen
      PROVE  OpenInv'
  BY <1>6 DEF OpenInv, TypeOK, BeginOpen
<1>7. ASSUME ReadPort
      PROVE  OpenInv'
  <2>1. record = None => found = {}
    BY DEF OpenInv, TypeOK
  <2>2. QED
    BY <1>7, <2>1 DEF OpenInv, TypeOK, ReadPort
<1>8. ASSUME ProbeAnswers
      PROVE  OpenInv'
  BY <1>8 DEF OpenInv, ProbeAnswers
<1>9. ASSUME ProbeFails
      PROVE  OpenInv'
  <2>1. found \subseteq Listening(seen)
    BY <1>9 DEF OpenInv, TypeOK, ProbeFails, Listening
  <2>2. found = {}
    BY <1>9, <2>1 DEF OpenInv, ProbeFails, AnswersInTime
  <2>3. QED
    BY <1>9, <2>2 DEF OpenInv, ProbeFails, Refuse
<1>10. ASSUME NotRewritten
       PROVE  OpenInv'
  BY <1>10 DEF OpenInv, NotRewritten, Refuse
<1>11. QED
  BY <1>1, <1>2, <1>3, <1>4, <1>5, <1>6, <1>7, <1>8, <1>9, <1>10 DEF Next, Add, Rm, Start, Stop, Handle,
     EnterUrl, FollowLink, Send, Lost, CloseTab, ClearCookies, vars

(* With one gateway at a time, open finds the one that runs, whatever      *)
(* records earlier ones have left behind, unless the URL of the instance   *)
(* has no token.                                                           *)
THEOREM RunningGatewayIsFound ==
    ASSUME OneGateway, RecordWritten, AnswersInTime
    PROVE  Spec => []RefusedOnlyWithout
<1>1. OpenInv => RefusedOnlyWithout
  BY DEF OpenInv
<1>2. QED
  BY <1>1, TypeInit, TypeNext, OpenInit, OpenNext, PTL DEF Spec
=============================================================================
