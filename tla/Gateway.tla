------------------------------ MODULE Gateway -------------------------------
(***************************************************************************)
(* The control page and the gateway (router serve), a browser that uses    *)
(* them, and router open --via-gateway, which looks for a gateway.         *)
(*                                                                         *)
(* serve:  load -> bind -> record the port -> serve until killed           *)
(* open:   read the record -> probe the port -> open a tab                 *)
(* tab:    document -> [fetch | upgrade] ...                               *)
(*                                                                         *)
(* A gateway routes by the registry as it was when it started.  Markers    *)
(* are cookies: the browser has one set for every port of this host.       *)
(***************************************************************************)
CONSTANTS
    Names,      \* instances
    Ports,      \* their ports
    BasePort,   \* base_port of the registry
    Gates,      \* gateways
    GatePorts,  \* ports they are given
    Tabs,       \* tabs of the browser
    None,       \* no port, no tab, no instance
    Mishaps     \* see below

(* changed    an instance is added or removed while a gateway runs         *)
(* second     a gateway is started while another one runs                  *)
(* unwritten  the record of the port cannot be written                     *)
(* slow       a gateway does not answer a probe within its timeout         *)
(* cleared    the user clears the cookies while a tab is open              *)
AllMishaps == {"changed", "second", "unwritten", "slow", "cleared"}

ASSUME GatewayAssumption ==
    /\ None \notin Names \cup Ports \cup GatePorts \cup [at : GatePorts, name : Names]
    /\ BasePort \in Ports
    /\ Mishaps \subseteq AllMishaps

VARIABLES
    registry,   \* the port of each instance
    up,         \* the instances whose harness serves on its port
    gate,       \* where each gateway is
    port,       \* the port it has bound
    routes,     \* the registry it has read: its routes, and known_names
    record,     \* the file gateway-port
    tab,        \* what each tab has in its address bar
    app,        \* the instance whose document it shows
    ask,        \* the request it waits for
    sent,       \* the markers it has sent with it
    marked,     \* the markers of the browser
    opener,     \* where router open is
    bare,       \* whether the URL it has read carries no token
    seen,       \* the port it has read
    found       \* the gateways that have served ever since it began

instances == <<registry, up>>
gateways  == <<gate, port, routes, record>>
browser   == <<tab, app, ask, sent, marked>>
opening   == <<opener, bare, seen, found>>
vars      == <<instances, gateways, browser, opening>>

Registries == [Names -> Ports \cup {None}]
Documents  == {"link", "url"}

TypeOK ==
    /\ registry \in Registries
    /\ up \subseteq {n \in Names : registry[n] # None}
    /\ gate \in [Gates -> {"off", "loaded", "bound", "serving"}]
    /\ port \in [Gates -> GatePorts \cup {None}]
    /\ routes \in [Gates -> Registries]
    /\ record \in GatePorts \cup {None}
    /\ tab \in [Tabs -> [at : GatePorts, name : Names] \cup {None}]
    /\ app \in [Tabs -> Names \cup {None}]
    /\ ask \in [Tabs -> {"nothing", "fetch", "upgrade"} \cup Documents]
    /\ sent \in [Tabs -> SUBSET Names]
    /\ marked \subseteq Names
    /\ opener \in {"idle", "read", "probe", "refused"}
    /\ bare \in BOOLEAN
    /\ seen \in GatePorts \cup {None}
    /\ found \subseteq Gates
    /\ \A g \in Gates : gate[g] \in {"bound", "serving"} => port[g] # None
    /\ \A t \in Tabs : tab[t] = None => app[t] = None /\ ask[t] = "nothing"

Init ==
    /\ registry = [n \in Names |-> None]
    /\ up = {}
    /\ gate = [g \in Gates |-> "off"]
    /\ port = [g \in Gates |-> None]
    /\ routes = [g \in Gates |-> registry]
    /\ record = None
    /\ tab = [t \in Tabs |-> None]
    /\ app = [t \in Tabs |-> None]
    /\ ask = [t \in Tabs |-> "nothing"]
    /\ sent = [t \in Tabs |-> {}]
    /\ marked = {}
    /\ opener = "idle" /\ bare = FALSE /\ seen = None /\ found = {}

-----------------------------------------------------------------------------
(* The other commands.                                                     *)

MayChange == "changed" \in Mishaps \/ \A g \in Gates : gate[g] = "off"

\* insert: no two instances have one port.
Add(n) ==
    /\ MayChange
    /\ registry[n] = None
    /\ \E p \in Ports : /\ \A m \in Names : registry[m] # p
                        /\ registry' = [registry EXCEPT ![n] = p]
    /\ UNCHANGED <<up, gateways, browser, opening>>

Rm(n) ==
    /\ MayChange
    /\ registry[n] # None
    /\ registry' = [registry EXCEPT ![n] = None]
    /\ up' = up \ {n}
    /\ UNCHANGED <<gateways, browser, opening>>

Start(n) ==
    /\ registry[n] # None
    /\ up' = up \cup {n}
    /\ UNCHANGED <<registry, gateways, browser, opening>>

Stop(n) ==
    /\ up' = up \ {n}
    /\ UNCHANGED <<registry, gateways, browser, opening>>

-----------------------------------------------------------------------------
(* router serve                                                            *)

Listening(p) == {g \in Gates : gate[g] \in {"bound", "serving"} /\ port[g] = p}

Load(g) ==
    /\ gate[g] = "off"
    /\ "second" \in Mishaps \/ \A h \in Gates : gate[h] = "off"
    /\ gate' = [gate EXCEPT ![g] = "loaded"]
    /\ routes' = [routes EXCEPT ![g] = registry]
    /\ UNCHANGED <<instances, port, record, browser, opening>>

Bind(g) ==
    /\ gate[g] = "loaded"
    /\ \E p \in GatePorts : /\ Listening(p) = {}
                            /\ port' = [port EXCEPT ![g] = p]
    /\ gate' = [gate EXCEPT ![g] = "bound"]
    /\ UNCHANGED <<instances, routes, record, browser, opening>>

\* Mutant of WritePort: an older record is left alone.
WritePortOnce(g) ==
    /\ gate[g] = "bound"
    /\ record' = IF record = None THEN port[g] ELSE record
    /\ gate' = [gate EXCEPT ![g] = "serving"]
    /\ UNCHANGED <<instances, port, routes, browser, opening>>

\* write_gateway_port, best effort.
WritePort(g) ==
    /\ gate[g] = "bound"
    /\ record' \in {port[g]} \cup (IF "unwritten" \in Mishaps THEN {record} ELSE {})
    /\ gate' = [gate EXCEPT ![g] = "serving"]
    /\ UNCHANGED <<instances, port, routes, browser, opening>>

\* Killed, or nothing to bind.  axum::serve does not return, so the record
\* stays.
End(g) ==
    /\ gate[g] # "off"
    /\ gate' = [gate EXCEPT ![g] = "off"]
    /\ port' = [port EXCEPT ![g] = None]
    /\ routes' = [routes EXCEPT ![g] = [n \in Names |-> None]]
    /\ found' = found \ {g}
    /\ UNCHANGED <<instances, record, browser, opener, bare, seen>>

-----------------------------------------------------------------------------
(* How a gateway routes a request.                                         *)

Known(g) == {n \in Names : routes[g][n] # None}

\* Without routes there is no relay.
Relays(g) == Known(g) # {}

\* Mutant of CurrentInstance: any marker will do.
CurrentInstanceGuessed(g, t) ==
    IF ask[t] = "fetch" /\ tab[t].name \in Known(g)
    THEN {tab[t].name}
    ELSE {n \in Known(g) : n \in sent[t]}

\* current_instance: the Referer, which an upgrade does not have, or else the
\* only marker, if there is only one.
CurrentInstance(g, t) ==
    IF ask[t] = "fetch" /\ tab[t].name \in Known(g)
    THEN {tab[t].name}
    ELSE {n \in Known(g) : sent[t] = {n}}

\* RelayConfig::resolve
Resolve(g, n) == IF routes[g][n] # None THEN routes[g][n] ELSE BasePort

\* Where the request is sent: to one port, or nowhere (404).
Targets(g, t) ==
    IF ~Relays(g) THEN {}
    ELSE {Resolve(g, n) : n \in IF ask[t] \in Documents THEN {tab[t].name}
                                ELSE CurrentInstance(g, t)}

\* The instance that answers it, if any does.
Answering(g, t) == {n \in up : registry[n] \in Targets(g, t)}

\* Mutant of Handle: no marker is set.
HandleUnmarked(g, t) ==
    /\ ask[t] # "nothing"
    /\ gate[g] = "serving" /\ port[g] = tab[t].at
    /\ \E n \in IF Answering(g, t) = {} THEN {None} ELSE Answering(g, t) :
           app' = IF ask[t] \in Documents THEN [app EXCEPT ![t] = n] ELSE app
    /\ ask' = [ask EXCEPT ![t] = "nothing"]
    /\ sent' = [sent EXCEPT ![t] = {}]
    /\ UNCHANGED <<instances, gateways, tab, marked, opening>>

\* Every answer of the relay to a request for a document sets the marker.
Handle(g, t) ==
    /\ ask[t] # "nothing"
    /\ gate[g] = "serving" /\ port[g] = tab[t].at
    /\ \E n \in IF Answering(g, t) = {} THEN {None} ELSE Answering(g, t) :
           app' = IF ask[t] \in Documents THEN [app EXCEPT ![t] = n] ELSE app
    /\ marked' = IF ask[t] \in Documents /\ Relays(g)
                 THEN marked \cup {tab[t].name} ELSE marked
    /\ ask' = [ask EXCEPT ![t] = "nothing"]
    /\ sent' = [sent EXCEPT ![t] = {}]
    /\ UNCHANGED <<instances, gateways, tab, opening>>

-----------------------------------------------------------------------------
(* The browser.                                                            *)

Visit(t, p, n, kind) ==
    /\ ask[t] = "nothing"
    /\ tab' = [tab EXCEPT ![t] = [at |-> p, name |-> n]]
    /\ app' = [app EXCEPT ![t] = None]
    /\ ask' = [ask EXCEPT ![t] = kind]
    /\ UNCHANGED <<sent, marked>>

\* A reload, a bookmark, or a page that has been rendered long ago.
EnterUrl(t, p, n) ==
    /\ Visit(t, p, n, "url")
    /\ UNCHANGED <<instances, gateways, opening>>

\* render, of the registry as it is: only what serves is a link.
Links == {n \in Names : registry[n] # None /\ n \in up}

\* The page is rendered, and one of its links followed.
FollowLink(t, g, n) ==
    /\ gate[g] = "serving" /\ n \in Links
    /\ Visit(t, port[g], n, "link")
    /\ UNCHANGED <<instances, gateways, opening>>

\* The app in a tab asks for one thing at a time.
Send(t, kind) ==
    /\ app[t] # None /\ ask[t] = "nothing"
    /\ ask' = [ask EXCEPT ![t] = kind]
    /\ sent' = [sent EXCEPT ![t] = marked]
    /\ UNCHANGED <<instances, gateways, tab, app, marked, opening>>

\* No gateway is there to answer.
Lost(t) ==
    /\ ask[t] # "nothing"
    /\ \A g \in Gates : ~(gate[g] = "serving" /\ port[g] = tab[t].at)
    /\ ask' = [ask EXCEPT ![t] = "nothing"]
    /\ sent' = [sent EXCEPT ![t] = {}]
    /\ UNCHANGED <<instances, gateways, tab, app, marked, opening>>

CloseTab(t) ==
    /\ tab[t] # None
    /\ tab' = [tab EXCEPT ![t] = None]
    /\ app' = [app EXCEPT ![t] = None]
    /\ ask' = [ask EXCEPT ![t] = "nothing"]
    /\ sent' = [sent EXCEPT ![t] = {}]
    /\ UNCHANGED <<instances, gateways, marked, opening>>

\* By hand, or by starting anew.
ClearCookies ==
    /\ "cleared" \in Mishaps \/ \A t \in Tabs : tab[t] = None
    /\ marked' = {}
    /\ UNCHANGED <<instances, gateways, tab, app, ask, sent, opening>>

-----------------------------------------------------------------------------
(* router open --via-gateway                                               *)

(* The instance serves, and its URL is read: the line the harness has      *)
(* announced itself with, which may carry no token.  found says which      *)
(* gateways open may find.                                                 *)
BeginOpen ==
    /\ opener \in {"idle", "refused"}
    /\ up # {}
    /\ opener' = "read"
    /\ bare' \in BOOLEAN
    /\ found' = {g \in Gates : gate[g] = "serving"}
    /\ UNCHANGED <<instances, gateways, browser, seen>>

ReadPort ==
    /\ opener = "read"
    /\ seen' = record
    /\ opener' = IF record = None THEN "refused" ELSE "probe"
    /\ UNCHANGED <<instances, gateways, browser, bare, found>>

\* "no control page is running"
Refuse ==
    /\ opener' = "refused"
    /\ seen' = None
    /\ UNCHANGED <<instances, gateways, browser, bare, found>>

\* A gateway that has bound its port answers at the latest when it serves.
ProbeAnswers ==
    /\ opener = "probe"
    /\ Listening(seen) # {}
    /\ ~bare
    /\ opener' = "idle"
    /\ \E t \in Tabs, n \in Names : Visit(t, seen, n, "url")
    /\ bare' = FALSE /\ seen' = None /\ found' = {}
    /\ UNCHANGED <<instances, gateways>>

\* The port answers, but gateway_url makes nothing of a URL without a token.
NotRewritten ==
    /\ opener = "probe"
    /\ Listening(seen) # {}
    /\ bare
    /\ Refuse

ProbeFails ==
    /\ opener = "probe"
    /\ "slow" \in Mishaps \/ \A g \in Listening(seen) : gate[g] = "bound"
    /\ Refuse

-----------------------------------------------------------------------------
Next ==
    \/ \E n \in Names : Add(n) \/ Rm(n) \/ Start(n) \/ Stop(n)
    \/ \E g \in Gates : Load(g) \/ Bind(g) \/ WritePort(g) \/ End(g)
    \/ \E t \in Tabs, g \in Gates : Handle(g, t)
    \/ \E t \in Tabs, p \in GatePorts, n \in Names : EnterUrl(t, p, n)
    \/ \E t \in Tabs, g \in Gates, n \in Names : FollowLink(t, g, n)
    \/ \E t \in Tabs, kind \in {"fetch", "upgrade"} : Send(t, kind)
    \/ \E t \in Tabs : Lost(t) \/ CloseTab(t)
    \/ ClearCookies
    \/ BeginOpen \/ ReadPort \/ ProbeAnswers \/ NotRewritten \/ ProbeFails

Spec == Init /\ [][Next]_vars

-----------------------------------------------------------------------------
(* Properties.                                                             *)

(* No request of a tab is answered by another instance than the one in its *)
(* address bar, other than a document a gateway has no route for           *)
(* (control.rs, current_instance: "guessing would deliver one agent's      *)
(* stream to another agent's tab").                                        *)
OwnInstance ==
    [][\A g \in Gates, t \in Tabs :
           /\ Handle(g, t)
           /\ ask[t] \in Documents => tab[t].name \in Known(g)
           => Answering(g, t) \subseteq {tab[t].name}]_vars

(* An upgrade is turned away only if another instance has been opened in   *)
(* this browser (control.rs, current_instance: "routed to the sole         *)
(* instance this browser has open").                                       *)
UpgradesFindTheirWay ==
    [][\A g \in Gates, t \in Tabs :
           /\ Handle(g, t)
           /\ ask[t] = "upgrade" /\ tab[t].name \in Known(g)
           => Targets(g, t) # {} \/ sent[t] \ {tab[t].name} # {}]_vars

(* open says that no control page is running only if none has been there   *)
(* all the time since it began, whatever older gateways have left behind,  *)
(* or if the URL of the instance carries no token for the page to pass on  *)
(* (main.rs, cmd_open: "Asked for the gateway and it is not there").       *)
RefusedOnlyWithout == opener = "refused" => found = {} \/ bare

(* A link of the page leads to the instance it names, or nowhere           *)
(* (control.rs, render_row: "a link that leads nowhere - or, worse, to     *)
(* somebody else's harness - is worse than no link").                      *)
LinkLeadsToInstance ==
    [][\A g \in Gates, t \in Tabs :
           Handle(g, t) /\ ask[t] = "link" => Answering(g, t) \subseteq {tab[t].name}]_vars
=============================================================================
