---------------------------- MODULE MCAlgorithms ----------------------------
(***************************************************************************)
(* Choosing a port and fitting a table, as behaviours, one or the other;   *)
(* and what is made of a typed path, for each of many, in a state of its   *)
(* own.                                                                    *)
(***************************************************************************)
EXTENDS Ports, Table, Workspace

vars == <<portVars, tableVars, typed, cwd, resolves>>

MCClaims == {{}, {2, 3}, {5}}

\* /to leads to /w/d, /w/d/up to /w, and /w/gone to what is not there.
MCDirs == {<<>>, <<"etc">>, <<"w">>, <<"w", "d">>}

MCFiles == {<<"w", "f">>}

MCLinks == (<<"to">> :> <<"w", "d">> @@ <<"w", "d", "up">> :> <<"w">>
            @@ <<"w", "gone">> :> <<"w", "x">>)

MCName == {".", "..", "etc", "w", "d", "f", "gone", "home", "to", "up", "x"}

MCTypable == BoundedSeq(MCName \ {"home"}, 4)

MCOsHomes == {NoPath, [path |-> <<"w", "d">>]}

MCTables ==
    [terminal : 0..16,
     header   : {<<0, 1, 2>>, <<0, 2, 1>>, <<1, 1, 1>>, <<2, 1, 3>>},
     cell     : (0..2) \X (0..5) \X (0..5),
     flex     : {2 :> 1 @@ 3 :> 2, 2 :> 2 @@ 3 :> 4, 2 :> 3 @@ 3 :> 3, 3 :> 2}]

NoPortAsked ==
    /\ preferred = NoPort /\ base = Top /\ claims = {}
    /\ at = "ask" /\ offset = 0 /\ chosen = NoPort
    /\ busy = {} /\ wasBusy = {} /\ stayedBusy = {} /\ changes = 0

NothingTyped == typed = NoPath /\ cwd = <<>> /\ resolves = TRUE

NoTable ==
    /\ table = [terminal |-> 0, header |-> <<>>, cell |-> <<>>, flex |-> <<>>]
    /\ caps = <<>> /\ left = 0 /\ waiting = {} /\ gave = FALSE /\ phase = "done"

MCInit ==
    \/ Init /\ NoTable /\ NothingTyped
    \/ NoPortAsked /\ TableInit /\ NothingTyped
    \/ NoPortAsked /\ NoTable /\ typed \in Typed /\ cwd \in Dirs /\ resolves \in BOOLEAN

MCNext ==
    \/ NoTable /\ NothingTyped /\ Next /\ UNCHANGED <<tableVars, typed, cwd, resolves>>
    \/ TableNext /\ UNCHANGED <<portVars, typed, cwd, resolves>>

MCSpec == MCInit /\ [][MCNext]_vars
=============================================================================
