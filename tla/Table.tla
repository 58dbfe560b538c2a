------------------------------- MODULE Table --------------------------------
(***************************************************************************)
(* The table of `dshr list`, fitted to the terminal: how wide each column  *)
(* is printed.  A table is a record                                        *)
(*                                                                         *)
(*   terminal : the width of the terminal, 0 when it is not known          *)
(*   header   : the width of each column's header, a sequence              *)
(*   cell     : the width of each column's widest value, a sequence        *)
(*   flex     : for the columns that may give up space, how many           *)
(*              characters beyond the header they are preferred to keep    *)
(***************************************************************************)
EXTENDS Naturals, SequencesExt

CONSTANT Tables     \* those of a run

\* As the one caller has it: what may give up space has a header and a cap.
ASSUME TableAssumption ==
    \A t \in Tables :
        /\ t.terminal \in Nat
        /\ t.header \in Seq(Nat) /\ t.cell \in Seq(Nat)
        /\ Len(t.cell) = Len(t.header)
        /\ DOMAIN t.flex \subseteq DOMAIN t.header
        /\ \A i \in DOMAIN t.flex : t.flex[i] \in Nat \ {0} /\ t.header[i] > 0

VARIABLES
    table,
    caps,       \* what each column is granted, beyond its header
    left,       \* what is left of the budget
    waiting,    \* the columns whose turn in this round is to come
    gave,       \* has this round given anything?
    phase       \* "measure", "round" or "done"

tableVars == <<table, caps, left, waiting, gave, phase>>

TableInit ==
    /\ table \in Tables
    /\ caps = [i \in DOMAIN table.header |-> 0]
    /\ left = 0 /\ waiting = {} /\ gave = FALSE
    /\ phase = "measure"

Least(a, b) == IF a < b THEN a ELSE b
Most(a, b)  == IF a < b THEN b ELSE a

\* saturating_sub
Less(a, b) == IF a < b THEN 0 ELSE a - b

Total[widths \in Seq(Nat)] ==
    IF widths = <<>> THEN 0 ELSE Total[Front(widths)] + Last(widths)

-----------------------------------------------------------------------------
(* table_fitted.                                                           *)

Columns(t) == DOMAIN t.header

natural(t) == [i \in Columns(t) |-> Most(t.header[i], t.cell[i])]

\* Three spaces between columns.
Breadth(widths) == Total[widths] + 3 * Less(Len(widths), 1)

Fits(t) == t.terminal = 0 \/ Breadth(natural(t)) <= t.terminal

\* The columns that compete for space, and what each would like to have.
Contends(t, i) == i \in DOMAIN t.flex /\ t.flex[i] > 0 /\ natural(t)[i] > 0

contenders(t) == {i \in Columns(t) : Contends(t, i)}

want(t, i) == Least(natural(t)[i], t.header[i] + t.flex[i])

surplus(t, i) == Less(want(t, i), t.header[i])

\* The largest need first.
Before(t, i, j) ==
    \/ want(t, i) > want(t, j)
    \/ want(t, i) = want(t, j) /\ i < j

\* Mutant of reserved: a column with an empty header costs nothing.
reserved_header(t, i) == t.header[i]

\* What a column costs before any of the budget is handed out.
reserved(t, i) == IF i \in DOMAIN t.flex THEN t.header[i] ELSE natural(t)[i]

budget(t) == Less(t.terminal, Breadth([i \in Columns(t) |-> reserved(t, i)]))

\* An even share of the demand, rounded up.
even(t) ==
    LET demand == [i \in Columns(t) |-> IF Contends(t, i) THEN want(t, i) ELSE 0]
        count  == Most(Cardinality(contenders(t)), 1)
    IN  (Total[demand] + count - 1) \div count

\* The larger of a column's need and an even share.
weight(t) ==
    [i \in Columns(t) |-> IF Contends(t, i) THEN Most(want(t, i), even(t)) ELSE 0]

shares(t) ==
    [i \in Columns(t) |->
        IF Contends(t, i)
        THEN Least((budget(t) * weight(t)[i]) \div Total[weight(t)], surplus(t, i))
        ELSE 0]

\* Nothing is cut when the table fits, or when nothing can be.
AsItIs(t) == Fits(t) \/ contenders(t) = {}

Show ==
    /\ phase = "measure" /\ AsItIs(table)
    /\ phase' = "done"
    /\ UNCHANGED <<table, caps, left, waiting, gave>>

Share ==
    /\ phase = "measure" /\ ~AsItIs(table)
    /\ caps' = shares(table)
    /\ left' = Less(budget(table), Total[shares(table)])
    /\ waiting' = contenders(table) /\ gave' = FALSE
    /\ phase' = "round"
    /\ UNCHANGED table

\* What is left is handed back, a character for each in every round.
HandBack ==
    /\ phase = "round" /\ left > 0
    /\ \E i \in waiting :
        /\ \A j \in waiting \ {i} : Before(table, i, j)
        /\ waiting' = waiting \ {i}
        /\ IF caps[i] < surplus(table, i)
           THEN caps' = [caps EXCEPT ![i] = @ + 1] /\ left' = left - 1 /\ gave' = TRUE
           ELSE UNCHANGED <<caps, left, gave>>
    /\ UNCHANGED <<table, phase>>

NextRound ==
    /\ phase = "round" /\ left > 0 /\ waiting = {} /\ gave
    /\ waiting' = contenders(table) /\ gave' = FALSE
    /\ UNCHANGED <<table, caps, left, phase>>

Enough ==
    /\ phase = "round" /\ (left = 0 \/ (waiting = {} /\ ~gave))
    /\ phase' = "done"
    /\ UNCHANGED <<table, caps, left, waiting, gave>>

TableNext == Show \/ Share \/ HandBack \/ NextRound \/ Enough

TableSpec == TableInit /\ [][TableNext]_tableVars

NoCap == 0

limit(t, i) ==
    CASE i \notin DOMAIN t.flex -> natural(t)[i]
      [] Contends(t, i)         -> caps[i] + t.header[i]
      [] OTHER                  -> NoCap

(* table_capped.                                                           *)

\* A value longer than its cap is cut to it, the ellipsis included.
truncate(width, cap) == IF cap # NoCap THEN Least(width, cap) ELSE width

\* The widths of the values that are printed.
values ==
    IF AsItIs(table) THEN table.cell
    ELSE [i \in Columns(table) |-> truncate(table.cell[i], limit(table, i))]

\* The columns are as wide as the header and the values.
Rendered(t, printed) == [i \in Columns(t) |-> Most(t.header[i], printed[i])]

-----------------------------------------------------------------------------
(* Properties.                                                             *)

IsFitted(t, printed) ==
    LET r == Rendered(t, printed)
        floor == Breadth([i \in Columns(t) |->
                              IF i \in DOMAIN t.flex THEN t.header[i] ELSE natural(t)[i]])
    IN  /\ Fits(t) => printed = t.cell
        /\ ~Fits(t) /\ t.terminal >= floor => Breadth(r) <= t.terminal
        /\ ~Fits(t) =>
               \A i \in Columns(t) :
                   IF i \in DOMAIN t.flex
                   THEN /\ t.terminal <= floor => r[i] = t.header[i]
                        /\ r[i] < want(t, i) => Breadth(r) >= t.terminal
                   ELSE printed[i] = t.cell[i]

(* The rendered table is no wider than the terminal if all the headers,    *)
(* and the columns that may not shrink, fit; a table that fits is not cut; *)
(* a column that may not shrink never is; and one that may is given less   *)
(* than it would like only when the table takes all of the terminal.       *)
TableIsFitted == phase = "done" => IsFitted(table, values)
=============================================================================
