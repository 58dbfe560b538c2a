-------------------------- MODULE AlgorithmsProofs --------------------------
(***************************************************************************)
(* What allocate guarantees for any ports, claims and bounds, whatever     *)
(* other programs bind meanwhile; what is made of a typed path, for any    *)
(* file system; and how any table is fitted.                               *)
(*                                                                         *)
(* Paths are followed name by name, and widths are added up: both are by   *)
(* induction, which is proved first, for sets of numbers.                  *)
(***************************************************************************)
EXTENDS Ports, Table, Workspace, Integers, SequenceTheorems, WellFoundedInduction,
        FiniteSetTheorems, TLAPS

(* Choosing a port.                                                        *)

\* Each port of the window below the candidate has been tried, in vain.
Tried ==
    /\ preferred # NoPort => Taken(preferred)
    /\ \A port \in Window : port < candidate => Taken(port)

PortsInv ==
    /\ PortsTyped
    /\ stayedBusy \subseteq busy /\ busy \subseteq wasBusy
    /\ at # "done" => chosen = NoPort
    /\ at \in {"ask", "prefer"} => offset = 0
    /\ at = "prefer" => preferred # NoPort
    /\ at \in {"prefer", "scan"} => preferred # Reserved /\ base # Reserved
    /\ at = "scan" => Tried
    /\ AllocationIsRight

LEMMA StartOfWindow ==
    ASSUME PortsTyped
    PROVE  /\ start \in Nat /\ base <= start /\ DEFAULT_BASE_PORT <= start
           /\ \A port \in PortNumbers :
                  port \in Window <=> start <= port /\ port < start + MAX_PROBES
BY PortsAssumption DEF PortsTyped, start, Window, PortNumbers

LEMMA PortsInit == Init => PortsInv
BY PortsAssumption
   DEF Init, PortsInv, PortsTyped, AllocationIsRight, PortNumbers, Bindable

LEMMA PortsNext == PortsInv /\ [Next]_portVars => PortsInv'
<1> SUFFICES ASSUME PortsInv, [Next]_portVars PROVE PortsInv'
  OBVIOUS
<1> USE PortsAssumption
<1>0. PortsTyped
  BY DEF PortsInv
<1>1. CASE Change
  <2>1. /\ busy' \subseteq PortNumbers /\ wasBusy' = wasBusy \cup busy'
        /\ stayedBusy' = stayedBusy \cap busy'
        /\ at # "done" /\ UNCHANGED <<question, at, offset, chosen>>
    BY <1>0, <1>1 DEF Change, PortsTyped, Bindable
  <2>2. Tried => Tried'
    BY <2>1 DEF Tried, Taken, Window, candidate, start, question
  <2>3. PortsTyped'
    BY <1>0, <2>1 DEF PortsTyped, question
  <2> QED
    BY <2>1, <2>2, <2>3 DEF PortsInv, AllocationIsRight, question
<1>2. CASE Refuse
  BY <1>2 DEF PortsInv, PortsTyped, Refuse, Finish, AllocationIsRight, question, world
<1>3. CASE Accept
  <2>1. UNCHANGED <<preferred, base, claims, offset, chosen, busy, wasBusy, stayedBusy>>
    BY <1>3 DEF Accept, question, world
  <2>2. preferred = NoPort => Tried'
    <3>1. candidate' = start
      BY <1>0, <1>3, <2>1, StartOfWindow DEF PortsInv, Accept, candidate, start
    <3>2. Window' = Window
      BY <2>1 DEF Window
    <3>3. \A port \in Window : ~(port < start)
      BY <1>0, StartOfWindow DEF Window, PortNumbers
    <3> QED
      BY <2>1, <3>1, <3>2, <3>3 DEF Tried
  <2> QED
    BY <1>3, <2>1, <2>2 DEF PortsInv, PortsTyped, Accept, AllocationIsRight
<1>4. CASE Prefer
  <2>1. UNCHANGED <<preferred, base, claims, offset, busy, wasBusy, stayedBusy>>
    BY <1>4 DEF Prefer, question, world
  <2>2. CASE ~is_claimed(preferred) /\ is_port_free(preferred)
    <3>1. at' = "done" /\ chosen' = preferred /\ preferred # NoPort
          /\ preferred # Reserved /\ base # Reserved
          /\ preferred \notin claims /\ preferred \notin stayedBusy
      BY <1>4, <2>2 DEF Prefer, Finish, is_claimed, is_port_free, PortsInv
    <3> QED
      BY <2>1, <3>1 DEF PortsInv, PortsTyped, AllocationIsRight
  <2>3. CASE ~(~is_claimed(preferred) /\ is_port_free(preferred))
    <3>1. at' = "scan" /\ UNCHANGED chosen
      BY <1>4, <2>3 DEF Prefer
    <3>2. Taken(preferred)
      BY <2>3 DEF is_claimed, is_port_free, Taken, PortsInv
    <3>3. candidate = start /\ \A port \in Window : ~(port < start)
      BY <1>0, <1>4, StartOfWindow DEF PortsInv, Prefer, candidate, Window, PortNumbers
    <3>4. Tried'
      BY <2>1, <3>2, <3>3 DEF Tried, Taken, candidate, start, Window
    <3> QED
      BY <1>4, <2>1, <3>1, <3>4 DEF PortsInv, PortsTyped, AllocationIsRight, Prefer
  <2> QED
    BY <2>2, <2>3
<1>5. CASE GiveUp
  <2>1. /\ UNCHANGED <<preferred, base, claims, offset, busy, wasBusy, stayedBusy>>
        /\ at' = "done" /\ chosen' = NoPort /\ Tried
    BY <1>5 DEF GiveUp, Finish, question, world, PortsInv
  <2>2. \A port \in Window : port < candidate
    BY <1>0, <1>5, StartOfWindow DEF GiveUp, candidate, Window, PortNumbers, PortsTyped
  <2>3. preferred \notin {NoPort, chosen'} => Taken(preferred)
    BY <2>1 DEF Tried
  <2>4. \A port \in Window : Taken(port)
    BY <2>1, <2>2 DEF Tried
  <2>5. AllocationIsRight'
    BY <2>1, <2>3, <2>4 DEF AllocationIsRight, Taken, Window
  <2> QED
    BY <2>1, <2>5 DEF PortsInv, PortsTyped
<1>6. CASE Probe
  <2>1. /\ UNCHANGED <<preferred, base, claims, busy, wasBusy, stayedBusy>>
        /\ Tried /\ preferred # Reserved /\ base # Reserved
        /\ offset < MAX_PROBES /\ candidate <= Top
    BY <1>6 DEF Probe, question, world, PortsInv
  <2>2. candidate \in PortNumbers /\ candidate \in Window /\ Reserved < candidate
    BY <1>0, <2>1, StartOfWindow DEF candidate, PortNumbers, PortsTyped
  <2>3. CASE ~is_claimed(candidate) /\ is_port_free(candidate)
    <3>1. /\ at' = "done" /\ chosen' = candidate /\ UNCHANGED offset
          /\ candidate \notin claims /\ candidate \notin stayedBusy
      BY <1>6, <2>3 DEF Probe, Finish, is_claimed, is_port_free, PortsInv
    <3>2. candidate # NoPort /\ candidate # Reserved
      BY <2>2 DEF PortNumbers
    <3>3. \A port \in Window : Taken(port) \/ port >= candidate
      BY <2>1, <2>2 DEF Tried, Window, PortNumbers
    <3>4. AllocationIsRight'
      BY <2>1, <2>2, <3>1, <3>2, <3>3 DEF AllocationIsRight, Tried, Taken, Window
    <3> QED
      BY <2>1, <2>2, <3>1, <3>4 DEF PortsInv, PortsTyped
  <2>4. CASE ~(~is_claimed(candidate) /\ is_port_free(candidate))
    <3>1. offset' = offset + 1 /\ UNCHANGED <<at, chosen>>
      BY <1>6, <2>4 DEF Probe
    <3>2. Taken(candidate)
      BY <2>4 DEF is_claimed, is_port_free, Taken, PortsInv
    <3>3. candidate' = candidate + 1
      BY <1>0, <2>1, <3>1, StartOfWindow DEF candidate, start, PortsTyped
    <3>4. \A port \in Window : port < candidate + 1 => port < candidate \/ port = candidate
      BY <2>2 DEF Window, PortNumbers
    <3>5. Tried'
      BY <2>1, <3>2, <3>3, <3>4 DEF Tried, Taken, Window
    <3>6. at' = "scan" /\ PortsTyped'
      BY <1>0, <1>6, <2>1, <3>1 DEF Probe, PortsTyped
    <3> QED
      BY <2>1, <3>1, <3>5, <3>6 DEF PortsInv, AllocationIsRight
  <2> QED
    BY <2>3, <2>4
<1>7. CASE UNCHANGED portVars
  BY <1>7 DEF PortsInv, PortsTyped, AllocationIsRight, Tried, Taken, Window, candidate,
              start, portVars, question, world
<1> QED
  BY <1>1, <1>2, <1>3, <1>4, <1>5, <1>6, <1>7 DEF Next

(* The port handed out is the right one, for any boundary of the ports and *)
(* of the scan, and any base_port (ports.rs, allocate).                    *)
THEOREM AllocatesRight == PortsSpec => []AllocationIsRight
<1>1. PortsInv => AllocationIsRight
  BY DEF PortsInv
<1> QED
  BY <1>1, PortsInit, PortsNext, PTL DEF PortsSpec

-----------------------------------------------------------------------------
(* Induction, and functions of sequences.                                  *)

(* Some number of a set of natural numbers is the least: the initial       *)
(* segments 1..n are finite sets, and inclusion of those is well-founded.  *)
LEMMA LeastNat == ASSUME NEW T \in SUBSET Nat, T # {} PROVE \E n \in T : \A m \in T : n <= m
<1> DEFINE R == StrictSubsetOrdering(Nat)
           S == FiniteSubsetsOf(Nat)
           F == {1..n : n \in T}
<1>1. IsWellFoundedOn(R, S)
  BY FS_StrictSubsetOrderingWellFounded
<1>2. F \subseteq S
  BY FS_Interval DEF FiniteSubsetsOf
<1>3. F # {}
  OBVIOUS
<1> HIDE DEF R, S, F
<1>4. PICK X \in F : \A Y \in F : <<Y, X>> \notin R
  BY <1>1, <1>2, <1>3, WFMin
<1>5. PICK n \in T : X = 1..n
  BY DEF F
<1>6. ASSUME NEW m \in T, m < n PROVE FALSE
  <2>1. 1..m \in F
     BY DEF F
  <2>2. 1..m \subseteq 1..n /\ n \in 1..n /\ n \notin 1..m
    BY <1>6
  <2>3. 1..m \in SUBSET Nat /\ 1..n \in SUBSET Nat
    OBVIOUS
  <2>4. <<1..m, 1..n>> \in R
    BY <2>2, <2>3 DEF R, StrictSubsetOrdering
  <2> QED BY <1>4, <1>5, <2>1, <2>4
<1> QED BY <1>6

\* A set of numbers with 0, and with the successor of each, has them all.
LEMMA Induction == ASSUME NEW P, 0 \in P, \A n \in P \cap Nat : n + 1 \in P PROVE Nat \subseteq P
<1> SUFFICES ASSUME Nat \ P # {} PROVE FALSE
  OBVIOUS
<1>1. PICK n \in Nat \ P : \A m \in Nat \ P : n <= m
  BY LeastNat
<1>2. n # 0 /\ n - 1 \in Nat /\ ~(n <= n-1)
  BY <1>1
<1>3. n - 1 \in P
  BY <1>1, <1>2
<1>4. (n-1) + 1 \in P
  BY <1>3, <1>2
<1> QED BY <1>1, <1>2, <1>4

\* What a sequence is made of.
LEMMA FrontLast ==
  ASSUME NEW S, NEW s \in Seq(S), s # <<>>
  PROVE  /\ Len(s) \in Nat \ {0}
         /\ Front(s) \in Seq(S)
         /\ Len(Front(s)) = Len(s) - 1
         /\ \A i \in 1..Len(s) - 1 : Front(s)[i] = s[i]
         /\ Last(s) \in S /\ Last(s) = s[Len(s)]
<1>1. Len(s) \in Nat \ {0} /\ \A i \in 1..Len(s) : s[i] \in S
  BY EmptySeq, ElementOfSeq
<1>2. PICK n \in Nat : Len(s) = n + 1
  BY <1>1
<1>3. /\ SubSeq(s, 1, n) \in Seq(S)
      /\ Len(SubSeq(s, 1, n)) = n
      /\ \A i \in 1..n : SubSeq(s, 1, n)[i] = s[i]
  <2>1. 1 \in Int /\ n \in Int /\ \A i \in 1..n : s[i] \in S
    BY <1>1, <1>2
  <2>2. /\ SubSeq(s, 1, n) \in Seq(S)
        /\ Len(SubSeq(s, 1, n)) = IF 1 <= n THEN n - 1 + 1 ELSE 0
        /\ \A i \in 1..n - 1 + 1 : SubSeq(s, 1, n)[i] = s[1 + i - 1]
    BY <2>1, SubSeqProperties
  <2> QED BY <2>2
<1>4. Len(s) - 1 = n
  BY <1>2
<1>5. Front(s) = SubSeq(s, 1, n)
  BY <1>4 DEF Front
<1>6. Last(s) = s[Len(s)]
  BY DEF Last
<1>7. s[Len(s)] \in S
  BY <1>1
<1> QED BY <1>1, <1>3, <1>4, <1>5, <1>6, <1>7

LEMMA FrontOfAppend ==
  ASSUME NEW S, NEW s \in Seq(S), NEW x \in S
  PROVE  /\ Append(s, x) \in Seq(S) /\ Append(s, x) # <<>>
         /\ Front(Append(s, x)) = s /\ Last(Append(s, x)) = x
<1>0. PICK t : t = Append(s, x)
  OBVIOUS
<1>1. /\ t \in Seq(S) /\ t # <<>> /\ Len(t) = Len(s) + 1
      /\ \A i \in 1..Len(s) : t[i] = s[i]
      /\ t[Len(s) + 1] = x
  BY <1>0, AppendProperties
<1>2. Len(s) \in Nat
  BY LenProperties
<1>3. /\ Front(t) \in Seq(S) /\ Len(Front(t)) = Len(t) - 1
      /\ \A i \in 1..Len(t) - 1 : Front(t)[i] = t[i]
      /\ Last(t) = t[Len(t)]
  BY <1>1, FrontLast
<1>4. Front(t) = s
  <2>1. Len(Front(t)) = Len(s) /\ \A i \in 1..Len(s) : Front(t)[i] = s[i]
    BY <1>1, <1>2, <1>3
  <2> QED BY <1>3, <2>1, SeqEqual
<1>5. Last(t) = x
  BY <1>1, <1>3
<1> QED BY <1>0, <1>1, <1>4, <1>5

LEMMA AppendOfFront ==
  ASSUME NEW S, NEW s \in Seq(S), s # <<>>
  PROVE  Append(Front(s), Last(s)) = s
<1>1. PICK t \in Seq(S), x \in S : s = Append(t, x)
  BY SequenceEmptyOrAppend
<1> QED BY <1>1, FrontOfAppend

(* The values of a loop over p that starts with b and steps by G, after    *)
(* each of its elements.                                                   *)
Run(p, W, b, G) ==
  {r \in [0..Len(p) -> W] : r[0] = b /\ \A i \in 1..Len(p) : r[i] = G[<<r[i - 1], p[i]>>]}

\* There is one run at most.
LEMMA OneRun ==
  ASSUME NEW S, NEW W, NEW b \in W, NEW G \in [W \X S -> W], NEW p \in Seq(S),
         NEW r \in Run(p, W, b, G), NEW q \in Run(p, W, b, G)
  PROVE  r = q
<1> DEFINE P == {i \in Nat : i \in 0..Len(p) => r[i] = q[i]}
<1>0. Len(p) \in Nat
  BY LenProperties
<1>1. 0 \in P
  BY DEF Run
<1>2. ASSUME NEW i \in P \cap Nat PROVE i + 1 \in P
  <2> SUFFICES ASSUME i + 1 \in 0..Len(p) PROVE r[i + 1] = q[i + 1]
    OBVIOUS
  <2>1. i + 1 \in 1..Len(p) /\ i \in 0..Len(p) /\ (i + 1) - 1 = i
    BY <1>0
  <2>2. r[i] = q[i]
    BY <2>1
  <2>3. /\ r[i + 1] = G[<<r[(i + 1) - 1], p[i + 1]>>]
        /\ q[i + 1] = G[<<q[(i + 1) - 1], p[i + 1]>>]
    BY <2>1 DEF Run
  <2> QED BY <2>1, <2>2, <2>3
<1>3. Nat \subseteq P
  <2> HIDE DEF P
  <2> QED BY <1>1, <1>2, Induction
<1>4. \A i \in 0..Len(p) : r[i] = q[i]
  BY <1>0, <1>3
<1> QED BY <1>4 DEF Run

\* There is one.
LEMMA ARun ==
  ASSUME NEW S, NEW W, NEW b \in W, NEW G \in [W \X S -> W]
  PROVE  \A p \in Seq(S) : Run(p, W, b, G) # {}
<1> DEFINE P == {n \in Nat : \A p \in Seq(S) : Len(p) = n => Run(p, W, b, G) # {}}
<1>1. 0 \in P
  <2> SUFFICES ASSUME NEW p \in Seq(S), Len(p) = 0 PROVE Run(p, W, b, G) # {}
    OBVIOUS
  <2>1. [i \in 0..0 |-> b] \in Run(p, W, b, G)
    BY DEF Run
  <2> QED BY <2>1
<1>2. ASSUME NEW n \in P \cap Nat PROVE n + 1 \in P
  <2> SUFFICES ASSUME NEW p \in Seq(S), Len(p) = n + 1 PROVE Run(p, W, b, G) # {}
    OBVIOUS
  <2>0. p # <<>>
    BY EmptySeq
  <2>1. /\ Front(p) \in Seq(S) /\ Len(Front(p)) = n
        /\ \A i \in 1..n : Front(p)[i] = p[i]
    <3>1. /\ Front(p) \in Seq(S) /\ Len(Front(p)) = Len(p) - 1
          /\ \A i \in 1..Len(p) - 1 : Front(p)[i] = p[i]
      BY <2>0, FrontLast
    <3> QED BY <3>1
  <2>2. PICK r \in Run(Front(p), W, b, G) : TRUE
    BY <2>1
  <2>3. /\ r \in [0..n -> W] /\ r[0] = b
        /\ \A i \in 1..n : r[i] = G[<<r[i - 1], p[i]>>]
    BY <2>1, <2>2 DEF Run
  <2>4. p[n + 1] \in S /\ G[<<r[n], p[n + 1]>>] \in W
    <3>1. p[n + 1] \in S
      BY ElementOfSeq
    <3> QED BY <2>3, <3>1
  <2> DEFINE q == [i \in 0..n + 1 |-> IF i = n + 1 THEN G[<<r[n], p[n + 1]>>] ELSE r[i]]
  <2>5. q \in [0..n + 1 -> W]
    BY <2>3, <2>4
  <2>6. q[0] = b /\ q[n + 1] = G[<<r[n], p[n + 1]>>] /\ \A i \in 0..n : q[i] = r[i]
    BY <2>3
  <2>7. ASSUME NEW i \in 1..n + 1 PROVE q[i] = G[<<q[i - 1], p[i]>>]
    <3> HIDE DEF q
    <3>1. CASE i = n + 1
      BY <2>6, <3>1
    <3>2. CASE i \in 1..n
      BY <2>3, <2>6, <3>2
    <3> QED BY <3>1, <3>2
  <2>8. q \in Run(p, W, b, G)
    <3> HIDE DEF q
    <3> QED BY <2>5, <2>6, <2>7 DEF Run
  <2> QED BY <2>8
<1>3. Nat \subseteq P
  <2> HIDE DEF P
  <2> QED BY <1>1, <1>2, Induction
<1> QED BY <1>3, LenProperties

\* What such loops end with.
IsFold(f, S, W, b, G) ==
    /\ f \in [Seq(S) -> W]
    /\ f[<<>>] = b
    /\ \A p \in Seq(S) : p # <<>> => f[p] = G[<<f[Front(p)], Last(p)>>]

(* A function of sequences may be defined by its value for the empty one   *)
(* and a step.                                                             *)
LEMMA FoldExists ==
  ASSUME NEW S, NEW W, NEW b \in W, NEW G \in [W \X S -> W]
  PROVE  \E f : IsFold(f, S, W, b, G)
<1> DEFINE run(p) == CHOOSE r \in Run(p, W, b, G) : TRUE
           f == [p \in Seq(S) |-> run(p)[Len(p)]]
<1>1. ASSUME NEW p \in Seq(S) PROVE run(p) \in Run(p, W, b, G)
  BY ARun
<1>2. f \in [Seq(S) -> W]
  <2> SUFFICES ASSUME NEW p \in Seq(S) PROVE run(p)[Len(p)] \in W
    OBVIOUS
  <2>1. Len(p) \in 0..Len(p)
    BY LenProperties
  <2> QED BY <1>1, <2>1 DEF Run
<1>3. ASSUME NEW p \in Seq(S), p # <<>> PROVE f[p] = G[<<f[Front(p)], Last(p)>>]
  <2>1. /\ Len(p) \in Nat \ {0} /\ Front(p) \in Seq(S) /\ Len(Front(p)) = Len(p) - 1
        /\ \A i \in 1..Len(p) - 1 : Front(p)[i] = p[i]
        /\ Last(p) = p[Len(p)]
    BY <1>3, FrontLast
  <2>2. PICK r : r = run(p)
    OBVIOUS
  <2>3. /\ r \in [0..Len(p) -> W] /\ r[0] = b
        /\ \A i \in 1..Len(p) : r[i] = G[<<r[i - 1], p[i]>>]
    BY <1>1, <2>2 DEF Run
  <2>4. PICK q : q = [i \in 0..Len(p) - 1 |-> r[i]]
    OBVIOUS
  <2>5. q \in Run(Front(p), W, b, G)
    BY <2>1, <2>3, <2>4 DEF Run
  <2>6. q = run(Front(p))
    BY <1>1, <2>1, <2>5, OneRun
  <2>7. f[Front(p)] = r[Len(p) - 1]
    <3>1. f[Front(p)] = q[Len(p) - 1]
      BY <2>1, <2>6
    <3> QED BY <2>1, <2>4, <3>1
  <2>8. f[p] = G[<<r[Len(p) - 1], p[Len(p)]>>]
    BY <2>1, <2>2, <2>3
  <2> HIDE DEF f
  <2> QED BY <2>1, <2>7, <2>8
<1>4. f[<<>>] = b
  <2>1. <<>> \in Seq(S) /\ Len(<<>>) = 0
    BY EmptySeq
  <2>2. run(<<>>)[0] = b
    BY <1>1, <2>1 DEF Run
  <2> QED BY <2>1, <2>2
<1>5. IsFold(f, S, W, b, G)
  <2> HIDE DEF f
  <2> QED BY <1>2, <1>3, <1>4 DEF IsFold
<1> QED BY <1>5

\* A set with <<>>, and with each longer sequence, has them all.
LEMMA SeqInduction ==
  ASSUME NEW S, NEW P, <<>> \in P,
         \A s \in P \cap Seq(S), x \in S : Append(s, x) \in P
  PROVE  Seq(S) \subseteq P
<1> DEFINE Q == {n \in Nat : \A s \in Seq(S) : Len(s) = n => s \in P}
<1>1. 0 \in Q
  BY EmptySeq
<1>2. ASSUME NEW n \in Q \cap Nat PROVE n + 1 \in Q
  <2> SUFFICES ASSUME NEW s \in Seq(S), Len(s) = n + 1 PROVE s \in P
    OBVIOUS
  <2>1. s # <<>>
    BY EmptySeq
  <2>2. Front(s) \in Seq(S) /\ Len(Front(s)) = n /\ Last(s) \in S
    BY <2>1, FrontLast
  <2>3. Front(s) \in P
    BY <2>2
  <2>4. Append(Front(s), Last(s)) \in P
    BY <2>2, <2>3
  <2> QED BY <2>1, <2>4, AppendOfFront
<1>3. Nat \subseteq Q
  <2> HIDE DEF Q
  <2> QED BY <1>1, <1>2, Induction
<1> QED BY <1>3, LenProperties

-----------------------------------------------------------------------------
(* Directories.                                                            *)

\* Where the system may be on its way along a path.
Place == RealPath \cup {Nowhere}

\* Real paths, and those of what they are in.
LEMMA RealFacts ==
  /\ RealName \subseteq Name
  /\ \A real \in RealPath : real \in Seq(Name) /\ (real # <<>> => Front(real) \in RealPath)
  /\ \A real \in RealPath, name \in RealName : Append(real, name) \in RealPath
  /\ <<>> \in RealPath
<1>1. RealName \subseteq Name
  BY DEF RealName
<1>2. ASSUME NEW real \in RealPath PROVE real \in Seq(Name) /\ (real # <<>> => Front(real) \in RealPath)
  BY <1>1, SeqMonotonic, FrontLast DEF RealPath
<1>3. \A real \in RealPath, name \in RealName : Append(real, name) \in RealPath
  BY AppendProperties DEF RealPath
<1>4. <<>> \in RealPath
  BY EmptySeq DEF RealPath
<1> QED BY <1>1, <1>2, <1>3, <1>4

LEMMA EnterTyped == \A here \in Place, name \in Name : Enter(here, name) \in Place
<1> SUFFICES ASSUME NEW here \in Place, NEW name \in Name PROVE Enter(here, name) \in Place
  OBVIOUS
<1>1. CASE ~IsDir(here)
  BY <1>1 DEF Enter, Place
<1>2. CASE IsDir(here) /\ name \in {".", ".."}
  <2>1. here \in RealPath
    BY <1>2, WorkspaceAssumption DEF IsDir
  <2>2. (here = <<>>) \/ Front(here) \in RealPath
    BY <2>1, RealFacts
  <2> QED BY <1>2, <2>1, <2>2 DEF Enter, Place
<1>3. CASE IsDir(here) /\ name \notin {".", ".."}
  <2>1. Enter(here, name) = Follow(Append(here, name))
    BY <1>3 DEF Enter
  <2>2. \A real : Follow(real) \in Dirs \cup Files \cup {Nowhere}
    BY DEF Follow
  <2> QED BY <2>1, <2>2, WorkspaceAssumption DEF Place
<1> QED BY <1>1, <1>2, <1>3

\* What lexical_absolute has kept of a path.
Stack == RealPath \cup {NoPath}

LEMMA ComponentTyped ==
  \A out \in Stack, name \in Name : Component(out, name) \in Stack
<1> SUFFICES ASSUME NEW out \in Stack, NEW name \in Name
             PROVE  Component(out, name) \in Stack
  OBVIOUS
<1>1. CASE out = NoPath
  BY <1>1 DEF Component, Stack
<1>2. CASE out \in RealPath /\ name \in {".", ".."}
  BY <1>2, RealFacts DEF Component, Stack
<1>3. CASE out \in RealPath /\ name \in RealName
  <2>1. Append(out, name) \in RealPath
    BY <1>3, RealFacts
  <2> QED BY <1>3, <2>1, WorkspaceAssumption DEF Component, Stack, RealName
<1> QED BY <1>1, <1>2, <1>3 DEF Stack, RealName

LEMMA CollapseTyped ==
  \A out \in RealPath, name \in Name : Collapse(out, name) \in RealPath
<1> SUFFICES ASSUME NEW out \in RealPath, NEW name \in Name
             PROVE  Collapse(out, name) \in RealPath
  OBVIOUS
<1>1. CASE name \in {".", ".."}
  BY <1>1, RealFacts DEF Collapse
<1>2. CASE name \in RealName
  <2>1. Append(out, name) \in RealPath
    BY <1>2, RealFacts
  <2> QED BY <1>2, <2>1 DEF Collapse, RealName
<1> QED BY <1>1, <1>2 DEF RealName

\* What the system opens, name by name.
LEMMA OpenedDef ==
  /\ Opened \in [Seq(Name) -> Place]
  /\ Opened[<<>>] = <<>>
  /\ \A path \in Seq(Name), name \in Name :
        Opened[Append(path, name)] = Enter(Opened[path], name)
<1> DEFINE G == [a \in Place \X Name |-> Enter(a[1], a[2])]
<1>1. <<>> \in Place
  BY RealFacts DEF Place
<1>2. G \in [Place \X Name -> Place]
  BY EnterTyped
<1>3. PICK f : IsFold(f, Name, Place, <<>>, G)
  <2> HIDE DEF G
  <2> QED BY <1>1, <1>2, FoldExists
<1>4. f = [path \in Seq(Name) |->
              IF path = <<>> THEN <<>> ELSE Enter(f[Front(path)], Last(path))]
  BY <1>3, FrontLast DEF IsFold
<1>5. Opened = CHOOSE g : g = [path \in Seq(Name) |->
              IF path = <<>> THEN <<>> ELSE Enter(g[Front(path)], Last(path))]
  BY DEF Opened
<1>6. Opened = [path \in Seq(Name) |->
              IF path = <<>> THEN <<>> ELSE Enter(Opened[Front(path)], Last(path))]
  BY <1>4, <1>5
<1>7. Opened[<<>>] = <<>>
  BY <1>6, EmptySeq
<1>8. ASSUME NEW path \in Seq(Name), NEW name \in Name
      PROVE  Opened[Append(path, name)] = Enter(Opened[path], name)
  BY <1>6, FrontOfAppend
<1>9. \A path \in Seq(Name) : Opened[path] \in Place
  <2> DEFINE P == {path \in Seq(Name) : Opened[path] \in Place}
  <2>1. <<>> \in P
    BY <1>1, <1>7, EmptySeq
  <2>2. \A path \in P \cap Seq(Name), name \in Name : Append(path, name) \in P
    BY <1>8, EnterTyped, AppendProperties
  <2>3. Seq(Name) \subseteq P
    <3> HIDE DEF P
    <3> QED BY <2>1, <2>2, SeqInduction
  <2> QED BY <2>3
<1>10. Opened = [path \in Seq(Name) |-> Opened[path]]
  BY <1>6
<1> HIDE <1>6
<1> QED BY <1>7, <1>8, <1>9, <1>10

\* lexical_absolute and normalise are loops over the components.
LEMMA lexicalDef ==
  /\ lexical_absolute \in [Seq(Name) -> Stack]
  /\ lexical_absolute[<<>>] = <<>>
  /\ \A path \in Seq(Name), name \in Name :
        lexical_absolute[Append(path, name)] = Component(lexical_absolute[path], name)
<1> DEFINE G == [a \in Stack \X Name |-> Component(a[1], a[2])]
<1>1. <<>> \in Stack
  BY RealFacts DEF Stack
<1>2. G \in [Stack \X Name -> Stack]
  BY ComponentTyped
<1>3. PICK f : IsFold(f, Name, Stack, <<>>, G)
  <2> HIDE DEF G
  <2> QED BY <1>1, <1>2, FoldExists
<1>4. f = [path \in Seq(Name) |->
              IF path = <<>> THEN <<>> ELSE Component(f[Front(path)], Last(path))]
  BY <1>3, FrontLast DEF IsFold
<1>5. lexical_absolute = CHOOSE g : g = [path \in Seq(Name) |->
              IF path = <<>> THEN <<>> ELSE Component(g[Front(path)], Last(path))]
  BY DEF lexical_absolute
<1>6. lexical_absolute = [path \in Seq(Name) |->
              IF path = <<>> THEN <<>> ELSE Component(lexical_absolute[Front(path)], Last(path))]
  BY <1>4, <1>5
<1>7. lexical_absolute[<<>>] = <<>>
  BY <1>6, EmptySeq
<1>8. ASSUME NEW path \in Seq(Name), NEW name \in Name
      PROVE  lexical_absolute[Append(path, name)] = Component(lexical_absolute[path], name)
  BY <1>6, FrontOfAppend
<1>9. \A path \in Seq(Name) : lexical_absolute[path] \in Stack
  <2> DEFINE P == {path \in Seq(Name) : lexical_absolute[path] \in Stack}
  <2>1. <<>> \in P
    BY <1>1, <1>7, EmptySeq
  <2>2. \A path \in P \cap Seq(Name), name \in Name : Append(path, name) \in P
    BY <1>8, ComponentTyped, AppendProperties
  <2>3. Seq(Name) \subseteq P
    <3> HIDE DEF P
    <3> QED BY <2>1, <2>2, SeqInduction
  <2> QED BY <2>3
<1>10. lexical_absolute = [path \in Seq(Name) |-> lexical_absolute[path]]
  BY <1>6
<1> HIDE <1>6
<1> QED BY <1>7, <1>8, <1>9, <1>10

LEMMA normaliseDef ==
  /\ normalise \in [Seq(Name) -> RealPath]
  /\ normalise[<<>>] = <<>>
  /\ \A path \in Seq(Name), name \in Name :
        normalise[Append(path, name)] = Collapse(normalise[path], name)
<1> DEFINE G == [a \in RealPath \X Name |-> Collapse(a[1], a[2])]
<1>1. <<>> \in RealPath
  BY RealFacts
<1>2. G \in [RealPath \X Name -> RealPath]
  BY CollapseTyped
<1>3. PICK f : IsFold(f, Name, RealPath, <<>>, G)
  <2> HIDE DEF G
  <2> QED BY <1>1, <1>2, FoldExists
<1>4. f = [path \in Seq(Name) |->
              IF path = <<>> THEN <<>> ELSE Collapse(f[Front(path)], Last(path))]
  BY <1>3, FrontLast DEF IsFold
<1>5. normalise = CHOOSE g : g = [path \in Seq(Name) |->
              IF path = <<>> THEN <<>> ELSE Collapse(g[Front(path)], Last(path))]
  BY DEF normalise
<1>6. normalise = [path \in Seq(Name) |->
              IF path = <<>> THEN <<>> ELSE Collapse(normalise[Front(path)], Last(path))]
  BY <1>4, <1>5
<1>7. normalise[<<>>] = <<>>
  BY <1>6, EmptySeq
<1>8. ASSUME NEW path \in Seq(Name), NEW name \in Name
      PROVE  normalise[Append(path, name)] = Collapse(normalise[path], name)
  BY <1>6, FrontOfAppend
<1>9. \A path \in Seq(Name) : normalise[path] \in RealPath
  <2> DEFINE P == {path \in Seq(Name) : normalise[path] \in RealPath}
  <2>1. <<>> \in P
    BY <1>1, <1>7, EmptySeq
  <2>2. \A path \in P \cap Seq(Name), name \in Name : Append(path, name) \in P
    BY <1>8, CollapseTyped, AppendProperties
  <2>3. Seq(Name) \subseteq P
    <3> HIDE DEF P
    <3> QED BY <2>1, <2>2, SeqInduction
  <2> QED BY <2>3
<1>10. normalise = [path \in Seq(Name) |-> normalise[path]]
  BY <1>6
<1> HIDE <1>6
<1> QED BY <1>7, <1>8, <1>9, <1>10

\* Real directories are where their paths lead.
LEMMA DirsAreThere == \A dir \in Dirs : Opened[dir] = dir
<1> DEFINE P == {real \in RealPath : real \in Dirs => Opened[real] = real}
<1>1. <<>> \in P
  BY OpenedDef, RealFacts
<1>2. ASSUME NEW real \in P \cap Seq(RealName), NEW name \in RealName
      PROVE  Append(real, name) \in P
  <2> DEFINE here == Append(real, name)
  <2>1. /\ here \in RealPath /\ here # <<>> /\ Front(here) = real
        /\ real \in Seq(Name) /\ name \in Name
    BY RealFacts, FrontOfAppend DEF RealPath
  <2>2. ASSUME here \in Dirs PROVE Opened[here] = here
    <3>1. real \in Dirs /\ here \notin DOMAIN Links
      BY <2>1, <2>2, WorkspaceAssumption
    <3>2. Opened[here] = Enter(real, name)
      BY <2>1, <3>1, OpenedDef
    <3>3. name # "." /\ name # ".."
      BY DEF RealName
    <3> HIDE DEF here
    <3>4. Enter(real, name) = Follow(Append(real, name))
      BY <3>1, <3>3 DEF Enter, IsDir
    <3>5. Follow(here) = here
      BY <2>2, <3>1 DEF Follow
    <3> QED BY <3>2, <3>4, <3>5 DEF here
  <2> QED BY <2>1, <2>2
<1>3. Seq(RealName) \subseteq P
  <2> HIDE DEF P
  <2> QED BY <1>1, <1>2, SeqInduction
<1> QED BY <1>3, WorkspaceAssumption DEF RealPath

\* The two ways to collapse a path agree, unless one gives up.
LEMMA CollapsedAlike ==
  \A path \in Seq(Name) : lexical_absolute[path] \in {NoPath, normalise[path]}
<1> DEFINE P == {path \in Seq(Name) : lexical_absolute[path] \in {NoPath, normalise[path]}}
<1>1. <<>> \in P
  BY lexicalDef, normaliseDef, EmptySeq
<1>2. ASSUME NEW path \in P \cap Seq(Name), NEW name \in Name
      PROVE  Append(path, name) \in P
  <2>1. /\ Append(path, name) \in Seq(Name)
        /\ lexical_absolute[Append(path, name)] = Component(lexical_absolute[path], name)
        /\ normalise[Append(path, name)] = Collapse(normalise[path], name)
    BY lexicalDef, normaliseDef, AppendProperties
  <2>2. \A out : Component(out, name) \in {NoPath, Collapse(out, name)}
    BY DEF Component, Collapse
  <2>3. Component(NoPath, name) = NoPath
    BY DEF Component
  <2> QED BY <2>1, <2>2, <2>3
<1>3. Seq(Name) \subseteq P
  <2> HIDE DEF P
  <2> QED BY <1>1, <1>2, SeqInduction
<1> QED BY <1>3

\* What is plain is plain up to each of its names.
LEMMA PlainUpTo ==
  ASSUME NEW path \in Seq(Name), NEW name \in Name, Plain(Append(path, name))
  PROVE  /\ Plain(path)
         /\ name = ".." => IsDir(Opened[path]) /\ Opened[path] = normalise[path]
<1> DEFINE whole == Append(path, name)
<1>1. /\ whole \in Seq(Name) /\ Len(whole) = Len(path) + 1
      /\ \A i \in 1..Len(path) : whole[i] = path[i]
      /\ whole[Len(path) + 1] = name
  BY AppendProperties
<1>2. Len(path) \in Nat /\ DOMAIN path = 1..Len(path) /\ DOMAIN whole = 1..Len(path) + 1
  BY <1>1, LenProperties
<1>3. ASSUME NEW i \in 1..Len(path) + 1 PROVE SubSeq(whole, 1, i - 1) = SubSeq(path, 1, i - 1)
  <2>1. /\ i - 1 \in Nat /\ \A k \in 1..i - 1 : whole[k] = path[k] /\ path[k] \in Name
    BY <1>1, <1>2, ElementOfSeq
  <2>2. PICK n \in Nat : n = i - 1
    BY <2>1
  <2>3. /\ SubSeq(path, 1, n) \in Seq(Name) /\ SubSeq(whole, 1, n) \in Seq(Name)
        /\ Len(SubSeq(path, 1, n)) = n /\ Len(SubSeq(whole, 1, n)) = n
        /\ \A k \in 1..n : SubSeq(path, 1, n)[k] = path[k] /\ SubSeq(whole, 1, n)[k] = whole[k]
    <3> HIDE DEF whole
    <3>1. 1 \in Int /\ n \in Int /\ \A k \in 1..n : path[k] \in Name /\ whole[k] \in Name
      BY <2>1, <2>2
    <3>2. /\ SubSeq(path, 1, n) \in Seq(Name)
          /\ Len(SubSeq(path, 1, n)) = IF 1 <= n THEN n - 1 + 1 ELSE 0
          /\ \A k \in 1..n - 1 + 1 : SubSeq(path, 1, n)[k] = path[1 + k - 1]
      BY <3>1, SubSeqProperties
    <3>3. /\ SubSeq(whole, 1, n) \in Seq(Name)
          /\ Len(SubSeq(whole, 1, n)) = IF 1 <= n THEN n - 1 + 1 ELSE 0
          /\ \A k \in 1..n - 1 + 1 : SubSeq(whole, 1, n)[k] = whole[1 + k - 1]
      BY <3>1, SubSeqProperties
    <3> QED BY <3>2, <3>3
  <2>4. SubSeq(path, 1, n) = SubSeq(whole, 1, n)
    <3> HIDE DEF whole
    <3> QED BY <2>1, <2>2, <2>3, SeqEqual
  <2> QED BY <2>2, <2>4
<1>4. SubSeq(path, 1, Len(path)) = path
  BY SubSeqFull
<1> HIDE DEF whole
<1>5. Plain(whole)
  BY DEF whole
<1>6. Plain(path)
  <2> SUFFICES ASSUME NEW i \in 1..Len(path), path[i] = ".."
               PROVE  LET before == SubSeq(path, 1, i - 1)
                      IN  IsDir(Opened[before]) /\ Opened[before] = normalise[before]
    BY <1>2 DEF Plain
  <2>1. i \in 1..Len(path) + 1 /\ whole[i] = ".."
    BY <1>1, <1>2
  <2> QED BY <1>2, <1>3, <1>5, <2>1 DEF Plain
<1>7. ASSUME name = ".." PROVE IsDir(Opened[path]) /\ Opened[path] = normalise[path]
  <2>1. Len(path) + 1 \in 1..Len(path) + 1 /\ (Len(path) + 1) - 1 = Len(path)
    BY <1>2
  <2>2. SubSeq(whole, 1, (Len(path) + 1) - 1) = path
    BY <1>3, <1>4, <2>1
  <2> QED BY <1>1, <1>2, <1>5, <1>7, <2>1, <2>2 DEF Plain
<1> QED BY <1>6, <1>7

(* The system finds the same at a plain path and at what it collapses to,  *)
(* or nothing at the path and no directory at the other.                   *)
SamePlace(path) ==
    \/ Opened[path] = Opened[normalise[path]]
    \/ Opened[path] = Nowhere /\ ~IsDir(Opened[normalise[path]])

LEMMA PlainPathsCollapse == \A path \in Seq(Name) : Plain(path) => SamePlace(path)
<1> DEFINE P == {path \in Seq(Name) : Plain(path) => SamePlace(path)}
<1>1. <<>> \in P
  BY OpenedDef, normaliseDef, EmptySeq DEF SamePlace
<1>2. ASSUME NEW path \in P \cap Seq(Name), NEW name \in Name, Plain(Append(path, name))
      PROVE  SamePlace(Append(path, name))
  <2> DEFINE here == Opened[path]
             out  == normalise[path]
             next == Append(path, name)
  <2>1. /\ Plain(path)
        /\ name = ".." => IsDir(here) /\ here = out
    BY <1>2, PlainUpTo
  <2>2. SamePlace(path)
    BY <2>1
  <2>3. Opened[next] = Enter(here, name) /\ normalise[next] = Collapse(out, name)
    BY OpenedDef, normaliseDef
  <2>4. out \in RealPath /\ out \in Seq(Name) /\ here \in Place
    BY OpenedDef, normaliseDef, RealFacts
  <2>5. ~IsDir(Nowhere)
    BY WorkspaceAssumption DEF IsDir
  <2>6. CASE name = "."
    <3>1. normalise[next] = out
      BY <2>3, <2>6 DEF Collapse
    <3>2. Opened[next] = IF IsDir(here) THEN here ELSE Nowhere
      BY <2>3, <2>6 DEF Enter
    <3> QED BY <2>2, <2>5, <3>1, <3>2 DEF SamePlace
  <2>7. CASE name = ".."
    <3>1. out \in Dirs /\ here = out
      BY <2>1, <2>7 DEF IsDir
    <3>2. normalise[next] = IF out = <<>> THEN out ELSE Front(out)
      BY <2>3, <2>7 DEF Collapse
    <3>3. Opened[next] = IF out = <<>> THEN out ELSE Front(out)
      BY <2>3, <2>7, <3>1 DEF Enter, IsDir
    <3>4. normalise[next] \in Dirs
      BY <3>1, <3>2, WorkspaceAssumption
    <3> QED BY <3>2, <3>3, <3>4, DirsAreThere DEF SamePlace
  <2>8. CASE name \in RealName
    <3>1. name # "." /\ name # ".."
      BY <2>8 DEF RealName
    <3>2. normalise[next] = Append(out, name)
      BY <2>3, <3>1 DEF Collapse
    <3>3. Opened[normalise[next]] = Enter(Opened[out], name)
      BY <2>4, <3>2, OpenedDef
    <3>4. CASE here = Opened[out]
      BY <2>3, <3>3, <3>4 DEF SamePlace
    <3>5. CASE here = Nowhere /\ ~IsDir(Opened[out])
      BY <2>3, <2>5, <3>3, <3>5 DEF SamePlace, Enter
    <3> QED BY <2>2, <3>4, <3>5 DEF SamePlace
  <2> QED BY <2>6, <2>7, <2>8 DEF RealName
<1>3. \A path \in P \cap Seq(Name), name \in Name : Append(path, name) \in P
  BY <1>2, AppendProperties
<1>4. Seq(Name) \subseteq P
  <2> HIDE DEF P
  <2> QED BY <1>1, <1>3, SeqInduction
<1> QED BY <1>4

\* What was typed is a path from the root, of names.
LEMMA AbsoluteTyped ==
  ASSUME NEW given \in Typed, NEW from \in Dirs
  PROVE  Absolute(given, from) \in Seq(Name)
<1>1. given.path \in Seq(Name)
  BY EmptySeq, WorkspaceAssumption DEF Typed
<1>2. from \in Seq(Name)
  BY RealFacts, WorkspaceAssumption
<1>3. from \o given.path \in Seq(Name)
  BY <1>1, <1>2, ConcatProperties
<1> QED BY <1>1, <1>3 DEF Absolute

(* Whatever directories, links and denied roots there are, a directory is  *)
(* accepted by every spelling that leads to it, and is identified by its   *)
(* real path if canonicalize answers, else by a spelling that leads to it  *)
(* (workspace.rs, validate_workspace).                                     *)
THEOREM WorkspaceIsPhysical == WorkspaceTyped => IdentityIsPhysical
<1> SUFFICES ASSUME typed \in Typed, cwd \in Dirs, resolves \in BOOLEAN
             PROVE  IsPhysical(typed, cwd)
  BY DEF WorkspaceTyped, IdentityIsPhysical
<1> DEFINE path   == Absolute(typed, cwd)
           host   == lexical_absolute[path]
           result == validate_workspace(typed, cwd)
           valid  == /\ typed.form \in {"rooted", "relative"}
                     /\ host # NoPath
                     /\ check_denied(host)
                     /\ IsDir(Opened[host])
<1>1. path \in Seq(Name)
  BY AbsoluteTyped
<1>2. host \in Stack /\ normalise[path] \in RealPath
  BY <1>1, lexicalDef, normaliseDef
<1>3. result = IF valid THEN [host |-> host, identity |-> canonical(host)] ELSE NoPath
  BY DEF validate_workspace
<1>4. ASSUME valid
      PROVE /\ result = [host |-> host, identity |-> canonical(host)]
            /\ result # NoPath
            /\ host = normalise[path]
            /\ Opened[canonical(host)] = Opened[host]
            /\ resolves => canonical(host) = Opened[host]
  <2>1. host \in RealPath /\ host = normalise[path]
    BY <1>1, <1>2, <1>4, CollapsedAlike DEF Stack
  <2>2. Opened[host] \in RealPath /\ Opened[Opened[host]] = Opened[host]
    BY <1>4, WorkspaceAssumption, DirsAreThere DEF IsDir
  <2> HIDE DEF host, path, result
  <2>3. canonical(host) \in {host, Opened[host]} /\ (resolves => canonical(host) = Opened[host])
    BY DEF canonical
  <2>4. [host |-> host, identity |-> canonical(host)] \in [host : RealPath, identity : RealPath]
    BY <2>1, <2>2, <2>3
  <2> QED BY <1>3, <1>4, <2>1, <2>2, <2>3, <2>4, WorkspaceAssumption
<1>5. ASSUME Plain(path) PROVE SamePlace(path)
  BY <1>1, <1>5, PlainPathsCollapse
<1>6. ~IsDir(Nowhere)
  BY WorkspaceAssumption DEF IsDir
<1>7. typed.form \in {"rooted", "relative", "drive", "blank"}
  BY DEF Typed
<1> HIDE DEF path, host, result
<1>8. result # NoPath => valid
  BY <1>3
<1>9. result # NoPath => /\ IsDir(Opened[result.identity])
                         /\ Opened[result.host] = Opened[result.identity]
                         /\ resolves => result.identity = Opened[result.host]
  BY <1>4, <1>8
<1>10. Plain(path) /\ result # NoPath => Opened[result.identity] = Opened[path]
  BY <1>4, <1>5, <1>8 DEF SamePlace
<1>11. ASSUME Plain(path), result = NoPath, IsDir(Opened[path]),
              host # NoPath, check_denied(normalise[path])
       PROVE  typed.form \in {"drive", "blank"}
  <2>1. host = normalise[path]
    BY <1>1, <1>11, CollapsedAlike DEF host
  <2>2. IsDir(Opened[host])
    BY <1>5, <1>6, <1>11, <2>1 DEF SamePlace
  <2> QED BY <1>4, <1>7, <1>11, <2>1, <2>2
<1>12. Plain(path) /\ result = NoPath =>
               \/ typed.form \in {"drive", "blank"}
               \/ ~IsDir(Opened[path])
               \/ host = NoPath
               \/ ~check_denied(normalise[path])
  BY <1>11
<1> QED BY <1>9, <1>10, <1>12 DEF IsPhysical, path, host, result

\* A real path has nothing to collapse.
LEMMA RealIsCollapsed == \A real \in RealPath : lexical_absolute[real] = real
<1> DEFINE P == {real \in RealPath : lexical_absolute[real] = real}
<1>1. <<>> \in P
  BY lexicalDef, RealFacts
<1>2. ASSUME NEW real \in P \cap Seq(RealName), NEW name \in RealName
      PROVE  Append(real, name) \in P
  <2>1. /\ Append(real, name) \in RealPath /\ real \in Seq(Name) /\ real \in RealPath
        /\ name \in Name /\ name # "." /\ name # ".." /\ real # NoPath
    BY RealFacts, WorkspaceAssumption DEF RealPath, RealName
  <2>2. lexical_absolute[Append(real, name)] = Component(real, name)
    BY <2>1, lexicalDef
  <2> QED BY <2>1, <2>2 DEF Component
<1>3. Seq(RealName) \subseteq P
  <2> HIDE DEF P
  <2> QED BY <1>1, <1>2, SeqInduction
<1> QED BY <1>3 DEF RealPath

(* What a workspace is recorded by, typed again, collapses to itself and   *)
(* leads to a directory that stands for itself, which is what              *)
(* RegistryDocument assumes of Resolve; and as long as canonicalize        *)
(* answers, it is recorded by the same path again (workspace.rs,           *)
(* validate_workspace; main.rs, cmd_add).                                  *)
THEOREM IdentitiesAreStable ==
  \A given \in Typed, from \in Dirs :
      LET result == validate_workspace(given, from)
      IN  result # NoPath =>
              /\ lexical_absolute[result.identity] = result.identity
              /\ Opened[result.identity] \in Dirs
              /\ Opened[Opened[result.identity]] = Opened[result.identity]
              /\ resolves => canonical(result.identity) = result.identity
<1> SUFFICES ASSUME NEW given \in Typed, NEW from \in Dirs,
                    validate_workspace(given, from) # NoPath
             PROVE  LET result == validate_workspace(given, from)
                    IN  /\ lexical_absolute[result.identity] = result.identity
                        /\ Opened[result.identity] \in Dirs
                        /\ Opened[Opened[result.identity]] = Opened[result.identity]
                        /\ resolves => canonical(result.identity) = result.identity
  OBVIOUS
<1> DEFINE path == Absolute(given, from)
           host == lexical_absolute[path]
           identity == canonical(host)
<1>1. /\ IsDir(Opened[host]) /\ host # NoPath
      /\ validate_workspace(given, from) = [host |-> host, identity |-> identity]
  BY DEF validate_workspace
<1>2. Opened[host] \in Dirs /\ Opened[host] \in RealPath
  BY <1>1, WorkspaceAssumption DEF IsDir
<1>3. host \in RealPath
  BY <1>1, AbsoluteTyped, lexicalDef DEF Stack
<1>4. Opened[Opened[host]] = Opened[host] /\ lexical_absolute[Opened[host]] = Opened[host]
  BY <1>2, DirsAreThere, RealIsCollapsed
<1>5. lexical_absolute[host] = host
  BY <1>3, RealIsCollapsed
<1> HIDE DEF host, path
<1>6. identity = IF resolves THEN Opened[host] ELSE host
  BY DEF canonical
<1>7. canonical(identity) = IF resolves THEN Opened[identity] ELSE identity
  BY DEF canonical
<1> HIDE DEF identity
<1> QED BY <1>1, <1>2, <1>4, <1>5, <1>6, <1>7

\* A home that is plainly given is found where it was.
LEMMA FoundWhereGiven ==
  ASSUME NEW given \in Typed, NEW from \in Dirs, Plain(Absolute(given, from))
  PROVE  LET there == Opened[Absolute(given, from)]
             root  == normalise[Absolute(given, from)]
         IN  there # Nowhere \/ IsDir(Opened[root]) => Opened[root] = there
<1>1. SamePlace(Absolute(given, from))
  BY AbsoluteTyped, PlainPathsCollapse
<1> QED BY <1>1 DEF SamePlace

(* Whatever directories and links there are, the home is what the system   *)
(* finds at the path given (paths.rs, resolve and normalise).              *)
THEOREM HomesAreFound == WorkspaceTyped => HomeIsFound
<1> SUFFICES ASSUME typed \in Typed, typed # NoPath, cwd \in Dirs,
                    NEW other \in {[form |-> "blank"], [form |-> "rooted", path |-> cwd]},
                    NEW os_home \in OsHomes
             PROVE  /\ IsFound(NoPath, typed, os_home, cwd)
                    /\ typed.form # "blank" => IsFound(typed, other, os_home, cwd)
  BY DEF WorkspaceTyped, HomeIsFound
<1>1. \A from : typed.form = "rooted" => Absolute(typed, from) = Absolute(typed, cwd)
  BY DEF Absolute
<1>2. ASSUME os_home # NoPath
      PROVE Append(os_home.path, DEFAULT_HOME_DIR) = os_home.path \o <<DEFAULT_HOME_DIR>>
  BY <1>2, AppendIsConcat, WorkspaceAssumption DEF RealName
<1>3. IsFound(NoPath, typed, os_home, cwd)
  <2>1. CASE typed.form = "blank"
    BY <1>2, <2>1 DEF IsFound, resolve
  <2>2. CASE typed.form # "blank"
    <3>1. \A from : resolve(NoPath, typed, os_home, from) = normalise[Absolute(typed, from)]
      BY <2>2 DEF resolve
    <3> QED BY <1>1, <2>2, <3>1, FoundWhereGiven DEF IsFound
  <2> QED BY <2>1, <2>2
<1>4. ASSUME typed.form # "blank" PROVE IsFound(typed, other, os_home, cwd)
  <2>1. \A from : resolve(typed, other, os_home, from) = normalise[Absolute(typed, from)]
    BY DEF resolve
  <2> QED BY <1>1, <1>4, <2>1, FoundWhereGiven DEF IsFound
<1> QED BY <1>3, <1>4

-----------------------------------------------------------------------------
(* Widths.                                                                 *)

\* Widths of n columns are a sequence of n.
LEMMA FunctionIsSeq ==
  ASSUME NEW S, NEW n \in Nat, NEW f \in [1..n -> S]
  PROVE  f \in Seq(S) /\ Len(f) = n
<1>1. f \in Seq(S)
  BY SeqDef
<1>2. Len(f) \in Nat /\ 1..Len(f) = 1..n
  BY <1>1, LenProperties
<1>3. Len(f) = n
  <2>1. CASE n = 0
    BY <1>2, <2>1
  <2>2. CASE n # 0
    BY <1>2, <2>2
  <2> QED BY <2>1, <2>2
<1> QED BY <1>1, <1>3

\* Iterator::sum, by the last of the widths.
LEMMA TotalDef ==
  /\ Total \in [Seq(Nat) -> Nat]
  /\ Total[<<>>] = 0
  /\ \A s \in Seq(Nat) : s # <<>> => Total[s] = Total[Front(s)] + Last(s)
<1> DEFINE G == [a \in Nat \X Nat |-> a[1] + a[2]]
<1>1. G \in [Nat \X Nat -> Nat]
  OBVIOUS
<1>2. PICK f : IsFold(f, Nat, Nat, 0, G)
  <2> HIDE DEF G
  <2> QED BY <1>1, FoldExists
<1>3. f \in [Seq(Nat) -> Nat] /\ f[<<>>] = 0
  BY <1>2 DEF IsFold
<1>4. \A s \in Seq(Nat) : s # <<>> => f[s] = f[Front(s)] + Last(s)
  BY <1>2, <1>3, FrontLast DEF IsFold
<1>5. f = [s \in Seq(Nat) |-> IF s = <<>> THEN 0 ELSE f[Front(s)] + Last(s)]
  BY <1>3, <1>4
<1>6. Total = CHOOSE g : g = [s \in Seq(Nat) |-> IF s = <<>> THEN 0 ELSE g[Front(s)] + Last(s)]
  BY DEF Total
<1>7. Total = [s \in Seq(Nat) |-> IF s = <<>> THEN 0 ELSE Total[Front(s)] + Last(s)]
  BY <1>5, <1>6
<1>8. Total[<<>>] = 0 /\ \A s \in Seq(Nat) : s # <<>> => Total[s] = Total[Front(s)] + Last(s)
  BY <1>7, EmptySeq
<1>9. \A s \in Seq(Nat) : Total[s] \in Nat
  <2> DEFINE P == {s \in Seq(Nat) : Total[s] \in Nat}
  <2>1. <<>> \in P
    BY <1>8, EmptySeq
  <2>2. ASSUME NEW s \in P \cap Seq(Nat), NEW x \in Nat PROVE Append(s, x) \in P
    <3>1. /\ Append(s, x) \in Seq(Nat) /\ Append(s, x) # <<>>
          /\ Front(Append(s, x)) = s /\ Last(Append(s, x)) = x
      BY FrontOfAppend
    <3>2. Total[Append(s, x)] = Total[s] + x
      BY <1>8, <3>1
    <3> QED BY <3>1, <3>2
  <2>3. Seq(Nat) \subseteq P
    <3> HIDE DEF P
    <3> QED BY <2>1, <2>2, SeqInduction
  <2> QED BY <2>3
<1>10. Total = [s \in Seq(Nat) |-> Total[s]]
  BY <1>7
<1> HIDE <1>7
<1> QED BY <1>8, <1>9, <1>10


\* The totals of the first widths of a sequence.
IsSum(T, s) ==
    /\ T \in [0..Len(s) -> Nat]
    /\ T[0] = 0 /\ T[Len(s)] = Total[s]
    /\ \A i \in 1..Len(s) : T[i] = T[i - 1] + s[i]

LEMMA SumExists == \A s \in Seq(Nat) : \E T : IsSum(T, s)
<1> DEFINE P == {s \in Seq(Nat) : \E T : IsSum(T, s)}
<1>1. <<>> \in P
  <2>1. IsSum([i \in 0..0 |-> 0], <<>>)
    BY TotalDef, EmptySeq DEF IsSum
  <2> QED BY <2>1, EmptySeq
<1>2. ASSUME NEW s \in P \cap Seq(Nat), NEW x \in Nat PROVE Append(s, x) \in P
  <2>1. PICK T : IsSum(T, s)
    OBVIOUS
  <2>2. PICK n \in Nat : n = Len(s)
    BY LenProperties
  <2>3. PICK t : t = Append(s, x)
    OBVIOUS
  <2>4. /\ t \in Seq(Nat) /\ Len(t) = n + 1 /\ t[n + 1] = x
        /\ \A i \in 1..n : t[i] = s[i]
    BY <2>2, <2>3, AppendProperties
  <2>5. Total[t] = Total[s] + x /\ Total[s] \in Nat
    BY <2>3, FrontOfAppend, TotalDef
  <2>6. PICK U : U = [i \in 0..n + 1 |-> IF i = n + 1 THEN Total[s] + x ELSE T[i]]
    OBVIOUS
  <2>7. T \in [0..n -> Nat] /\ T[0] = 0 /\ T[n] = Total[s] /\ \A i \in 1..n : T[i] = T[i - 1] + s[i]
    BY <2>1, <2>2 DEF IsSum
  <2>8. U \in [0..n + 1 -> Nat] /\ U[n + 1] = Total[s] + x /\ \A i \in 0..n : U[i] = T[i]
    BY <2>5, <2>6, <2>7
  <2>9. ASSUME NEW i \in 1..n + 1 PROVE U[i] = U[i - 1] + t[i]
    <3>1. CASE i = n + 1
      BY <2>4, <2>7, <2>8, <3>1
    <3>2. CASE i \in 1..n
      <4>0. i \in 0..n /\ i - 1 \in 0..n
        BY <3>2
      <4>1. U[i] = T[i] /\ U[i - 1] = T[i - 1] /\ t[i] = s[i]
        BY <2>4, <2>8, <3>2, <4>0
      <4>2. T[i] = T[i - 1] + s[i]
        BY <2>7, <3>2
      <4> QED BY <4>1, <4>2
    <3> QED BY <3>1, <3>2
  <2>10. U[0] = 0
    BY <2>7, <2>8
  <2>11. IsSum(U, t)
    BY <2>4, <2>5, <2>8, <2>9, <2>10 DEF IsSum
  <2> QED BY <2>3, <2>4, <2>11
<1>3. Seq(Nat) \subseteq P
  <2> HIDE DEF P
  <2> QED BY <1>1, <1>2, SeqInduction
<1> QED BY <1>3

\* The total of sums is the sum of the totals.
LEMMA TotalOfSums ==
  ASSUME NEW r \in Seq(Nat), NEW s \in Seq(Nat), NEW t \in Seq(Nat),
         Len(r) = Len(t), Len(s) = Len(t),
         \A i \in 1..Len(t) : t[i] = r[i] + s[i]
  PROVE  Total[t] = Total[r] + Total[s]
<1>1. PICK n \in Nat : n = Len(t)
  BY LenProperties
<1>2. PICK A, B, C : IsSum(A, r) /\ IsSum(B, s) /\ IsSum(C, t)
  BY SumExists
<1>3. /\ A \in [0..n -> Nat] /\ B \in [0..n -> Nat] /\ C \in [0..n -> Nat]
      /\ A[0] = 0 /\ B[0] = 0 /\ C[0] = 0
      /\ A[n] = Total[r] /\ B[n] = Total[s] /\ C[n] = Total[t]
      /\ \A i \in 1..n : /\ A[i] = A[i - 1] + r[i]
                         /\ B[i] = B[i - 1] + s[i]
                         /\ C[i] = C[i - 1] + t[i]
      /\ \A i \in 1..n : r[i] \in Nat /\ s[i] \in Nat /\ t[i] = r[i] + s[i]
  BY <1>1, <1>2, ElementOfSeq DEF IsSum
<1> DEFINE P == {i \in Nat : i \in 0..n => C[i] = A[i] + B[i]}
<1>4. 0 \in P
  BY <1>3
<1>5. ASSUME NEW i \in P \cap Nat PROVE i + 1 \in P
  <2> SUFFICES ASSUME i + 1 \in 0..n PROVE C[i + 1] = A[i + 1] + B[i + 1]
    OBVIOUS
  <2>1. i + 1 \in 1..n /\ i \in 0..n /\ (i + 1) - 1 = i /\ C[i] = A[i] + B[i]
    OBVIOUS
  <2>2. PICK a \in Nat, b \in Nat, p \in Nat, q \in Nat :
           a = A[i] /\ b = B[i] /\ p = r[i + 1] /\ q = s[i + 1]
    BY <1>3, <2>1
  <2>3. A[i + 1] = a + p /\ B[i + 1] = b + q /\ C[i + 1] = (a + b) + (p + q)
    BY <1>3, <2>1, <2>2
  <2>4. (a + b) + (p + q) = (a + p) + (b + q)
    OBVIOUS
  <2> HIDE DEF P
  <2> QED BY <2>3, <2>4
<1>6. Nat \subseteq P
  <2> HIDE DEF P
  <2> QED BY <1>4, <1>5, Induction
<1>7. C[n] = A[n] + B[n]
  BY <1>6
<1> QED BY <1>3, <1>7

\* A character more for one column is one more in all.
LEMMA TotalOfMore ==
  ASSUME NEW s \in Seq(Nat), NEW t \in Seq(Nat), NEW k \in 1..Len(s),
         Len(s) = Len(t), t[k] = s[k] + 1,
         \A i \in 1..Len(s) : i # k => t[i] = s[i]
  PROVE  Total[t] = Total[s] + 1
<1>1. PICK n \in Nat : n = Len(s)
  BY LenProperties
<1>2. PICK A, B : IsSum(A, s) /\ IsSum(B, t)
  BY SumExists
<1>3. /\ A \in [0..n -> Nat] /\ B \in [0..n -> Nat]
      /\ A[0] = 0 /\ B[0] = 0 /\ A[n] = Total[s] /\ B[n] = Total[t]
      /\ \A i \in 1..n : A[i] = A[i - 1] + s[i] /\ B[i] = B[i - 1] + t[i]
      /\ \A i \in 1..n : s[i] \in Nat
      /\ k \in 1..n
  BY <1>1, <1>2, ElementOfSeq DEF IsSum
<1>4. \A i \in 1..n : t[i] = IF i = k THEN s[i] + 1 ELSE s[i]
  BY <1>1
<1> DEFINE P == {i \in Nat : i \in 0..n => B[i] = IF i < k THEN A[i] ELSE A[i] + 1}
<1>5. 0 \in P
  BY <1>3
<1>6. ASSUME NEW i \in P \cap Nat PROVE i + 1 \in P
  <2> SUFFICES ASSUME i + 1 \in 0..n
               PROVE  B[i + 1] = IF i + 1 < k THEN A[i + 1] ELSE A[i + 1] + 1
    OBVIOUS
  <2>1. /\ i + 1 \in 1..n /\ i \in 0..n /\ (i + 1) - 1 = i
        /\ B[i] = IF i < k THEN A[i] ELSE A[i] + 1
    OBVIOUS
  <2>2. PICK a \in Nat, p \in Nat : a = A[i] /\ p = s[i + 1]
    BY <1>3, <2>1
  <2>3. A[i + 1] = a + p /\ B[i + 1] = B[i] + t[i + 1]
    BY <1>3, <2>1, <2>2
  <2>4. t[i + 1] = IF i + 1 = k THEN p + 1 ELSE p
    BY <1>4, <2>1, <2>2
  <2>5. B[i] = IF i < k THEN a ELSE a + 1
    BY <2>1, <2>2
  <2>6. k \in Nat
    BY <1>3
  <2> HIDE DEF P
  <2>7. CASE i + 1 < k
    <3>1. B[i] = a /\ t[i + 1] = p
      BY <2>4, <2>5, <2>6, <2>7
    <3> QED BY <2>3, <2>7, <3>1
  <2>8. CASE i + 1 = k
    <3>1. B[i] = a /\ t[i + 1] = p + 1
      BY <2>4, <2>5, <2>6, <2>8
    <3>2. B[i + 1] = (a + p) + 1
      BY <2>3, <3>1
    <3> QED BY <2>3, <2>8, <3>2
  <2>9. CASE i + 1 > k
    <3>1. B[i] = a + 1 /\ t[i + 1] = p
      BY <2>4, <2>5, <2>6, <2>9
    <3>2. B[i + 1] = (a + p) + 1
      BY <2>3, <3>1
    <3> QED BY <2>3, <2>6, <2>9, <3>2
  <2> QED BY <2>6, <2>7, <2>8, <2>9
<1>7. Nat \subseteq P
  <2> HIDE DEF P
  <2> QED BY <1>5, <1>6, Induction
<1>8. B[n] = A[n] + 1
  <2>1. B[n] = IF n < k THEN A[n] ELSE A[n] + 1
    BY <1>7
  <2>2. ~(n < k)
    BY <1>3
  <2> QED BY <2>1, <2>2
<1> QED BY <1>3, <1>8

\* No width is more than the total.
LEMMA TotalBounds ==
  ASSUME NEW s \in Seq(Nat), NEW k \in 1..Len(s)
  PROVE  s[k] <= Total[s]
<1>1. PICK n \in Nat : n = Len(s)
  BY LenProperties
<1>2. PICK A : IsSum(A, s)
  BY SumExists
<1>3. /\ A \in [0..n -> Nat] /\ A[0] = 0 /\ A[n] = Total[s]
      /\ \A i \in 1..n : A[i] = A[i - 1] + s[i]
      /\ \A i \in 1..n : s[i] \in Nat
      /\ k \in 1..n
  BY <1>1, <1>2, ElementOfSeq DEF IsSum
<1> DEFINE P == {i \in Nat : i \in k..n => s[k] <= A[i]}
<1>4. 0 \in P
  BY <1>3
<1>5. ASSUME NEW i \in P \cap Nat PROVE i + 1 \in P
  <2> SUFFICES ASSUME i + 1 \in k..n PROVE s[k] <= A[i + 1]
    OBVIOUS
  <2>1. i + 1 \in 1..n /\ i \in 0..n /\ (i + 1) - 1 = i
    BY <1>3
  <2>2. A[i] \in Nat /\ s[i + 1] \in Nat /\ A[i + 1] = A[i] + s[i + 1]
    BY <1>3, <2>1
  <2>3. i + 1 = k \/ s[k] <= A[i]
    BY <1>3
  <2>4. s[k] \in Nat
    BY <1>3
  <2> HIDE DEF P
  <2>5. CASE i + 1 = k
    BY <2>2, <2>5
  <2>6. CASE s[k] <= A[i]
    BY <2>2, <2>4, <2>6
  <2> QED BY <2>3, <2>5, <2>6
<1>6. Nat \subseteq P
  <2> HIDE DEF P
  <2> QED BY <1>4, <1>5, Induction
<1>7. s[k] <= A[n]
  BY <1>3, <1>6
<1> QED BY <1>3, <1>7

LEMMA ScaledSum ==
  ASSUME NEW B \in Nat, NEW W \in Nat, NEW p \in Nat, NEW q \in Nat, NEW u \in Nat, NEW v \in Nat,
         W * p <= B * u, W * q <= B * v
  PROVE  W * (p + q) <= B * (u + v)
  OBVIOUS

\* Shares in proportion to weights are within the budget.
LEMMA TotalOfShares ==
  ASSUME NEW B \in Nat, NEW W \in Nat, NEW s \in Seq(Nat), NEW w \in Seq(Nat),
         Len(s) = Len(w), \A i \in 1..Len(w) : W * s[i] <= B * w[i]
  PROVE  W * Total[s] <= B * Total[w]
<1>1. PICK n \in Nat : n = Len(s)
  BY LenProperties
<1>2. PICK A, C : IsSum(A, s) /\ IsSum(C, w)
  BY SumExists
<1>3. /\ A \in [0..n -> Nat] /\ C \in [0..n -> Nat]
      /\ A[0] = 0 /\ C[0] = 0 /\ A[n] = Total[s] /\ C[n] = Total[w]
      /\ \A i \in 1..n : A[i] = A[i - 1] + s[i] /\ C[i] = C[i - 1] + w[i]
      /\ \A i \in 1..n : s[i] \in Nat /\ w[i] \in Nat
  BY <1>1, <1>2, ElementOfSeq DEF IsSum
<1>4. \A i \in 1..n : W * s[i] <= B * w[i]
  BY <1>1
<1> DEFINE P == {i \in Nat : i \in 0..n => W * A[i] <= B * C[i]}
<1>5. 0 \in P
  BY <1>3
<1>6. ASSUME NEW i \in P \cap Nat PROVE i + 1 \in P
  <2> SUFFICES ASSUME i + 1 \in 0..n PROVE W * A[i + 1] <= B * C[i + 1]
    OBVIOUS
  <2>1. i + 1 \in 1..n /\ i \in 0..n /\ (i + 1) - 1 = i
    OBVIOUS
  <2>2. W * A[i] <= B * C[i]
    BY <2>1
  <2>3. PICK p \in Nat, q \in Nat, u \in Nat, v \in Nat :
           p = A[i] /\ q = s[i + 1] /\ u = C[i] /\ v = w[i + 1]
    BY <1>3, <2>1
  <2>4. A[i + 1] = p + q /\ C[i + 1] = u + v
    BY <1>3, <2>1, <2>3
  <2>5. W * p <= B * u /\ W * q <= B * v
    BY <1>4, <2>1, <2>2, <2>3
  <2>6. W * (p + q) <= B * (u + v)
    BY <2>5, ScaledSum
  <2> HIDE DEF P
  <2> QED BY <2>4, <2>6
<1>7. Nat \subseteq P
  <2> HIDE DEF P
  <2> QED BY <1>5, <1>6, Induction
<1>8. W * A[n] <= B * C[n]
  BY <1>7
<1> QED BY <1>3, <1>8

\* The arithmetic of shares.
LEMMA Quotient ==
  ASSUME NEW x \in Nat, NEW w \in Nat \ {0}
  PROVE  x \div w \in Nat /\ w * (x \div w) <= x
  OBVIOUS

LEMMA ScaledLess ==
  ASSUME NEW w \in Nat, NEW a \in Nat, NEW b \in Nat, a <= b
  PROVE  w * a <= w * b
  OBVIOUS

LEMMA ScaledMore ==
  ASSUME NEW w \in Nat \ {0}, NEW a \in Nat, NEW b \in Nat, w * a <= b * w
  PROVE  a <= b
<1>1. CASE b < a
  <2>1. PICK c \in Nat : a = b + c /\ c > 0
    <3>1. a - b \in Nat /\ a = b + (a - b) /\ a - b > 0
      BY <1>1
    <3> QED BY <3>1
  <2>2. w * c > 0
    BY <2>1
  <2>3. w * a = w * b + w * c /\ w * b = b * w /\ b * w \in Nat /\ w * c \in Nat
    BY <2>1
  <2> QED BY <2>2, <2>3
<1> QED BY <1>1

\* The columns of a table, and what each needs.
LEMMA ColumnFacts ==
  ASSUME NEW t \in Tables
  PROVE  /\ t.terminal \in Nat
         /\ Len(t.header) \in Nat /\ Columns(t) = 1..Len(t.header)
         /\ t.cell = [i \in Columns(t) |-> t.cell[i]]
         /\ DOMAIN t.flex \subseteq Columns(t)
         /\ \A i \in Columns(t) :
               /\ t.header[i] \in Nat /\ t.cell[i] \in Nat
               /\ natural(t)[i] = Most(t.header[i], t.cell[i])
               /\ natural(t)[i] \in Nat /\ t.header[i] <= natural(t)[i]
               /\ Contends(t, i) <=> i \in DOMAIN t.flex
         /\ natural(t) \in Seq(Nat) /\ Len(natural(t)) = Len(t.header)
<1>0. TableAssumption
  BY TableAssumption
<1>1. /\ t.terminal \in Nat
      /\ t.header \in Seq(Nat) /\ t.cell \in Seq(Nat) /\ Len(t.cell) = Len(t.header)
      /\ DOMAIN t.flex \subseteq DOMAIN t.header
      /\ \A i \in DOMAIN t.flex : t.flex[i] \in Nat \ {0} /\ t.header[i] > 0
  BY TableAssumption
<1>2. /\ Len(t.header) \in Nat /\ Columns(t) = 1..Len(t.header)
      /\ DOMAIN t.header = 1..Len(t.header) /\ DOMAIN t.cell = 1..Len(t.header)
  BY <1>1, LenProperties DEF Columns
<1>3. ASSUME NEW i \in Columns(t)
      PROVE  /\ t.header[i] \in Nat /\ t.cell[i] \in Nat
             /\ natural(t)[i] = Most(t.header[i], t.cell[i])
             /\ natural(t)[i] \in Nat /\ t.header[i] <= natural(t)[i]
  <2>1. t.header[i] \in Nat /\ t.cell[i] \in Nat
    BY <1>1, <1>2, ElementOfSeq
  <2>2. natural(t)[i] = Most(t.header[i], t.cell[i])
    BY DEF natural
  <2> QED BY <2>1, <2>2 DEF Most
<1>4. ASSUME NEW i \in Columns(t) PROVE Contends(t, i) <=> i \in DOMAIN t.flex
  <2>1. ASSUME i \in DOMAIN t.flex PROVE t.flex[i] > 0 /\ natural(t)[i] > 0
    <3>1. t.flex[i] \in Nat \ {0} /\ t.header[i] > 0
      BY <1>1, <2>1
    <3> QED BY <1>3, <3>1
  <2> QED BY <2>1 DEF Contends
<1>5. natural(t) \in [1..Len(t.header) -> Nat]
  <2>1. natural(t) = [i \in Columns(t) |-> natural(t)[i]]
    BY DEF natural
  <2> QED BY <1>2, <1>3, <2>1
<1>6. natural(t) \in Seq(Nat) /\ Len(natural(t)) = Len(t.header)
  BY <1>2, <1>5, FunctionIsSeq
<1>7. t.cell = [i \in Columns(t) |-> t.cell[i]]
  <2>1. t.cell \in [1..Len(t.cell) -> Nat]
    BY <1>1, LenProperties
  <2> QED BY <1>1, <1>2, <2>1
<1>8. DOMAIN t.flex \subseteq Columns(t)
  BY <1>1 DEF Columns
<1> QED BY <1>1, <1>2, <1>3, <1>4, <1>6, <1>7, <1>8

\* What a column that contends would like is its header and the surplus.
LEMMA ContenderFacts ==
  ASSUME NEW t \in Tables, NEW i \in Columns(t), Contends(t, i)
  PROVE  /\ i \in DOMAIN t.flex /\ t.header[i] \in Nat \ {0}
         /\ want(t, i) \in Nat /\ want(t, i) <= natural(t)[i]
         /\ surplus(t, i) \in Nat /\ want(t, i) = t.header[i] + surplus(t, i)
<1>1. i \in DOMAIN t.flex
  BY DEF Contends
<1>2. t.flex[i] \in Nat /\ t.header[i] > 0
  BY <1>1, TableAssumption
<1>3. t.header[i] \in Nat /\ natural(t)[i] \in Nat /\ t.header[i] <= natural(t)[i]
  BY ColumnFacts
<1>4. want(t, i) = Least(natural(t)[i], t.header[i] + t.flex[i])
  BY DEF want
<1>5. surplus(t, i) = Less(want(t, i), t.header[i])
  BY DEF surplus
<1>6. want(t, i) \in Nat /\ want(t, i) <= natural(t)[i] /\ t.header[i] <= want(t, i)
  BY <1>2, <1>3, <1>4 DEF Least
<1>7. surplus(t, i) \in Nat /\ want(t, i) = t.header[i] + surplus(t, i)
  BY <1>3, <1>5, <1>6 DEF Less
<1> QED BY <1>1, <1>2, <1>3, <1>6, <1>7

\* What the columns cost before the budget is shared out.
Kept(t) == [i \in Columns(t) |-> reserved(t, i)]

LEMMA ReservedFacts ==
  ASSUME NEW t \in Tables
  PROVE  /\ Kept(t) \in Seq(Nat) /\ Len(Kept(t)) = Len(t.header)
         /\ Breadth(Kept(t)) \in Nat
         /\ budget(t) \in Nat /\ budget(t) = Less(t.terminal, Breadth(Kept(t)))
<1>1. /\ t.terminal \in Nat
      /\ Len(t.header) \in Nat /\ Columns(t) = 1..Len(t.header)
      /\ \A i \in Columns(t) : t.header[i] \in Nat /\ natural(t)[i] \in Nat
  BY ColumnFacts
<1>2. Kept(t) \in [1..Len(t.header) -> Nat]
  BY <1>1 DEF Kept, reserved
<1>3. Kept(t) \in Seq(Nat) /\ Len(Kept(t)) = Len(t.header)
  BY <1>1, <1>2, FunctionIsSeq
<1>4. Total[Kept(t)] \in Nat
  BY <1>3, TotalDef
<1>5. 3 * Less(Len(Kept(t)), 1) \in Nat
  BY <1>1, <1>3 DEF Less
<1>6. Breadth(Kept(t)) \in Nat
  BY <1>4, <1>5 DEF Breadth
<1>7. budget(t) = Less(t.terminal, Breadth(Kept(t)))
  BY DEF budget, Kept
<1>8. budget(t) \in Nat
  BY <1>1, <1>6, <1>7 DEF Less
<1> QED BY <1>3, <1>6, <1>7, <1>8

\* Each contender has a weight.
LEMMA WeightFacts ==
  ASSUME NEW t \in Tables
  PROVE  /\ weight(t) \in Seq(Nat) /\ Len(weight(t)) = Len(t.header)
         /\ \A i \in contenders(t) : weight(t)[i] > 0
<1>1. /\ Len(t.header) \in Nat /\ Columns(t) = 1..Len(t.header)
  BY ColumnFacts
<1>2. \A i \in Columns(t) : Contends(t, i) => want(t, i) \in Nat \ {0}
  BY ContenderFacts
<1> DEFINE demand == [i \in Columns(t) |-> IF Contends(t, i) THEN want(t, i) ELSE 0]
           count  == Most(Cardinality(contenders(t)), 1)
<1>3. Total[demand] \in Nat
  <2>1. demand \in [1..Len(t.header) -> Nat]
    BY <1>1, <1>2
  <2>2. demand \in Seq(Nat)
    BY <1>1, <2>1, FunctionIsSeq
  <2> QED BY <2>2, TotalDef
<1>4. count \in Nat \ {0}
  <2>1. contenders(t) \subseteq 1..Len(t.header) /\ IsFiniteSet(1..Len(t.header))
    BY <1>1, FS_Interval DEF contenders
  <2>2. Cardinality(contenders(t)) \in Nat
    BY <2>1, FS_Subset, FS_CardinalityType
  <2> QED BY <2>2 DEF Most
<1>5. even(t) \in Nat
  <2>1. PICK d \in Nat, c \in Nat \ {0} : d = Total[demand] /\ c = count
    BY <1>3, <1>4
  <2>2. even(t) = (d + c - 1) \div c
    BY <2>1 DEF even
  <2>3. d + c - 1 \in Nat
    BY <2>1
  <2> QED BY <2>2, <2>3, Quotient
<1>6. \A i \in Columns(t) :
          weight(t)[i] = IF Contends(t, i) THEN Most(want(t, i), even(t)) ELSE 0
  BY DEF weight
<1>7. \A i \in Columns(t) : weight(t)[i] \in Nat /\ (Contends(t, i) => weight(t)[i] > 0)
  BY <1>2, <1>5, <1>6 DEF Most
<1>8. weight(t) \in [1..Len(t.header) -> Nat]
  <2>1. weight(t) = [i \in Columns(t) |-> weight(t)[i]]
    BY DEF weight
  <2> QED BY <1>1, <1>7, <2>1
<1>9. weight(t) \in Seq(Nat) /\ Len(weight(t)) = Len(t.header)
  BY <1>1, <1>8, FunctionIsSeq
<1> QED BY <1>7, <1>9 DEF contenders

\* The shares are within the budget, and none is more than is wanted.
LEMMA ShareFacts ==
  ASSUME NEW t \in Tables, contenders(t) # {}
  PROVE  /\ shares(t) \in Seq(Nat) /\ Len(shares(t)) = Len(t.header)
         /\ Total[shares(t)] <= budget(t)
         /\ \A i \in Columns(t) :
               shares(t)[i] <= IF Contends(t, i) THEN surplus(t, i) ELSE 0
<1>1. /\ Len(t.header) \in Nat /\ Columns(t) = 1..Len(t.header)
  BY ColumnFacts
<1>2. /\ weight(t) \in Seq(Nat) /\ Len(weight(t)) = Len(t.header)
      /\ \A i \in contenders(t) : weight(t)[i] > 0
  BY WeightFacts
<1>3. \A i \in Columns(t) : weight(t)[i] \in Nat
  BY <1>1, <1>2, ElementOfSeq
<1>4. PICK W \in Nat \ {0} : W = Total[weight(t)]
  <2>1. PICK k \in Columns(t) : k \in contenders(t)
    BY DEF contenders
  <2>2. weight(t)[k] <= Total[weight(t)] /\ Total[weight(t)] \in Nat
    BY <1>1, <1>2, TotalBounds, TotalDef
  <2>3. weight(t)[k] \in Nat /\ weight(t)[k] > 0
    BY <1>2, <1>3, <2>1
  <2>4. Total[weight(t)] \in Nat \ {0}
    BY <2>2, <2>3
  <2> QED BY <2>4
<1>5. PICK B \in Nat : B = budget(t)
  BY ReservedFacts
<1>6. ASSUME NEW i \in Columns(t)
      PROVE  /\ shares(t)[i] \in Nat
             /\ W * shares(t)[i] <= B * weight(t)[i]
             /\ shares(t)[i] <= IF Contends(t, i) THEN surplus(t, i) ELSE 0
  <2>1. shares(t)[i] = IF Contends(t, i)
                       THEN Least((B * weight(t)[i]) \div W, surplus(t, i)) ELSE 0
    BY <1>4, <1>5 DEF shares
  <2>2. PICK w \in Nat : w = weight(t)[i]
    BY <1>3
  <2>3. B * w \in Nat
    OBVIOUS
  <2>4. CASE Contends(t, i)
    <3>1. PICK q \in Nat : q = (B * w) \div W /\ W * q <= B * w
      BY <2>3, Quotient
    <3>2. PICK s \in Nat : s = surplus(t, i)
      BY <2>4, ContenderFacts
    <3>3. shares(t)[i] = Least(q, s)
      BY <2>1, <2>2, <2>4, <3>1, <3>2
    <3>4. PICK m \in Nat : m = Least(q, s) /\ m <= q /\ m <= s
      BY DEF Least
    <3>5. W * m <= W * q
      BY <3>4, ScaledLess
    <3>6. W * m <= B * w
      <4>1. W * m \in Nat /\ W * q \in Nat
        OBVIOUS
      <4> QED BY <2>3, <3>1, <3>5, <4>1
    <3> QED BY <2>2, <2>4, <3>2, <3>3, <3>4, <3>6
  <2>5. CASE ~Contends(t, i)
    <3>1. shares(t)[i] = 0
      BY <2>1, <2>5
    <3>2. W * 0 = 0 /\ 0 <= B * w
      BY <2>3
    <3> QED BY <2>2, <2>5, <3>1, <3>2
  <2> QED BY <2>4, <2>5
<1>7. shares(t) \in [1..Len(t.header) -> Nat]
  <2>1. shares(t) = [i \in Columns(t) |-> shares(t)[i]]
    BY DEF shares
  <2> QED BY <1>1, <1>6, <2>1
<1>8. shares(t) \in Seq(Nat) /\ Len(shares(t)) = Len(t.header)
  BY <1>1, <1>7, FunctionIsSeq
<1>9. W * Total[shares(t)] <= B * W
  BY <1>1, <1>2, <1>4, <1>6, <1>8, TotalOfShares
<1>10. Total[shares(t)] <= B
  <2>1. Total[shares(t)] \in Nat
    BY <1>8, TotalDef
  <2> QED BY <1>9, <2>1, ScaledMore
<1> QED BY <1>5, <1>6, <1>8, <1>10

TableTyped ==
    /\ table \in Tables
    /\ caps \in Seq(Nat) /\ Len(caps) = Len(table.header)
    /\ left \in Nat
    /\ waiting \subseteq contenders(table)
    /\ gave \in BOOLEAN
    /\ phase \in {"measure", "round", "done"}

\* The column has all that it would like.
Full(i) == caps[i] = surplus(table, i)

(* What is granted and what is left make up the budget, and nothing is     *)
(* granted that is not wanted.                                             *)
Handed ==
    /\ Total[caps] + left = budget(table)
    /\ \A i \in Columns(table) :
          caps[i] <= IF Contends(table, i) THEN surplus(table, i) ELSE 0

(* A round that has given nothing so far has only met columns that are     *)
(* full, so that one which stops has nothing left or has filled them all.  *)
TableInv ==
    /\ TableTyped
    /\ phase = "round" => ~AsItIs(table)
    /\ phase # "measure" /\ ~AsItIs(table) => Handed
    /\ phase = "round" /\ ~gave => \A i \in contenders(table) \ waiting : Full(i)
    /\ phase = "done" /\ ~AsItIs(table) => left = 0 \/ \A i \in contenders(table) : Full(i)

LEMMA TableInitInv == TableInit => TableInv
<1> SUFFICES ASSUME TableInit PROVE TableInv
  OBVIOUS
<1>1. table \in Tables /\ phase = "measure" /\ left = 0 /\ waiting = {} /\ gave = FALSE
  BY DEF TableInit
<1>2. Len(table.header) \in Nat /\ DOMAIN table.header = 1..Len(table.header)
  BY <1>1, ColumnFacts DEF Columns
<1>3. caps \in [1..Len(table.header) -> Nat]
  BY <1>2 DEF TableInit
<1>4. caps \in Seq(Nat) /\ Len(caps) = Len(table.header)
  BY <1>2, <1>3, FunctionIsSeq
<1> QED BY <1>1, <1>4 DEF TableInv, TableTyped

LEMMA TableNextInv == TableInv /\ [TableNext]_tableVars => TableInv'
<1> SUFFICES ASSUME TableInv, [TableNext]_tableVars PROVE TableInv'
  OBVIOUS
<1>0. TableTyped
  BY DEF TableInv
<1>1. CASE Show
  BY <1>0, <1>1 DEF Show, TableInv, TableTyped
<1>2. CASE Share
  <2>1. /\ caps' = shares(table) /\ left' = Less(budget(table), Total[shares(table)])
        /\ waiting' = contenders(table) /\ gave' = FALSE /\ phase' = "round"
        /\ table' = table /\ ~AsItIs(table)
    BY <1>2 DEF Share
  <2>2. table \in Tables /\ contenders(table) # {}
    BY <1>0, <2>1 DEF TableTyped, AsItIs
  <2>3. /\ shares(table) \in Seq(Nat) /\ Len(shares(table)) = Len(table.header)
        /\ Total[shares(table)] <= budget(table)
        /\ \A i \in Columns(table) :
              shares(table)[i] <= IF Contends(table, i) THEN surplus(table, i) ELSE 0
    BY <2>2, ShareFacts
  <2>4. Total[shares(table)] \in Nat /\ budget(table) \in Nat
    BY <2>2, <2>3, TotalDef, ReservedFacts
  <2>5. left' \in Nat /\ Total[caps'] + left' = budget(table)
    BY <2>1, <2>3, <2>4 DEF Less
  <2>6. TableTyped'
    BY <1>0, <2>1, <2>3, <2>5 DEF TableTyped
  <2>7. Handed'
    BY <2>1, <2>3, <2>5 DEF Handed
  <2> QED BY <2>1, <2>6, <2>7 DEF TableInv
<1>3. CASE HandBack
  <2>1. /\ phase = "round" /\ left > 0 /\ phase' = phase /\ table' = table
        /\ ~AsItIs(table) /\ Handed
    BY <1>3 DEF HandBack, TableInv
  <2>2. PICK i \in waiting :
            /\ waiting' = waiting \ {i}
            /\ IF caps[i] < surplus(table, i)
               THEN caps' = [caps EXCEPT ![i] = @ + 1] /\ left' = left - 1 /\ gave' = TRUE
               ELSE UNCHANGED <<caps, left, gave>>
    BY <1>3 DEF HandBack
  <2>3. /\ table \in Tables /\ i \in contenders(table) /\ i \in Columns(table)
        /\ Contends(table, i)
    BY <1>0 DEF TableTyped, contenders
  <2>4. caps \in Seq(Nat) /\ Len(caps) = Len(table.header) /\ Columns(table) = 1..Len(caps)
    BY <1>0, <2>3, ColumnFacts DEF TableTyped
  <2>5. caps[i] \in Nat /\ surplus(table, i) \in Nat /\ caps[i] <= surplus(table, i)
    BY <2>1, <2>3, <2>4, ElementOfSeq, ContenderFacts DEF Handed
  <2>6. CASE caps[i] < surplus(table, i)
    <3>1. caps' = [caps EXCEPT ![i] = @ + 1] /\ left' = left - 1 /\ gave' = TRUE
      BY <2>2, <2>6
    <3>2. caps' \in Seq(Nat) /\ Len(caps') = Len(caps)
      <4>1. caps \in [1..Len(caps) -> Nat] /\ Len(caps) \in Nat
        BY <2>4, LenProperties
      <4>2. caps' \in [1..Len(caps) -> Nat]
        BY <2>3, <2>4, <2>5, <3>1, <4>1
      <4> QED BY <4>1, <4>2, FunctionIsSeq
    <3>3. caps'[i] = caps[i] + 1 /\ \A j \in Columns(table) : j # i => caps'[j] = caps[j]
      <4>1. DOMAIN caps = 1..Len(caps)
        BY <2>4, LenProperties
      <4> QED BY <2>3, <2>4, <3>1, <4>1
    <3>4. Total[caps'] = Total[caps] + 1
      BY <2>3, <2>4, <3>2, <3>3, TotalOfMore
    <3>5. left' \in Nat /\ Total[caps'] + left' = budget(table)
      <4>1. left \in Nat /\ left > 0 /\ Total[caps] \in Nat /\ Total[caps] + left = budget(table)
        BY <1>0, <2>1, <2>4, TotalDef DEF TableTyped, Handed
      <4> QED BY <3>1, <3>4, <4>1
    <3>6. \A j \in Columns(table) :
              caps'[j] <= IF Contends(table, j) THEN surplus(table, j) ELSE 0
      <4> SUFFICES ASSUME NEW j \in Columns(table)
                   PROVE caps'[j] <= IF Contends(table, j) THEN surplus(table, j) ELSE 0
        OBVIOUS
      <4>1. CASE j = i
        BY <2>3, <2>5, <2>6, <3>3, <4>1
      <4>2. CASE j # i
        BY <2>1, <3>3, <4>2 DEF Handed
      <4> QED BY <4>1, <4>2
    <3>7. Handed'
      BY <2>1, <3>5, <3>6 DEF Handed
    <3>8. TableTyped'
      BY <1>0, <2>1, <2>2, <2>4, <3>1, <3>2, <3>5 DEF TableTyped
    <3> QED BY <2>1, <3>1, <3>7, <3>8 DEF TableInv
  <2>7. CASE ~(caps[i] < surplus(table, i))
    <3>1. UNCHANGED <<caps, left, gave>> /\ caps[i] = surplus(table, i)
      BY <2>2, <2>5, <2>7
    <3>2. TableTyped'
      BY <1>0, <2>1, <2>2, <3>1 DEF TableTyped
    <3>3. Handed'
      BY <2>1, <3>1 DEF Handed
    <3>4. ~gave => \A j \in contenders(table) \ waiting' : Full(j)'
      BY <2>1, <2>2, <3>1 DEF TableInv, Full
    <3> QED BY <2>1, <3>1, <3>2, <3>3, <3>4 DEF TableInv
  <2> QED BY <2>6, <2>7
<1>4. CASE NextRound
  BY <1>0, <1>4 DEF NextRound, TableInv, TableTyped, Handed
<1>5. CASE Enough
  <2>1. /\ phase = "round" /\ (left = 0 \/ (waiting = {} /\ ~gave)) /\ phase' = "done"
        /\ UNCHANGED <<table, caps, left, waiting, gave>>
    BY <1>5 DEF Enough
  <2>2. left = 0 \/ \A i \in contenders(table) : Full(i)
    BY <2>1 DEF TableInv
  <2>3. TableTyped' /\ Handed'
    BY <1>0, <2>1 DEF TableInv, TableTyped, Handed
  <2> QED BY <2>1, <2>2, <2>3 DEF TableInv, Full
<1>6. CASE UNCHANGED tableVars
  BY <1>0, <1>6 DEF tableVars, TableInv, TableTyped, Handed, Full
<1> QED BY <1>1, <1>2, <1>3, <1>4, <1>5, <1>6 DEF TableNext

\* A column is printed as wide as its reserve and what it was granted.
LEMMA RenderedWidth ==
  ASSUME TableTyped, Handed, ~AsItIs(table), NEW i \in Columns(table)
  PROVE  /\ caps[i] \in Nat
         /\ Rendered(table, values)[i] = Kept(table)[i] + caps[i]
         /\ i \notin DOMAIN table.flex => values[i] = table.cell[i]
<1>1. /\ table \in Tables /\ caps[i] \in Nat
      /\ table.header[i] \in Nat /\ table.cell[i] \in Nat
      /\ natural(table)[i] = Most(table.header[i], table.cell[i])
      /\ Contends(table, i) <=> i \in DOMAIN table.flex
  <2>1. table \in Tables /\ caps \in Seq(Nat) /\ Columns(table) = 1..Len(caps)
    BY ColumnFacts DEF TableTyped
  <2> QED BY <2>1, ColumnFacts, ElementOfSeq
<1>2. /\ values[i] = truncate(table.cell[i], limit(table, i))
      /\ Rendered(table, values)[i] = Most(table.header[i], values[i])
      /\ Kept(table)[i] = IF i \in DOMAIN table.flex
                              THEN table.header[i] ELSE natural(table)[i]
  BY DEF values, Rendered, Kept, reserved
<1>3. CASE i \in DOMAIN table.flex
  <2>1. /\ want(table, i) \in Nat /\ want(table, i) <= natural(table)[i]
        /\ want(table, i) = table.header[i] + surplus(table, i)
        /\ surplus(table, i) \in Nat /\ caps[i] <= surplus(table, i)
        /\ table.header[i] > 0
    BY <1>1, <1>3, ContenderFacts DEF Handed
  <2>2. limit(table, i) = caps[i] + table.header[i]
    BY <1>1, <1>3 DEF limit
  <2>3. values[i] = Least(table.cell[i], caps[i] + table.header[i])
    BY <1>1, <1>2, <2>1, <2>2 DEF truncate, NoCap
  <2>4. caps[i] + table.header[i] <= Most(table.header[i], table.cell[i])
    <3>1. PICK c \in Nat, h \in Nat, s \in Nat, w \in Nat, m \in Nat :
             /\ c = caps[i] /\ h = table.header[i] /\ s = surplus(table, i)
             /\ w = want(table, i) /\ m = natural(table)[i]
      BY <1>1, <2>1, ColumnFacts
    <3>2. c <= s /\ w = h + s /\ w <= m
      BY <2>1, <3>1
    <3>3. c + h <= m
      BY <3>2
    <3> QED BY <1>1, <3>1, <3>3
  <2>5. Most(table.header[i], values[i]) = table.header[i] + caps[i]
    BY <1>1, <2>3, <2>4 DEF Most, Least
  <2> QED BY <1>1, <1>2, <1>3, <2>5
<1>4. CASE i \notin DOMAIN table.flex
  <2>1. caps[i] = 0
    BY <1>1, <1>4 DEF Handed
  <2>2. limit(table, i) = natural(table)[i]
    BY <1>1, <1>4 DEF limit
  <2>3. values[i] = table.cell[i]
    BY <1>1, <1>2, <2>2 DEF truncate, NoCap, Least, Most
  <2>4. natural(table)[i] \in Nat
    BY <1>1 DEF Most
  <2> QED BY <1>1, <1>2, <1>4, <2>1, <2>3, <2>4
<1> QED BY <1>3, <1>4

LEMMA FittedWhenCut ==
  ASSUME TableTyped, Handed, ~AsItIs(table),
         left = 0 \/ \A i \in contenders(table) : Full(i)
  PROVE  IsFitted(table, values)
<1>1. /\ table \in Tables /\ caps \in Seq(Nat) /\ left \in Nat
      /\ Len(caps) = Len(table.header) /\ Len(caps) \in Nat
      /\ Columns(table) = 1..Len(caps) /\ table.terminal \in Nat
  BY ColumnFacts DEF TableTyped
<1>2. PICK r : r = Rendered(table, values)
  OBVIOUS
<1>3. PICK R : R = Kept(table)
  OBVIOUS
<1>4. R \in Seq(Nat) /\ Len(R) = Len(caps) /\ budget(table) = Less(table.terminal, Breadth(R))
  BY <1>1, <1>3, ReservedFacts
<1>5. /\ r \in Seq(Nat) /\ Len(r) = Len(caps)
      /\ \A i \in 1..Len(caps) : r[i] = R[i] + caps[i]
  <2>1. \A i \in 1..Len(caps) : r[i] = R[i] + caps[i] /\ R[i] \in Nat /\ caps[i] \in Nat
    BY <1>1, <1>2, <1>3, <1>4, RenderedWidth, ElementOfSeq
  <2>2. r = [i \in 1..Len(caps) |-> r[i]]
    BY <1>1, <1>2 DEF Rendered
  <2>3. r \in [1..Len(caps) -> Nat]
    BY <2>1, <2>2
  <2> QED BY <1>1, <2>1, <2>3, FunctionIsSeq
<1>6. PICK g \in Nat, b \in Nat : g = Total[caps] /\ b = Breadth(R)
  BY <1>1, <1>3, ReservedFacts, TotalDef
<1>7. Breadth(r) = b + g
  <2>1. Total[r] = Total[R] + Total[caps] /\ Total[R] \in Nat
    BY <1>1, <1>4, <1>5, TotalOfSums, TotalDef
  <2>2. PICK y \in Nat : y = 3 * Less(Len(caps), 1)
    <3>1. 3 * Less(Len(caps), 1) \in Nat
      BY <1>1 DEF Less
    <3> QED BY <3>1
  <2>3. Breadth(r) = Total[r] + y /\ Breadth(R) = Total[R] + y
    BY <1>4, <1>5, <2>2 DEF Breadth
  <2>4. PICK x \in Nat : x = Total[R]
    BY <2>1
  <2>5. Breadth(r) = (x + g) + y /\ b = x + y
    BY <1>6, <2>1, <2>3, <2>4
  <2> QED BY <2>5
<1>8. g + left = Less(table.terminal, b)
  BY <1>4, <1>6 DEF Handed
<1>9. table.terminal >= b => Breadth(r) <= table.terminal
  BY <1>1, <1>7, <1>8 DEF Less
<1>10. ASSUME NEW i \in Columns(table), i \in DOMAIN table.flex
       PROVE  /\ table.terminal <= b => r[i] = table.header[i]
              /\ r[i] < want(table, i) => Breadth(r) >= table.terminal
  <2>1. r[i] = table.header[i] + caps[i] /\ caps[i] \in Nat /\ table.header[i] \in Nat
    BY <1>1, <1>2, <1>10, RenderedWidth, ColumnFacts DEF Kept, reserved
  <2>2. ASSUME table.terminal <= b PROVE r[i] = table.header[i]
    <3>1. g = 0
      BY <1>1, <1>8, <2>2 DEF Less
    <3>2. caps[i] <= g
      BY <1>1, <1>6, TotalBounds
    <3> QED BY <2>1, <3>1, <3>2
  <2>3. ASSUME r[i] < want(table, i) PROVE Breadth(r) >= table.terminal
    <3>1. Contends(table, i)
      BY <1>1, <1>10, ColumnFacts
    <3>2. want(table, i) = table.header[i] + surplus(table, i) /\ surplus(table, i) \in Nat
      BY <1>1, <3>1, ContenderFacts
    <3>3. caps[i] # surplus(table, i)
      BY <2>1, <2>3, <3>2
    <3>4. left = 0
      BY <3>1, <3>3 DEF Full, contenders
    <3> QED BY <1>1, <1>7, <1>8, <3>4 DEF Less
  <2> QED BY <2>2, <2>3
<1>11. \A i \in Columns(table) : i \notin DOMAIN table.flex => values[i] = table.cell[i]
  BY RenderedWidth
<1>12. ~Fits(table)
  BY DEF AsItIs
<1>13. b = Breadth([i \in Columns(table) |->
                       IF i \in DOMAIN table.flex THEN table.header[i] ELSE natural(table)[i]])
  BY <1>3, <1>6 DEF Kept, reserved
<1>14. ASSUME NEW floor, floor = b
       PROVE  /\ Fits(table) => values = table.cell
              /\ ~Fits(table) /\ table.terminal >= floor => Breadth(r) <= table.terminal
              /\ ~Fits(table) =>
                     \A i \in Columns(table) :
                         IF i \in DOMAIN table.flex
                         THEN /\ table.terminal <= floor => r[i] = table.header[i]
                              /\ r[i] < want(table, i) => Breadth(r) >= table.terminal
                         ELSE values[i] = table.cell[i]
  BY <1>9, <1>10, <1>11, <1>12, <1>14
<1> QED BY <1>2, <1>13, <1>14 DEF IsFitted

LEMMA FittedAsItIs ==
  ASSUME TableTyped, AsItIs(table)
  PROVE  IsFitted(table, values)
<1>1. table \in Tables /\ values = table.cell
  BY DEF TableTyped, values
<1>2. CASE Fits(table)
  BY <1>1, <1>2 DEF IsFitted
<1>3. CASE ~Fits(table) /\ contenders(table) = {}
  <2>1. \A i \in Columns(table) : i \notin DOMAIN table.flex
    BY <1>1, <1>3, ColumnFacts DEF contenders
  <2>2. natural(table) =
            [i \in Columns(table) |->
                IF i \in DOMAIN table.flex THEN table.header[i] ELSE natural(table)[i]]
    <3>1. natural(table) = [i \in Columns(table) |-> natural(table)[i]]
      BY DEF natural
    <3> QED BY <2>1, <3>1
  <2>3. ~(table.terminal >= Breadth(natural(table)))
    <3>1. table.terminal \in Nat /\ natural(table) \in Seq(Nat)
          /\ Len(natural(table)) \in Nat
      BY <1>1, ColumnFacts
    <3>2. Total[natural(table)] \in Nat /\ 3 * Less(Len(natural(table)), 1) \in Nat
      BY <3>1, TotalDef DEF Less
    <3>3. Breadth(natural(table)) \in Nat
      BY <3>2 DEF Breadth
    <3>4. ~(Breadth(natural(table)) <= table.terminal)
      BY <1>3 DEF Fits
    <3> QED BY <3>1, <3>3, <3>4
  <2> QED BY <1>1, <1>3, <2>1, <2>2, <2>3 DEF IsFitted
<1> QED BY <1>2, <1>3 DEF AsItIs

(* Any table, of any number of columns, is fitted to any terminal          *)
(* (term.rs, table_fitted and table_capped).                               *)
THEOREM TablesAreFitted == TableSpec => []TableIsFitted
<1>1. TableInv => TableIsFitted
  BY FittedWhenCut, FittedAsItIs DEF TableInv, TableIsFitted
<1> QED BY <1>1, TableInitInv, TableNextInv, PTL DEF TableSpec

\* How much is left to do in the rounds.
Work == left * (Cardinality(contenders(table)) + 2)
        + Cardinality(waiting)
        + IF gave THEN Cardinality(contenders(table)) + 1 ELSE 0

\* A round is over, or a column's turn has come.
GoesOn == \/ left = 0 \/ waiting = {}
          \/ \E i \in waiting : \A j \in waiting \ {i} : Before(table, i, j)

LEMMA WaitingIsFinite ==
  ASSUME TableTyped
  PROVE  /\ IsFiniteSet(waiting)
         /\ Cardinality(contenders(table)) \in Nat
         /\ Cardinality(waiting) \in Nat
<1>1. contenders(table) \subseteq 1..Len(table.header) /\ Len(table.header) \in Nat
  BY ColumnFacts DEF TableTyped, contenders
<1>2. IsFiniteSet(1..Len(table.header))
  BY <1>1, FS_Interval
<1>3. IsFiniteSet(contenders(table)) /\ IsFiniteSet(waiting)
  BY <1>1, <1>2, FS_Subset DEF TableTyped
<1> QED BY <1>3, FS_CardinalityType

\* Among the columns that wait is one before all the others.
LEMMA FirstWaiting == ASSUME TableTyped, waiting # {} PROVE GoesOn
<1>1. /\ table \in Tables /\ waiting \subseteq Columns(table) /\ waiting \subseteq Nat
      /\ \A i \in waiting : Contends(table, i)
  <2>1. /\ table \in Tables /\ waiting \subseteq Columns(table)
        /\ \A i \in waiting : Contends(table, i)
    BY DEF TableTyped, contenders
  <2>2. Columns(table) = 1..Len(table.header) /\ Len(table.header) \in Nat
    BY <2>1, ColumnFacts
  <2> QED BY <2>1, <2>2
<1>2. PICK K \in Nat : \A i \in waiting : want(table, i) \in Nat /\ want(table, i) <= K
  <2>1. natural(table) \in Seq(Nat) /\ Columns(table) = 1..Len(natural(table))
    BY <1>1, ColumnFacts
  <2>2. Total[natural(table)] \in Nat
    BY <2>1, TotalDef
  <2>3. ASSUME NEW i \in waiting
        PROVE  want(table, i) \in Nat /\ want(table, i) <= Total[natural(table)]
    <3>1. natural(table)[i] <= Total[natural(table)]
      BY <1>1, <2>1, TotalBounds
    <3>2. /\ want(table, i) \in Nat /\ want(table, i) <= natural(table)[i]
          /\ natural(table)[i] \in Nat
      BY <1>1, ContenderFacts, ColumnFacts
    <3> QED BY <2>2, <3>1, <3>2
  <2> QED BY <2>2, <2>3
<1> DEFINE T == {K - want(table, i) : i \in waiting}
<1>3. PICK k \in waiting : \A j \in waiting : want(table, j) <= want(table, k)
  <2>1. T \in SUBSET Nat /\ T # {}
    BY <1>2
  <2>2. PICK n \in T : \A m \in T : n <= m
    <3> HIDE DEF T
    <3> QED BY <2>1, LeastNat
  <2>3. PICK k \in waiting : n = K - want(table, k)
    BY <2>2
  <2>4. ASSUME NEW j \in waiting PROVE want(table, j) <= want(table, k)
    <3>1. K - want(table, k) <= K - want(table, j)
      BY <2>2, <2>3
    <3> QED BY <1>2, <3>1
  <2> QED BY <2>4
<1> DEFINE J == {i \in waiting : want(table, i) = want(table, k)}
<1>4. J \in SUBSET Nat /\ J # {}
  BY <1>1
<1>5. PICK i \in J : \A j \in J : i <= j
  <2> HIDE DEF J
  <2> QED BY <1>4, LeastNat
<1>6. ASSUME NEW j \in waiting \ {i} PROVE Before(table, i, j)
  <2>1. want(table, j) <= want(table, i) /\ want(table, j) \in Nat /\ want(table, i) \in Nat
    BY <1>2, <1>3
  <2>2. CASE want(table, j) = want(table, i)
    <3>1. j \in J
      BY <2>2
    <3>2. i <= j /\ i # j /\ i \in Nat /\ j \in Nat
      BY <1>1, <1>5, <3>1
    <3> QED BY <2>2, <3>2 DEF Before
  <2>3. CASE want(table, j) # want(table, i)
    BY <2>1, <2>3 DEF Before
  <2> QED BY <2>2, <2>3
<1> QED BY <1>6 DEF GoesOn

LEMMA WorkLessens ==
  ASSUME TableInv, phase = "round", TableNext
  PROVE  phase' = "done" \/ Work' < Work
<1>1. TableTyped
  BY DEF TableInv
<1>2. PICK c \in Nat, w \in Nat, l \in Nat :
         c = Cardinality(contenders(table)) /\ w = Cardinality(waiting) /\ l = left
  BY <1>1, WaitingIsFinite DEF TableTyped
<1>3. Work = l * (c + 2) + w + (IF gave THEN c + 1 ELSE 0)
  BY <1>2 DEF Work
<1>4. CASE HandBack
  <2>1. PICK i \in waiting :
            /\ waiting' = waiting \ {i}
            /\ IF caps[i] < surplus(table, i)
               THEN caps' = [caps EXCEPT ![i] = @ + 1] /\ left' = left - 1 /\ gave' = TRUE
               ELSE UNCHANGED <<caps, left, gave>>
    BY <1>4 DEF HandBack
  <2>2. l > 0 /\ table' = table
    BY <1>2, <1>4 DEF HandBack
  <2>3. Cardinality(waiting') = w - 1 /\ w > 0
    <3>1. Cardinality(waiting \ {i}) = Cardinality(waiting) - 1
      BY <1>1, <2>1, WaitingIsFinite, FS_RemoveElement
    <3>2. w # 0
      BY <1>1, <1>2, <2>1, WaitingIsFinite, FS_EmptySet
    <3> QED BY <1>2, <2>1, <3>1, <3>2
  <2>4. CASE left' = left - 1 /\ gave' = TRUE
    <3>1. Work' = (l - 1) * (c + 2) + (w - 1) + (c + 1)
      BY <1>2, <2>2, <2>3, <2>4 DEF Work
    <3>2. (l - 1) * (c + 2) = l * (c + 2) - (c + 2)
      OBVIOUS
    <3>3. PICK x \in Nat : x = l * (c + 2)
      OBVIOUS
    <3>4. Work' = (x - (c + 2)) + (w - 1) + (c + 1)
      BY <3>1, <3>2, <3>3
    <3>5. Work = x + w + (IF gave THEN c + 1 ELSE 0)
      BY <1>3, <3>3
    <3>6. Work >= x + w
      BY <3>5
    <3> QED BY <2>3, <3>4, <3>6, <3>5
  <2>5. CASE UNCHANGED <<left, gave>>
    <3>1. PICK x \in Nat : x = l * (c + 2)
      OBVIOUS
    <3>2. Work' = x + (w - 1) + (IF gave THEN c + 1 ELSE 0)
      BY <1>2, <2>2, <2>3, <2>5, <3>1 DEF Work
    <3> QED BY <1>3, <3>1, <3>2
  <2> QED BY <2>1, <2>4, <2>5
<1>5. CASE NextRound
  <2>1. waiting = {} /\ gave /\ waiting' = contenders(table) /\ gave' = FALSE
        /\ UNCHANGED <<table, left>>
    BY <1>5 DEF NextRound
  <2>2. w = 0
    BY <1>2, <2>1, FS_EmptySet
  <2>3. PICK x \in Nat : x = l * (c + 2)
    OBVIOUS
  <2>4. Work' = x + c + 0
    BY <1>2, <2>1, <2>3 DEF Work
  <2>5. Work = x + 0 + (c + 1)
    BY <1>3, <2>1, <2>2, <2>3
  <2> QED BY <2>4, <2>5
<1>6. CASE Enough
  BY <1>6 DEF Enough
<1>7. ~Show /\ ~Share
  BY DEF Show, Share
<1> QED BY <1>4, <1>5, <1>6, <1>7 DEF TableNext

(* The rounds of what is handed back come to an end: one that is not over  *)
(* has a column whose turn it is, and every step of one brings the end     *)
(* closer, whatever the widths (term.rs, table_fitted: the loop has no     *)
(* other bound).                                                           *)
THEOREM RoundsEnd ==
  TableSpec => /\ [](Work \in Nat /\ GoesOn)
               /\ [][phase = "round" => phase' = "done" \/ Work' < Work]_tableVars
<1>1. TableInv => Work \in Nat /\ GoesOn
  <2> SUFFICES ASSUME TableInv PROVE Work \in Nat /\ GoesOn
    OBVIOUS
  <2>1. TableTyped
    BY DEF TableInv
  <2>2. GoesOn
    BY <2>1, FirstWaiting DEF GoesOn
  <2>3. PICK c \in Nat, w \in Nat, l \in Nat :
           c = Cardinality(contenders(table)) /\ w = Cardinality(waiting) /\ l = left
    BY <2>1, WaitingIsFinite DEF TableTyped
  <2>4. Work = l * (c + 2) + w + (IF gave THEN c + 1 ELSE 0)
    BY <2>3 DEF Work
  <2>5. l * (c + 2) \in Nat
    OBVIOUS
  <2> QED BY <2>2, <2>4, <2>5
<1>2. TableInv /\ [TableNext]_tableVars =>
          [phase = "round" => phase' = "done" \/ Work' < Work]_tableVars
  BY WorkLessens
<1> QED BY <1>1, <1>2, TableInitInv, TableNextInv, PTL DEF TableSpec
=============================================================================
