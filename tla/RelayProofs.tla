---------------------------- MODULE RelayProofs -----------------------------
(***************************************************************************)
(* What Relay guarantees for any requests, redirects, bounds and sizes,    *)
(* whichever end goes and whichever timer runs out.                        *)
(***************************************************************************)
EXTENDS Relay, SequenceTheorems, TLAPS

-----------------------------------------------------------------------------
(* Moving the first element of a sequence to the end of the one before it. *)

LEMMA MoveAcross ==
    ASSUME NEW S, NEW a \in Seq(S), NEW b \in Seq(S), b # <<>>
    PROVE  /\ Append(a, Head(b)) \in Seq(S)
           /\ Tail(b) \in Seq(S)
           /\ Append(a, Head(b)) \o Tail(b) = a \o b
<1>1. /\ Head(b) \in S
      /\ Tail(b) \in Seq(S)
      /\ Len(Tail(b)) = Len(b) - 1
      /\ \A i \in 1..Len(Tail(b)) : Tail(b)[i] = b[i + 1]
  BY HeadTailProperties
<1>2. /\ Append(a, Head(b)) \in Seq(S)
      /\ Len(Append(a, Head(b))) = Len(a) + 1
      /\ \A i \in 1..Len(a) : Append(a, Head(b))[i] = a[i]
      /\ Append(a, Head(b))[Len(a) + 1] = Head(b)
  BY <1>1, AppendProperties
<1> DEFINE x == Append(a, Head(b))
           y == Tail(b)
<1>3. /\ x \o y \in Seq(S) /\ a \o b \in Seq(S)
      /\ Len(x \o y) = Len(x) + Len(y) /\ Len(a \o b) = Len(a) + Len(b)
      /\ \A i \in 1..Len(x) + Len(y) :
             (x \o y)[i] = IF i <= Len(x) THEN x[i] ELSE y[i - Len(x)]
      /\ \A i \in 1..Len(a) + Len(b) :
             (a \o b)[i] = IF i <= Len(a) THEN a[i] ELSE b[i - Len(a)]
  BY <1>1, <1>2, ConcatProperties
<1>4. Len(a) \in Nat /\ Len(b) \in Nat \ {0} /\ Head(b) = b[1]
  BY EmptySeq, LenProperties
<1> HIDE DEF x, y
<1>5. Len(x \o y) = Len(a \o b)
  BY <1>1, <1>2, <1>3, <1>4 DEF x, y
<1>6. ASSUME NEW i \in 1..Len(a \o b) PROVE (x \o y)[i] = (a \o b)[i]
  <2>1. CASE i <= Len(a)
    BY <2>1, <1>1, <1>2, <1>3, <1>4 DEF x, y
  <2>2. CASE i = Len(a) + 1
    BY <2>2, <1>1, <1>2, <1>3, <1>4 DEF x, y
  <2>3. CASE i > Len(a) + 1
    BY <2>3, <1>1, <1>2, <1>3, <1>4 DEF x, y
  <2>4. i \in Int /\ Len(a) \in Int
    BY <1>3, <1>4
  <2>5. i <= Len(a) \/ i = Len(a) + 1 \/ i > Len(a) + 1
    BY <2>4
  <2> QED
    BY <2>1, <2>2, <2>3, <2>5, Zenon
<1>7. x \o y = a \o b
  BY <1>3, <1>5, <1>6, SeqEqual
<1> QED
  BY <1>1, <1>2, <1>7 DEF x, y

Chain(a, b, c) == a \o (b \o c)

LEMMA ChainMove ==
    ASSUME NEW S, NEW a \in Seq(S), NEW b \in Seq(S), NEW c \in Seq(S), b # <<>>
    PROVE  Chain(Append(a, Head(b)), Tail(b), c) = Chain(a, b, c)
<1>1. /\ Append(a, Head(b)) \in Seq(S)
      /\ Tail(b) \in Seq(S)
      /\ Append(a, Head(b)) \o Tail(b) = a \o b
  BY MoveAcross
<1>2. Append(a, Head(b)) \o (Tail(b) \o c) = (Append(a, Head(b)) \o Tail(b)) \o c
  BY <1>1, ConcatAssociative
<1>3. (a \o b) \o c = a \o (b \o c)
  BY ConcatAssociative
<1> QED
  BY <1>1, <1>2, <1>3 DEF Chain

LEMMA AppendLast ==
    ASSUME NEW S, NEW a \in Seq(S), NEW b \in Seq(S), NEW e \in S
    PROVE  a \o Append(b, e) = Append(a \o b, e)
<1>1. <<e>> \in Seq(S) /\ a \o b \in Seq(S)
  BY ConcatProperties
<1>2. Append(b, e) = b \o <<e>> /\ Append(a \o b, e) = (a \o b) \o <<e>>
  BY <1>1, AppendIsConcat
<1>3. (a \o b) \o <<e>> = a \o (b \o <<e>>)
  BY <1>1, ConcatAssociative
<1> QED
  BY <1>2, <1>3

(* A stream from its reader back to its writer: what is read, and what is  *)
(* in the outbox, held, and in the inbox.                                  *)
Stream(g, o, h, n) == g \o (o \o (h \o n))

(* The operators on sequences under names the provers leave alone: the     *)
(* lemmas below are matched by their form.                                 *)
Put(s, e) == Append(s, e)
First(s)  == Head(s)
Rest(s)   == Tail(s)

IsShorter(s, t) == Len(s) < Len(t)
After(s, t)     == t[Len(s) + 1]

LEMMA StreamType ==
    ASSUME NEW g \in Seq(Urls), NEW o \in Seq(Urls), NEW h \in Seq(Urls), NEW n \in Seq(Urls)
    PROVE  Stream(g, o, h, n) \in Seq(Urls)
<1>1. ASSUME NEW x \in Seq(Urls), NEW y \in Seq(Urls) PROVE x \o y \in Seq(Urls)
  BY ConcatProperties
<1>2. h \o n \in Seq(Urls) /\ o \o (h \o n) \in Seq(Urls)
  BY <1>1
<1> QED
  BY <1>1, <1>2 DEF Stream

LEMMA StreamWrite ==
    ASSUME NEW g \in Seq(Urls), NEW o \in Seq(Urls), NEW h \in Seq(Urls),
           NEW n \in Seq(Urls), NEW e \in Urls
    PROVE  Stream(g, o, h, Put(n, e)) = Put(Stream(g, o, h, n), e)
<1>1. ASSUME NEW x \in Seq(Urls), NEW y \in Seq(Urls) PROVE x \o y \in Seq(Urls)
  BY ConcatProperties
<1>2. h \o Append(n, e) = Append(h \o n, e)
  BY AppendLast
<1>3. h \o n \in Seq(Urls) /\ o \o (h \o n) \in Seq(Urls)
  BY <1>1
<1>4. o \o Append(h \o n, e) = Append(o \o (h \o n), e)
  BY <1>3, AppendLast
<1> DEFINE rest == o \o (h \o n)
<1>5. rest \in Seq(Urls)
  BY <1>3
<1> HIDE DEF rest
<1>6. g \o Append(rest, e) = Append(g \o rest, e)
  BY <1>5, AppendLast
<1> QED
  BY <1>2, <1>4, <1>6 DEF Stream, rest, Put

LEMMA StreamFetch ==
    ASSUME NEW g \in Seq(Urls), NEW o \in Seq(Urls), NEW h \in Seq(Urls),
           NEW n \in Seq(Urls), n # <<>>
    PROVE  Stream(g, o, Put(h, First(n)), Rest(n)) = Stream(g, o, h, n)
<1>1. Append(h, Head(n)) \o Tail(n) = h \o n
  BY MoveAcross
<1> QED
  BY <1>1 DEF Stream, Put, First, Rest

LEMMA StreamForward ==
    ASSUME NEW g \in Seq(Urls), NEW o \in Seq(Urls), NEW h \in Seq(Urls),
           NEW n \in Seq(Urls), h # <<>>
    PROVE  Stream(g, Put(o, First(h)), Rest(h), n) = Stream(g, o, h, n)
<1>1. Chain(Append(o, Head(h)), Tail(h), n) = Chain(o, h, n)
  BY ChainMove
<1>2. \A x, y : Stream(g, x, y, n) = g \o Chain(x, y, n)
  BY DEF Stream, Chain
<1> QED
  BY <1>1, <1>2 DEF Put, First, Rest

LEMMA StreamRead ==
    ASSUME NEW g \in Seq(Urls), NEW o \in Seq(Urls), NEW h \in Seq(Urls),
           NEW n \in Seq(Urls), o # <<>>
    PROVE  Stream(Put(g, First(o)), Rest(o), h, n) = Stream(g, o, h, n)
<1>1. h \o n \in Seq(Urls)
  BY ConcatProperties
<1>2. Chain(Append(g, Head(o)), Tail(o), h \o n) = Chain(g, o, h \o n)
  BY <1>1, ChainMove
<1>3. \A x, y : Stream(x, y, h, n) = Chain(x, y, h \o n)
  BY DEF Stream, Chain
<1> QED
  BY <1>2, <1>3 DEF Put, First, Rest

(* The next chunk to read is the one that was written there.               *)
LEMMA StreamNext ==
    ASSUME NEW g \in Seq(Urls), NEW o \in Seq(Urls), NEW h \in Seq(Urls),
           NEW n \in Seq(Urls), o # <<>>
    PROVE  /\ IsShorter(g, Stream(g, o, h, n))
           /\ After(g, Stream(g, o, h, n)) = First(o)
<1> DEFINE c == h \o n
<1>0. c \in Seq(Urls)
  BY ConcatProperties
<1> HIDE DEF c
<1>1. /\ o \o c \in Seq(Urls)
      /\ Len(o \o c) = Len(o) + Len(c)
      /\ \A i \in 1..Len(o) + Len(c) :
             (o \o c)[i] = IF i <= Len(o) THEN o[i] ELSE c[i - Len(o)]
  BY <1>0, ConcatProperties
<1>2. /\ Len(g \o (o \o c)) = Len(g) + Len(o \o c)
      /\ \A i \in 1..Len(g) + Len(o \o c) :
             (g \o (o \o c))[i] = IF i <= Len(g) THEN g[i] ELSE (o \o c)[i - Len(g)]
  BY <1>1, ConcatProperties
<1>3. Len(g) \in Nat /\ Len(o) \in Nat \ {0} /\ Len(c) \in Nat /\ Head(o) = o[1]
  BY <1>0, EmptySeq, LenProperties
<1>4. (g \o (o \o c))[Len(g) + 1] = (o \o c)[1]
  BY <1>1, <1>2, <1>3
<1>5. (o \o c)[1] = o[1]
  BY <1>1, <1>3
<1> QED
  BY <1>1, <1>2, <1>3, <1>4, <1>5 DEF Stream, c, IsShorter, After, First

LEMMA StreamEnds ==
    ASSUME NEW g \in Seq(Urls)
    PROVE  /\ Stream(g, <<>>, <<>>, <<>>) = g
           /\ Stream(<<>>, <<>>, g, <<>>) = g
<1>1. <<>> \in Seq(Urls) /\ <<>> \o <<>> = <<>> /\ g \o <<>> = g /\ <<>> \o g = g
  BY EmptySeq, ConcatEmptySeq
<1> QED
  BY <1>1 DEF Stream

-----------------------------------------------------------------------------
(* Types.                                                                  *)

BytesOK == /\ sent \in [Ways -> Seq(Urls)] /\ inbox \in [Ways -> Seq(Urls)]
           /\ held \in [Ways -> Seq(Urls)] /\ outbox \in [Ways -> Seq(Urls)]
           /\ got \in [Ways -> Seq(Urls)]

LEMMA RewritingKeepsUrls ==
    ASSUME NEW s \in Seq(Urls)
    PROVE  rewrite_root_absolute_urls(s) \in Seq(Urls)
<1>1. CASE ~ask.routed
  BY <1>1 DEF rewrite_root_absolute_urls
<1>2. CASE ask.routed
  <2>1. /\ Len(s) \in Nat /\ DOMAIN s = 1..Len(s)
        /\ \A i \in 1..Len(s) : s[i] \in Urls
    BY LenProperties, ElementOfSeq
  <2>2. rewrite_root_absolute_urls(s) \in [1..Len(s) -> Urls]
    BY <1>2, <2>1 DEF rewrite_root_absolute_urls, Urls
  <2> QED
    BY <2>1, <2>2
<1> QED
  BY <1>1, <1>2

LEMMA TypeInit == Init => TypeOK
BY RelayAssumption
   DEF Init, TypeOK, Asks, NoReply, NoAnswer, Empty, Replies, Answers, Ways, Marks

(* The steps that carry bytes.                                             *)
LEMMA BytesStep ==
    ASSUME TypeOK, NEW d \in Ways,
           \/ Write(d) \/ Fetch(d) \/ Forward(d) \/ Read(d)
    PROVE  BytesOK'
<1>1. BytesOK
  BY DEF TypeOK, BytesOK
<1>2. CASE Write(d)
  <2>1. PICK c \in Written[d] : /\ sent' = [sent EXCEPT ![d] = Append(@, c)]
                                /\ inbox' = [inbox EXCEPT ![d] = Append(@, c)]
    BY <1>2 DEF Write
  <2>2. c \in Urls
    BY RelayAssumption
  <2>3. Append(sent[d], c) \in Seq(Urls) /\ Append(inbox[d], c) \in Seq(Urls)
    BY <2>2, <1>1, AppendProperties DEF BytesOK
  <2> QED
    BY <2>1, <2>3, <1>1, <1>2 DEF BytesOK, Write
<1>3. CASE Fetch(d)
  <2>1. Append(held[d], Head(inbox[d])) \in Seq(Urls) /\ Tail(inbox[d]) \in Seq(Urls)
    BY <1>1, <1>3, MoveAcross DEF BytesOK, Fetch
  <2> QED
    BY <2>1, <1>1, <1>3 DEF BytesOK, Fetch
<1>4. CASE Forward(d)
  <2>1. Append(outbox[d], Head(held[d])) \in Seq(Urls) /\ Tail(held[d]) \in Seq(Urls)
    BY <1>1, <1>4, MoveAcross DEF BytesOK, Forward
  <2> QED
    BY <2>1, <1>1, <1>4 DEF BytesOK, Forward
<1>5. CASE Read(d)
  <2>1. Append(got[d], Head(outbox[d])) \in Seq(Urls) /\ Tail(outbox[d]) \in Seq(Urls)
    BY <1>1, <1>5, MoveAcross DEF BytesOK, Read
  <2> QED
    BY <2>1, <1>1, <1>5 DEF BytesOK, Read
<1> QED
  BY <1>2, <1>3, <1>4, <1>5

LEMMA TypeNext == TypeOK /\ [Next]_vars => TypeOK'
<1> SUFFICES ASSUME TypeOK, [Next]_vars PROVE TypeOK'
  OBVIOUS
<1>1. ASSUME NEW d \in Ways, Write(d) \/ Fetch(d) \/ Forward(d) \/ Read(d)
      PROVE  TypeOK'
  <2>1. BytesOK'
    BY <1>1, BytesStep
  <2> QED
    BY <1>1, <2>1 DEF TypeOK, BytesOK, Write, Fetch, Forward, Read, ends
<1>2. ASSUME NEW d \in Ways, Finish(d) \/ See(d) \/ Shut(d)
      PROVE  TypeOK'
  BY <1>2 DEF TypeOK, Finish, See, Shut, ends, bytes, Marks
<1>3. CASE Reply \/ Die \/ Depart
  BY <1>3 DEF TypeOK, Reply, Die, Depart, ends, bytes, Ways
<1>4. CASE Connect
  BY <1>4 DEF TypeOK, Connect, Passed, filter_headers, Headers, Asks, ends, bytes
<1>5. CASE ConnectFails \/ HeadersTimeOut \/ RequestFails \/ CollectTooLong \/ CollectFails
  <2>1. Fail /\ UNCHANGED <<ask, passed, ends, bytes>>
    BY <1>5 DEF ConnectFails, HeadersTimeOut, RequestFails, CollectTooLong, CollectFails
  <2>2. answer' \in Answers
    BY <2>1 DEF Fail, Error, Answers
  <2>3. shut' \in [Ways -> Marks] /\ wire' \in {"none", "open", "closed"}
    BY <2>1 DEF TypeOK, Fail, Close, Marks
  <2> QED
    BY <2>1, <2>2, <2>3 DEF TypeOK, Fail, ends, bytes
<1>6. CASE HttpHead \/ UpgradeHead
  BY <1>6 DEF TypeOK, HttpHead, UpgradeHead, reattach_prefix, Replies, Answers, Urls,
              ends, bytes
<1>7. CASE CollectDone
  <2>1. rewrite_root_absolute_urls(held["down"]) \in Seq(Urls)
    BY RewritingKeepsUrls DEF TypeOK, Ways
  <2>2. held' \in [Ways -> Seq(Urls)]
    BY <1>7, <2>1 DEF TypeOK, CollectDone
  <2>3. answer' \in Answers
    BY <1>7 DEF TypeOK, CollectDone, reattach_prefix, Replies, Answers, Urls
  <2> QED
    BY <1>7, <2>2, <2>3 DEF TypeOK, CollectDone, ends
<1>8. CASE Join \/ Done \/ Break \/ Cancel
  BY <1>8 DEF TypeOK, Join, Done, Break, Cancel, Close, Marks, ends, bytes
<1>9. CASE UNCHANGED vars
  BY <1>9 DEF TypeOK, vars, ends, bytes
<1> QED
  BY <1>1, <1>2, <1>3, <1>4, <1>5, <1>6, <1>7, <1>8, <1>9 DEF Next

(* The variables keep their types.                                         *)
THEOREM RelayTyped == SafeSpec => []TypeOK
BY TypeInit, TypeNext, PTL DEF SafeSpec

-----------------------------------------------------------------------------
(* Where the bytes are.  Once the head of a rewritten page is answered, all *)
(* of the page is there, as the browser is to see it; in every other case  *)
(* what was written is what was read and what is on the way, in order.     *)

PhaseInv ==
    /\ handler \in {"connect", "headers", "collect"} => answer.kind = "none"
    /\ handler = "stream" => answer.kind = "head"
    /\ handler \in {"joining", "tunnel"} => answer.kind = "switch"
    /\ answer.kind = "error" => handler = "over"
    /\ answer.kind = "switch" => IsUpgrade
    /\ handler = "collect" => ~IsUpgrade /\ reply.kind = "html" /\ ~reply.encoded
    /\ reply.kind = "none" => sent["down"] = <<>>

Late(d) == d = "down" /\ answer.kind = "head" /\ ToRewrite

Carried ==
    \A d \in Ways :
        (IF Late(d) THEN Shown(sent[d]) ELSE sent[d])
            = Stream(got[d], outbox[d], held[d], inbox[d])

Complete == Late("down") => inbox["down"] = <<>> /\ ended["down"]

NotBefore ==
    answer.kind \in {"none", "error"} => outbox["down"] = <<>> /\ got["down"] = <<>>

Ended ==
    \A d \in Ways :
        /\ shut[d] = "end" => /\ ended[d] /\ inbox[d] = <<>> /\ held[d] = <<>>
                              /\ d = "down" => answer.kind \in {"head", "switch"}
        /\ shut[d] = "cut" => Failed

StreamInv == Carried /\ Complete /\ NotBefore

CarryInv == TypeOK /\ PhaseInv /\ StreamInv /\ Ended

LEMMA CarryInit == Init => CarryInv
<1> SUFFICES ASSUME Init PROVE CarryInv
  OBVIOUS
<1>1. TypeOK
  BY TypeInit
<1>2. PhaseInv /\ Complete /\ NotBefore /\ Ended
  BY DEF Init, PhaseInv, Complete, Late, NotBefore, Ended, NoAnswer, NoReply, Empty, Ways
<1>3. Stream(<<>>, <<>>, <<>>, <<>>) = <<>>
  BY EmptySeq, StreamEnds
<1>4. Carried
  BY <1>3 DEF Init, Carried, Empty, Late, NoAnswer
<1> QED
  BY <1>1, <1>2, <1>4 DEF CarryInv, StreamInv

(* A step that moves no bytes and does not answer.                         *)
LEMMA QuietStep ==
    ASSUME CarryInv, UNCHANGED <<ask, reply, answer, sent, inbox, held, outbox, got>>,
           \A d \in Ways : ended[d] => ended'[d]
    PROVE  StreamInv'
<1>1. /\ ToRewrite' <=> ToRewrite
      /\ \A d : Late(d)' <=> Late(d)
  BY DEF ToRewrite, Late, IsUpgrade
<1>2. \A d : Shown(sent[d])' = Shown(sent[d])
  BY <1>1 DEF Shown
<1> QED
  BY <1>1, <1>2 DEF CarryInv, StreamInv, Carried, Complete, NotBefore, Ways

LEMMA WriteCarries ==
    ASSUME CarryInv, NEW d \in Ways, Write(d)
    PROVE  StreamInv'
<1>1. PICK c \in Written[d] : /\ sent' = [sent EXCEPT ![d] = Append(@, c)]
                              /\ inbox' = [inbox EXCEPT ![d] = Append(@, c)]
  BY DEF Write
<1>2. c \in Urls /\ BytesOK /\ ~ended[d]
  BY RelayAssumption DEF CarryInv, TypeOK, BytesOK, Write, MayWrite
<1>3. /\ UNCHANGED <<ask, reply, answer, ended, held, outbox, got>>
      /\ ToRewrite' <=> ToRewrite
      /\ \A e : Late(e)' <=> Late(e)
  BY DEF Write, ends, ToRewrite, Late, IsUpgrade
<1>4. ~Late(d)
  BY <1>2 DEF CarryInv, StreamInv, Complete, Late
<1>5. sent'[d] = Stream(got[d], outbox[d], held[d], inbox'[d])
  <2>1. sent[d] = Stream(got[d], outbox[d], held[d], inbox[d])
    BY <1>4 DEF CarryInv, StreamInv, Carried
  <2>2. /\ got[d] \in Seq(Urls) /\ outbox[d] \in Seq(Urls)
        /\ held[d] \in Seq(Urls) /\ inbox[d] \in Seq(Urls)
    BY <1>2 DEF BytesOK
  <2>3. Stream(got[d], outbox[d], held[d], Put(inbox[d], c))
          = Put(Stream(got[d], outbox[d], held[d], inbox[d]), c)
    BY <1>2, <2>2, StreamWrite
  <2> QED
    BY <1>1, <1>2, <2>1, <2>3 DEF BytesOK, Put
<1>6. ASSUME NEW e \in Ways, e # d
      PROVE  /\ sent'[e] = sent[e] /\ inbox'[e] = inbox[e]
             /\ Shown(sent[e])' = Shown(sent[e])
  BY <1>1, <1>2, <1>3, <1>6 DEF BytesOK, Shown
<1>7. Carried'
  BY <1>3, <1>4, <1>5, <1>6 DEF CarryInv, StreamInv, Carried
<1>8. Complete'
  BY <1>3, <1>4, <1>6 DEF CarryInv, StreamInv, Complete, Ways
<1> QED
  BY <1>3, <1>7, <1>8 DEF CarryInv, StreamInv, NotBefore

LEMMA MoveCarries ==
    ASSUME CarryInv, NEW d \in Ways, Fetch(d) \/ Forward(d) \/ Read(d)
    PROVE  StreamInv'
<1>1. BytesOK
  BY DEF CarryInv, TypeOK, BytesOK
<1>2. /\ got[d] \in Seq(Urls) /\ outbox[d] \in Seq(Urls)
      /\ held[d] \in Seq(Urls) /\ inbox[d] \in Seq(Urls)
  BY <1>1 DEF BytesOK
<1>3. UNCHANGED <<ask, reply, answer, sent, ended>>
  BY DEF Fetch, Forward, Read, ends
<1>4. Stream(got[d], outbox[d], held[d], inbox[d])'
        = Stream(got[d], outbox[d], held[d], inbox[d])
  <2>1. CASE Fetch(d)
    <3>1. Stream(got[d], outbox[d], Put(held[d], First(inbox[d])), Rest(inbox[d]))
            = Stream(got[d], outbox[d], held[d], inbox[d])
      BY <1>2, <2>1, StreamFetch DEF Fetch
    <3>2. /\ held'[d] = Put(held[d], First(inbox[d])) /\ inbox'[d] = Rest(inbox[d])
          /\ got' = got /\ outbox' = outbox
      BY <1>1, <2>1 DEF Fetch, BytesOK, Put, First, Rest
    <3> QED
      BY <3>1, <3>2
  <2>2. CASE Forward(d)
    <3>1. Stream(got[d], Put(outbox[d], First(held[d])), Rest(held[d]), inbox[d])
            = Stream(got[d], outbox[d], held[d], inbox[d])
      BY <1>2, <2>2, StreamForward DEF Forward
    <3>2. /\ outbox'[d] = Put(outbox[d], First(held[d])) /\ held'[d] = Rest(held[d])
          /\ got' = got /\ inbox' = inbox
      BY <1>1, <2>2 DEF Forward, BytesOK, Put, First, Rest
    <3> QED
      BY <3>1, <3>2
  <2>3. CASE Read(d)
    <3>1. Stream(Put(got[d], First(outbox[d])), Rest(outbox[d]), held[d], inbox[d])
            = Stream(got[d], outbox[d], held[d], inbox[d])
      BY <1>2, <2>3, StreamRead DEF Read
    <3>2. /\ got'[d] = Put(got[d], First(outbox[d])) /\ outbox'[d] = Rest(outbox[d])
          /\ held' = held /\ inbox' = inbox
      BY <1>1, <2>3 DEF Read, BytesOK, Put, First, Rest
    <3> QED
      BY <3>1, <3>2
  <2> QED
    BY <2>1, <2>2, <2>3
<1>5. ASSUME NEW e \in Ways, e # d
      PROVE  /\ got'[e] = got[e] /\ outbox'[e] = outbox[e]
             /\ held'[e] = held[e] /\ inbox'[e] = inbox[e]
  BY <1>1, <1>5 DEF BytesOK, Fetch, Forward, Read
<1>6. /\ \A e : Late(e)' <=> Late(e)
      /\ \A e : Shown(sent[e])' = Shown(sent[e])
  BY <1>3 DEF Late, ToRewrite, IsUpgrade, Shown
<1>7. Carried'
  BY <1>3, <1>4, <1>5, <1>6 DEF CarryInv, StreamInv, Carried
<1>8. Complete'
  <2>1. Late("down") => d # "down" \/ inbox' = inbox
    BY DEF CarryInv, StreamInv, Complete, Fetch, Forward, Read
  <2> QED
    BY <1>3, <1>5, <1>6, <2>1 DEF CarryInv, StreamInv, Complete, Ways
<1>9. NotBefore'
  <2>1. CASE answer.kind \in {"none", "error"}
    <3>1. outbox["down"] = <<>> /\ got["down"] = <<>>
      BY <2>1 DEF CarryInv, StreamInv, NotBefore
    <3>2. CASE d = "down"
      <4>1. ~Forward(d)
        BY <2>1, <3>2 DEF CarryInv, PhaseInv, Forward, Passing
      <4>2. ~Read(d)
        BY <3>1, <3>2 DEF Read
      <4> QED
        BY <1>3, <3>1, <4>1, <4>2 DEF Fetch, NotBefore
    <3>3. CASE d = "up"
      BY <1>5, <3>1, <3>3 DEF NotBefore, Ways
    <3> QED
      BY <1>3, <3>1, <3>2, <3>3 DEF NotBefore, Ways, Fetch
  <2> QED
    BY <1>3, <2>1 DEF NotBefore
<1> QED
  BY <1>7, <1>8, <1>9 DEF StreamInv

(* The relay answers: nothing has gone down yet.                           *)
LEMMA AnswerCarries ==
    ASSUME CarryInv, HttpHead \/ UpgradeHead
    PROVE  StreamInv'
<1>1. UNCHANGED <<ask, reply, sent, ended, inbox, held, outbox, got>>
  BY DEF HttpHead, UpgradeHead, ends, bytes
<1>2. handler = "headers" /\ answer.kind = "none"
  BY DEF HttpHead, UpgradeHead, CarryInv, PhaseInv
<1>3. \A d : ~Late(d) /\ ~Late(d)'
  <2>1. CASE UpgradeHead
    BY <1>1, <1>2, <2>1 DEF UpgradeHead, Late, ToRewrite, IsUpgrade
  <2>2. CASE HttpHead
    BY <1>1, <1>2, <2>2 DEF HttpHead, Late, ToRewrite, IsUpgrade, is_rewritable_html
  <2> QED
    BY <2>1, <2>2
<1>4. Carried' /\ Complete'
  BY <1>1, <1>3 DEF CarryInv, StreamInv, Carried, Complete
<1>5. NotBefore'
  BY <1>1, <1>2 DEF CarryInv, StreamInv, NotBefore
<1> QED
  BY <1>4, <1>5 DEF StreamInv

(* A page that is collected is held whole, and then shown.                 *)
LEMMA CollectCarries ==
    ASSUME CarryInv, CollectDone
    PROVE  StreamInv'
<1>1. /\ UNCHANGED <<ask, reply, sent, ended, inbox, outbox, got>>
      /\ held' = [held EXCEPT !["down"] = rewrite_root_absolute_urls(@)]
      /\ answer' = [kind |-> "head", location |-> reattach_prefix(reply.location)]
      /\ inbox["down"] = <<>> /\ ended["down"]
  BY DEF CollectDone, Collected, ends
<1>2. /\ answer.kind = "none"
      /\ ~IsUpgrade /\ reply.kind = "html" /\ ~reply.encoded
  BY DEF CollectDone, CarryInv, PhaseInv
<1>3. outbox["down"] = <<>> /\ got["down"] = <<>>
  BY <1>2 DEF CarryInv, StreamInv, NotBefore
<1>4. BytesOK
  BY DEF CarryInv, TypeOK, BytesOK
<1>5. \A d : ~Late(d)
  BY <1>2 DEF Late
<1>6. sent["down"] = held["down"]
  <2>1. sent["down"] = Stream(<<>>, <<>>, held["down"], <<>>)
    BY <1>1, <1>3, <1>5 DEF CarryInv, StreamInv, Carried, Ways
  <2>2. held["down"] \in Seq(Urls)
    BY <1>4 DEF BytesOK, Ways
  <2> QED
    BY <2>1, <2>2, StreamEnds
<1>7. \A d \in Ways : Late(d)' <=> d = "down" /\ ask.routed
  BY <1>1, <1>2 DEF Late, ToRewrite, IsUpgrade
<1>8. Shown(sent["down"])' = held'["down"] /\ held'["down"] \in Seq(Urls)
  <2>1. held'["down"] = rewrite_root_absolute_urls(held["down"])
    BY <1>1, <1>4 DEF BytesOK, Ways
  <2>2. rewrite_root_absolute_urls(held["down"]) \in Seq(Urls)
    BY <1>4, RewritingKeepsUrls DEF BytesOK, Ways
  <2>3. Shown(sent["down"])' = rewrite_root_absolute_urls(held["down"])
    BY <1>1, <1>2, <1>6
       DEF Shown, ToRewrite, IsUpgrade, rewrite_root_absolute_urls, needs_prefix
  <2> QED
    BY <2>1, <2>2, <2>3
<1>9. Stream(got["down"], outbox["down"], held["down"], inbox["down"])' = held'["down"]
  BY <1>1, <1>3, <1>8, StreamEnds
<1>10. ~ask.routed => Shown(sent["down"])' = sent'["down"]
  BY <1>1 DEF Shown, ToRewrite
<1>11. held'["up"] = held["up"]
  BY <1>1, <1>4 DEF BytesOK, Ways
<1>12. ASSUME NEW d \in Ways
       PROVE  ((IF Late(d) THEN Shown(sent[d]) ELSE sent[d])
                  = Stream(got[d], outbox[d], held[d], inbox[d]))'
  <2>1. CASE d = "up"
    BY <1>1, <1>5, <1>7, <1>11, <2>1 DEF CarryInv, StreamInv, Carried, Ways
  <2>2. CASE d = "down"
    BY <1>1, <1>7, <1>8, <1>9, <1>10, <2>2
  <2> QED
    BY <2>1, <2>2 DEF Ways
<1>13. Carried'
  BY <1>12 DEF Carried
<1>14. Complete' /\ NotBefore'
  BY <1>1 DEF Complete, NotBefore
<1> QED
  BY <1>13, <1>14 DEF StreamInv

(* The steps at which the relay gives a request up.                        *)
GivesUp == ConnectFails \/ HeadersTimeOut \/ RequestFails \/ CollectTooLong \/ CollectFails

LEMMA GivingUp ==
    ASSUME GivesUp
    PROVE  /\ Fail /\ UNCHANGED <<ask, passed, ends, bytes>>
           /\ handler \in {"connect", "headers", "collect"}
BY DEF GivesUp, ConnectFails, HeadersTimeOut, RequestFails, CollectTooLong, CollectFails

LEMMA GiveUpCarries ==
    ASSUME CarryInv, GivesUp
    PROVE  StreamInv'
<1>1. /\ UNCHANGED <<ask, reply, sent, ended, inbox, held, outbox, got>>
      /\ answer.kind = "none" /\ answer'.kind = "error"
  BY GivingUp DEF CarryInv, PhaseInv, Fail, Error, ends, bytes
<1>2. \A d : ~Late(d) /\ ~Late(d)'
  BY <1>1 DEF Late
<1> QED
  BY <1>1, <1>2 DEF CarryInv, StreamInv, Carried, Complete, NotBefore

(* The harness answers: it has sent nothing yet.                           *)
LEMMA ReplyCarries ==
    ASSUME CarryInv, Reply
    PROVE  StreamInv'
<1>1. /\ UNCHANGED <<ask, answer, sent, ended, inbox, held, outbox, got>>
      /\ answer.kind = "none"
  BY DEF CarryInv, PhaseInv, Reply, bytes
<1>2. \A d : ~Late(d) /\ ~Late(d)'
  BY <1>1 DEF Late
<1> QED
  BY <1>1, <1>2 DEF CarryInv, StreamInv, Carried, Complete, NotBefore

LEMMA StreamStep == CarryInv /\ [Next]_vars => StreamInv'
<1> SUFFICES ASSUME CarryInv, [Next]_vars PROVE StreamInv'
  OBVIOUS
<1>1. ASSUME NEW d \in Ways, Write(d) \/ Fetch(d) \/ Forward(d) \/ Read(d)
      PROVE  StreamInv'
  BY <1>1, WriteCarries, MoveCarries
<1>2. ASSUME NEW d \in Ways, Finish(d) \/ See(d) \/ Shut(d)
      PROVE  StreamInv'
  <2>1. UNCHANGED <<ask, reply, answer, sent, inbox, held, outbox, got>>
    BY <1>2 DEF Finish, See, Shut, ends, bytes
  <2>2. \A e \in Ways : ended[e] => ended'[e]
    BY <1>2 DEF Finish, See, Shut, bytes, CarryInv, TypeOK
  <2> QED
    BY <2>1, <2>2, QuietStep
<1>3. CASE Die \/ Depart
  <2>1. UNCHANGED <<ask, reply, answer, sent, inbox, held, outbox, got>>
    BY <1>3 DEF Die, Depart
  <2>2. \A e \in Ways : ended[e] => ended'[e]
    BY <1>3 DEF Die, Depart, CarryInv, TypeOK, Ways
  <2> QED
    BY <2>1, <2>2, QuietStep
<1>4. CASE Connect \/ Join \/ Done \/ Break \/ Cancel \/ UNCHANGED vars
  <2>1. UNCHANGED <<ask, reply, answer, sent, inbox, held, outbox, got, ended>>
    BY <1>4 DEF Connect, Join, Done, Break, Cancel, vars, ends, bytes
  <2> QED
    BY <2>1, QuietStep
<1>5. CASE Reply
  BY <1>5, ReplyCarries
<1>6. CASE HttpHead \/ UpgradeHead
  BY <1>6, AnswerCarries
<1>7. CASE CollectDone
  BY <1>7, CollectCarries
<1>8. CASE GivesUp
  BY <1>8, GiveUpCarries
<1> QED
  BY <1>1, <1>2, <1>3, <1>4, <1>5, <1>6, <1>7, <1>8 DEF Next, GivesUp

LEMMA PhaseStep == CarryInv /\ [Next]_vars => PhaseInv'
<1> SUFFICES ASSUME CarryInv, [Next]_vars PROVE PhaseInv'
  OBVIOUS
<1> USE DEF IsUpgrade
<1>1. ASSUME NEW d \in Ways, Write(d)
      PROVE  PhaseInv'
  <2>1. UNCHANGED <<ask, handler, reply, answer>>
    BY <1>1 DEF Write, ends
  <2>2. reply.kind = "none" => sent'["down"] = sent["down"]
    BY <1>1 DEF Write, MayWrite, CarryInv, TypeOK, Ways
  <2> QED
    BY <2>1, <2>2 DEF CarryInv, PhaseInv
<1>2. ASSUME NEW d \in Ways,
             Fetch(d) \/ Forward(d) \/ Read(d) \/ Finish(d) \/ See(d) \/ Shut(d)
      PROVE  PhaseInv'
  <2>1. UNCHANGED <<ask, handler, reply, answer, sent>>
    BY <1>2 DEF Fetch, Forward, Read, Finish, See, Shut, ends, bytes
  <2> QED
    BY <2>1 DEF CarryInv, PhaseInv
<1>3. CASE Die \/ Depart \/ UNCHANGED vars
  BY <1>3 DEF CarryInv, PhaseInv, Die, Depart, vars, ends, bytes
<1>4. CASE Reply
  BY <1>4 DEF CarryInv, PhaseInv, Reply, bytes
<1>5. CASE Connect \/ Join \/ Done \/ Break \/ Cancel
  BY <1>5 DEF CarryInv, PhaseInv, Connect, Join, Done, Break, Cancel, ends, bytes
<1>6. CASE HttpHead
  BY <1>6 DEF CarryInv, PhaseInv, HttpHead, is_rewritable_html, ends, bytes
<1>7. CASE UpgradeHead
  BY <1>7 DEF CarryInv, PhaseInv, UpgradeHead, ends, bytes
<1>8. CASE CollectDone
  BY <1>8 DEF CarryInv, PhaseInv, CollectDone, ends
<1>9. CASE GivesUp
  BY <1>9, GivingUp DEF CarryInv, PhaseInv, Fail, Error, ends, bytes
<1> QED
  BY <1>1, <1>2, <1>3, <1>4, <1>5, <1>6, <1>7, <1>8, <1>9 DEF Next, GivesUp

LEMMA FailedStays == CarryInv /\ [Next]_vars /\ Failed => Failed'
<1> SUFFICES ASSUME CarryInv, [Next]_vars, Failed PROVE Failed'
  OBVIOUS
<1>1. answer.kind = "error" => handler = "over"
  BY DEF CarryInv, PhaseInv
<1>2. ASSUME NEW d \in Ways,
             \/ Write(d) \/ Fetch(d) \/ Forward(d) \/ Read(d)
             \/ Finish(d) \/ See(d) \/ Shut(d)
      PROVE  Failed'
  BY <1>2 DEF Failed, Write, Fetch, Forward, Read, Finish, See, Shut, ends
<1>3. CASE Reply \/ Die \/ Depart \/ UNCHANGED vars
  BY <1>3 DEF Failed, Reply, Die, Depart, vars, ends
<1>4. CASE Connect \/ Join \/ Done \/ Break \/ Cancel
  BY <1>4 DEF Failed, Connect, Join, Done, Break, Cancel, ends
<1>5. CASE HttpHead \/ UpgradeHead \/ CollectDone
  BY <1>1, <1>5 DEF Failed, HttpHead, UpgradeHead, CollectDone, ends
<1>6. CASE GivesUp
  BY <1>6, GivingUp DEF Failed, Fail, Error, ends
<1> QED
  BY <1>2, <1>3, <1>4, <1>5, <1>6 DEF Next, GivesUp

LEMMA EndedStep == CarryInv /\ [Next]_vars => Ended'
<1> SUFFICES ASSUME CarryInv, [Next]_vars PROVE Ended'
  OBVIOUS
<1>1. BytesOK /\ ended \in [Ways -> BOOLEAN] /\ shut \in [Ways -> Marks]
  BY DEF CarryInv, TypeOK, BytesOK
<1>2. Failed => Failed'
  BY FailedStays
<1>3. ASSUME NEW d \in Ways, Write(d) \/ Fetch(d) \/ Forward(d) \/ Read(d)
      PROVE  Ended'
  <2>1. UNCHANGED <<shut, ended, answer>>
    BY <1>3 DEF Write, Fetch, Forward, Read
  <2>2. ASSUME NEW e \in Ways, shut[e] = "end"
        PROVE  inbox'[e] = inbox[e] /\ held'[e] = held[e]
    <3>1. ended[e] /\ inbox[e] = <<>> /\ held[e] = <<>>
      BY <2>2 DEF CarryInv, Ended
    <3>2. CASE e # d
      BY <1>1, <1>3, <3>2 DEF BytesOK, Write, Fetch, Forward, Read
    <3>3. CASE e = d
      BY <1>3, <3>1, <3>3 DEF Write, MayWrite, Fetch, Forward, Read
    <3> QED
      BY <3>2, <3>3
  <2> QED
    BY <1>2, <2>1, <2>2 DEF CarryInv, Ended
<1>4. ASSUME NEW d \in Ways, Finish(d) \/ See(d)
      PROVE  Ended'
  <2>1. UNCHANGED <<shut, inbox, held, answer>>
    BY <1>4 DEF Finish, See
  <2>2. \A e \in Ways : ended[e] => ended'[e]
    BY <1>1, <1>4 DEF Finish, See
  <2> QED
    BY <1>2, <2>1, <2>2 DEF CarryInv, Ended
<1>5. ASSUME NEW d \in Ways, Shut(d)
      PROVE  Ended'
  <2>1. /\ UNCHANGED <<answer, ended, inbox, held>>
        /\ shut' = [shut EXCEPT ![d] = "end"]
        /\ ended[d] /\ inbox[d] = <<>> /\ held[d] = <<>>
    BY <1>5 DEF Shut, bytes
  <2>2. d = "down" => answer.kind \in {"head", "switch"}
    BY <1>5 DEF CarryInv, PhaseInv, Shut, Passing
  <2> QED
    BY <1>1, <1>2, <2>1, <2>2 DEF CarryInv, Ended
<1>6. CASE Die \/ Depart
  <2>1. UNCHANGED <<shut, inbox, held, answer>>
    BY <1>6 DEF Die, Depart
  <2>2. \A e \in Ways : ended[e] => ended'[e]
    BY <1>1, <1>6 DEF Die, Depart, Ways
  <2> QED
    BY <1>2, <2>1, <2>2 DEF CarryInv, Ended
<1>7. CASE Connect \/ Join \/ Done \/ Reply \/ UNCHANGED vars
  <2>1. UNCHANGED <<shut, ended, inbox, held, answer>>
    BY <1>7 DEF Connect, Join, Done, Reply, vars, bytes
  <2> QED
    BY <1>2, <2>1 DEF CarryInv, Ended
<1>8. CASE Break \/ Cancel
  <2>1. UNCHANGED <<ended, inbox, held, answer>> /\ Close(Ways) /\ Failed
    BY <1>8 DEF Break, Cancel, Failed, bytes
  <2> QED
    BY <1>1, <1>2, <2>1 DEF CarryInv, Ended, Close
<1>9. CASE HttpHead \/ UpgradeHead
  <2>1. UNCHANGED <<shut, ended, inbox, held>> /\ answer'.kind \in {"head", "switch"} \cup {answer.kind}
    BY <1>9 DEF HttpHead, UpgradeHead, bytes
  <2> QED
    BY <1>2, <2>1 DEF CarryInv, Ended
<1>10. CASE CollectDone
  <2>1. /\ UNCHANGED <<shut, ended, inbox>> /\ answer'.kind = "head"
        /\ held'["up"] = held["up"]
    BY <1>1, <1>10 DEF CollectDone, BytesOK, Ways
  <2>2. shut["down"] # "end"
    BY <1>10 DEF CarryInv, PhaseInv, Ended, CollectDone, Ways
  <2> QED
    BY <1>2, <2>1, <2>2 DEF CarryInv, Ended, Ways
<1>11. CASE GivesUp
  <2>1. /\ UNCHANGED <<ended, inbox, held>> /\ Close({"up"})
        /\ answer.kind = "none" /\ answer'.kind = "error"
    BY <1>11, GivingUp DEF CarryInv, PhaseInv, Fail, Error, bytes
  <2>2. Failed'
    BY <2>1 DEF Failed
  <2>3. shut["down"] # "end"
    BY <2>1 DEF CarryInv, Ended, Ways
  <2> QED
    BY <1>1, <2>1, <2>2, <2>3 DEF CarryInv, Ended, Close, Ways
<1> QED
  BY <1>3, <1>4, <1>5, <1>6, <1>7, <1>8, <1>9, <1>10, <1>11 DEF Next, GivesUp

LEMMA CarryNext == CarryInv /\ [Next]_vars => CarryInv'
BY TypeNext, PhaseStep, StreamStep, EndedStep DEF CarryInv

LEMMA CarryAlways == SafeSpec => []CarryInv
BY CarryInit, CarryNext, PTL DEF SafeSpec

-----------------------------------------------------------------------------
(* Each direction is a Pipe.                                               *)

\* What the reader of a direction is to see of what was written.
Seen(d) == IF d = "down" THEN Shown(sent[d]) ELSE sent[d]

\* The steps of Pipe, for either direction.
PipeStep(d) ==
    \/ /\ ~ended[d]
       /\ \E c \in Urls : Seen(d)' = Append(Seen(d), c)
       /\ UNCHANGED <<ended[d], got[d], seen[d], Failed>>
    \/ /\ ~ended[d] /\ ended'[d] = TRUE
       /\ UNCHANGED <<Seen(d), got[d], seen[d], Failed>>
    \/ /\ seen[d] = "open"
       /\ Len(got[d]) < Len(Seen(d))
       /\ got'[d] = Append(got[d], Seen(d)[Len(got[d]) + 1])
       /\ UNCHANGED <<Seen(d), ended[d], seen[d], Failed>>
    \/ /\ seen[d] = "open"
       /\ ended[d] /\ got[d] = Seen(d)
       /\ seen'[d] = "end"
       /\ UNCHANGED <<Seen(d), ended[d], got[d], Failed>>
    \/ /\ seen[d] = "open"
       /\ Failed
       /\ seen'[d] = "cut"
       /\ UNCHANGED <<Seen(d), ended[d], got[d], Failed>>
    \/ /\ Failed' = TRUE
       /\ ended'[d] \in {ended[d], TRUE}
       /\ UNCHANGED <<Seen(d), got[d], seen[d]>>

PipeStill(d) == UNCHANGED <<Seen(d), ended[d], got[d], seen[d], Failed>>

LEMMA ShownUrls ==
    ASSUME NEW s \in Seq(Urls)
    PROVE  Shown(s) \in Seq(Urls) /\ Len(Shown(s)) = Len(s)
<1>1. CASE ~ToRewrite
  BY <1>1 DEF Shown
<1>2. CASE ToRewrite
  <2>1. /\ Len(s) \in Nat /\ DOMAIN s = 1..Len(s)
        /\ \A i \in 1..Len(s) : s[i] \in Urls
    BY LenProperties, ElementOfSeq
  <2>2. Shown(s) \in [1..Len(s) -> Urls]
    BY <1>2, <2>1 DEF Shown, Urls
  <2> QED
    BY <2>1, <2>2
<1> QED
  BY <1>1, <1>2

LEMMA ShownAppend ==
    ASSUME NEW s \in Seq(Urls), NEW c \in Urls
    PROVE  \E e \in Urls : Shown(Append(s, c)) = Append(Shown(s), e)
<1>1. CASE ~ToRewrite
  BY <1>1 DEF Shown
<1>2. CASE ToRewrite
  <2> DEFINE url(u) == IF u \in {"root", "sibling"} THEN "inside" ELSE u
             t == Append(s, c)
  <2>1. /\ t \in Seq(Urls) /\ Len(t) = Len(s) + 1 /\ t[Len(s) + 1] = c
        /\ \A i \in 1..Len(s) : t[i] = s[i]
    BY AppendProperties
  <2>2. url(c) \in Urls
    BY DEF Urls
  <2> HIDE DEF t
  <2>3. /\ Shown(s) \in Seq(Urls) /\ Len(Shown(s)) = Len(s)
        /\ Shown(t) \in Seq(Urls) /\ Len(Shown(t)) = Len(t)
    BY <2>1, ShownUrls
  <2>4. /\ DOMAIN s = 1..Len(s) /\ DOMAIN t = 1..Len(t)
        /\ Len(s) \in Nat
    BY <2>1, LenProperties
  <2>5. /\ \A i \in 1..Len(s) : Shown(s)[i] = url(s[i])
        /\ \A i \in 1..Len(t) : Shown(t)[i] = url(t[i])
    BY <1>2, <2>4 DEF Shown
  <2> DEFINE u == Append(Shown(s), url(c))
  <2>6. /\ u \in Seq(Urls) /\ Len(u) = Len(s) + 1 /\ u[Len(s) + 1] = url(c)
        /\ \A i \in 1..Len(s) : u[i] = Shown(s)[i]
    BY <2>2, <2>3, AppendProperties
  <2> HIDE DEF u, url
  <2>7. ASSUME NEW i \in 1..Len(t) PROVE Shown(t)[i] = u[i]
    <3>1. CASE i = Len(s) + 1
      BY <2>1, <2>5, <2>6, <3>1
    <3>2. CASE i # Len(s) + 1
      <4>1. i \in 1..Len(s)
        BY <2>1, <2>4, <3>2
      <4> QED
        BY <4>1, <2>1, <2>5, <2>6
    <3> QED
      BY <3>1, <3>2
  <2>8. Shown(t) = u
    BY <2>1, <2>3, <2>6, <2>7, SeqEqual
  <2> QED
    BY <2>2, <2>8 DEF t, u
<1> QED
  BY <1>1, <1>2

LEMMA ShownEmpty == Shown(<<>>) = <<>>
<1>1. <<>> \in Seq(Urls)
  BY EmptySeq
<1> QED
  BY <1>1, ShownUrls, EmptySeq, LenProperties

(* From the answer on, what is on the way is what the reader is to see.    *)
LEMMA SeenIsStream ==
    ASSUME CarryInv, NEW d \in Ways, d = "down" => answer.kind \in {"head", "switch"}
    PROVE  Seen(d) = Stream(got[d], outbox[d], held[d], inbox[d])
<1>1. CASE d = "up"
  BY <1>1 DEF CarryInv, StreamInv, Carried, Seen, Late
<1>2. CASE Late("down") /\ d = "down"
  BY <1>2 DEF CarryInv, StreamInv, Carried, Seen
<1>3. CASE ~Late("down") /\ d = "down"
  <2>1. ~ToRewrite
    BY <1>3 DEF CarryInv, PhaseInv, Late, ToRewrite
  <2> QED
    BY <1>3, <2>1 DEF CarryInv, StreamInv, Carried, Seen, Shown
<1> QED
  BY <1>1, <1>2, <1>3 DEF Ways

(* What the reader is to see changes only when the writer writes.          *)
LEMMA SeenStays ==
    ASSUME CarryInv, UNCHANGED <<ask, sent>>,
           reply' = reply \/ reply.kind = "none",
           NEW d \in Ways
    PROVE  Seen(d)' = Seen(d)
<1>1. CASE reply' = reply
  BY <1>1 DEF Seen, Shown, ToRewrite, IsUpgrade
<1>2. CASE reply.kind = "none" /\ d = "down"
  <2>1. sent["down"] = <<>> /\ sent'["down"] = <<>>
    BY <1>2 DEF CarryInv, PhaseInv
  <2>2. (Shown(<<>>) = <<>>)'
    BY ShownEmpty, PTL
  <2>3. Shown(sent["down"])' = Shown(<<>>)'
    BY <2>1 DEF Shown
  <2> QED
    BY <1>2, <2>1, <2>2, <2>3, ShownEmpty DEF Seen
<1>3. CASE d # "down"
  BY <1>3 DEF Seen
<1> QED
  BY <1>1, <1>2, <1>3

LEMMA WriteIsPipe ==
    ASSUME CarryInv, NEW d \in Ways, NEW e \in Ways, Write(d)
    PROVE  PipeStep(e) \/ PipeStill(e)
<1>1. PICK c \in Written[d] : sent' = [sent EXCEPT ![d] = Append(@, c)]
  BY DEF Write
<1>2. c \in Urls /\ BytesOK
  BY RelayAssumption DEF CarryInv, TypeOK, BytesOK
<1>3. /\ UNCHANGED <<ask, reply, ended, got, seen>> /\ Failed' = Failed
      /\ ToRewrite' = ToRewrite
  BY DEF Write, ends, Failed, ToRewrite, IsUpgrade
<1>4. CASE e # d
  <2>1. sent'[e] = sent[e]
    BY <1>1, <1>2, <1>4 DEF BytesOK
  <2> QED
    BY <1>3, <2>1 DEF PipeStill, Seen, Shown
<1>5. CASE e = d
  <2>1. sent'[d] = Append(sent[d], c) /\ sent[d] \in Seq(Urls)
    BY <1>1, <1>2 DEF BytesOK
  <2>2. \E x \in Urls : Seen(d)' = Append(Seen(d), x)
    <3>1. CASE d = "up"
      BY <1>2, <2>1, <3>1 DEF Seen
    <3>2. CASE d = "down"
      <4>1. Seen(d)' = Shown(Append(sent[d], c))
        BY <1>3, <2>1, <3>2 DEF Seen, Shown
      <4>2. PICK x \in Urls : Shown(Append(sent[d], c)) = Append(Shown(sent[d]), x)
        BY <1>2, <2>1, ShownAppend
      <4> QED
        BY <3>2, <4>1, <4>2 DEF Seen
    <3> QED
      BY <3>1, <3>2 DEF Ways
  <2>3. ~ended[d]
    BY DEF Write, MayWrite
  <2> QED
    BY <1>3, <1>5, <2>2, <2>3 DEF PipeStep
<1> QED
  BY <1>4, <1>5

(* Only a stream that has been answered is read, and only to its end.      *)
LEMMA Answered ==
    ASSUME CarryInv, NEW d \in Ways, outbox[d] # <<>> \/ shut[d] = "end"
    PROVE  d = "down" => answer.kind \in {"head", "switch"}
BY DEF CarryInv, TypeOK, StreamInv, NotBefore, Ended, Answers

LEMMA ReadIsPipe ==
    ASSUME CarryInv, NEW d \in Ways, NEW e \in Ways, Read(d) \/ See(d)
    PROVE  PipeStep(e) \/ PipeStill(e)
<1>1. /\ UNCHANGED <<ask, reply, sent, ended>> /\ Failed' = Failed
      /\ Seen(e)' = Seen(e)
  <2>1. UNCHANGED <<ask, reply, sent, ended>> /\ Failed' = Failed
    BY DEF Read, See, ends, Failed
  <2> QED
    BY <2>1, SeenStays
<1>2. BytesOK /\ seen \in [Ways -> Marks]
  BY DEF CarryInv, TypeOK, BytesOK
<1>3. CASE e # d
  <2>1. got'[e] = got[e] /\ seen'[e] = seen[e]
    BY <1>2, <1>3 DEF Read, See, BytesOK
  <2> QED
    BY <1>1, <2>1 DEF PipeStill
<1>4. CASE e = d /\ Read(d)
  <2>1. /\ got[d] \in Seq(Urls) /\ outbox[d] \in Seq(Urls)
        /\ held[d] \in Seq(Urls) /\ inbox[d] \in Seq(Urls)
        /\ outbox[d] # <<>>
    BY <1>2, <1>4 DEF BytesOK, Read
  <2>2. Seen(d) = Stream(got[d], outbox[d], held[d], inbox[d])
    BY <2>1, Answered, SeenIsStream
  <2>3. IsShorter(got[d], Seen(d)) /\ After(got[d], Seen(d)) = First(outbox[d])
    BY <2>1, <2>2, StreamNext
  <2>4. /\ got'[d] = Append(got[d], Head(outbox[d])) /\ UNCHANGED seen
        /\ seen[d] = "open"
    BY <1>2, <1>4 DEF Read, Reading, BytesOK
  <2> QED
    BY <1>1, <1>4, <2>3, <2>4 DEF PipeStep, IsShorter, After, First
<1>5. CASE e = d /\ See(d)
  <2>1. /\ seen[d] = "open" /\ seen'[d] = shut[d] /\ UNCHANGED got
        /\ (shut[d] = "end" /\ outbox[d] = <<>>) \/ shut[d] = "cut"
    BY <1>2, <1>5 DEF See, Reading
  <2>2. CASE shut[d] = "cut"
    <3>1. Failed
      BY <2>2 DEF CarryInv, Ended
    <3> QED
      BY <1>1, <1>5, <2>1, <2>2, <3>1 DEF PipeStep
  <2>3. CASE shut[d] = "end"
    <3>1. /\ ended[d] /\ outbox[d] = <<>> /\ held[d] = <<>> /\ inbox[d] = <<>>
      BY <2>1, <2>3 DEF CarryInv, Ended
    <3>2. Seen(d) = Stream(got[d], outbox[d], held[d], inbox[d])
      BY <2>3, Answered, SeenIsStream
    <3>3. Seen(d) = got[d]
      BY <1>2, <3>1, <3>2, StreamEnds DEF BytesOK
    <3> QED
      BY <1>1, <1>5, <2>1, <2>3, <3>1, <3>3 DEF PipeStep
  <2> QED
    BY <2>1, <2>2, <2>3
<1> QED
  BY <1>3, <1>4, <1>5

(* A failure of either end, or a request that is given up.                 *)
LEMMA FailureIsPipe ==
    ASSUME CarryInv, NEW e \in Ways, Die \/ Depart \/ GivesUp
    PROVE  PipeStep(e)
<1>1. UNCHANGED <<ask, reply, sent, got, seen>>
  BY GivingUp DEF Die, Depart, ends, bytes
<1>2. Failed' = TRUE
  BY GivingUp DEF Die, Depart, Failed, Fail, Error
<1>3. ended'[e] \in {ended[e], TRUE}
  <2>1. ended \in [Ways -> BOOLEAN]
    BY DEF CarryInv, TypeOK
  <2>2. CASE Die
    BY <2>1, <2>2 DEF Die, Ways
  <2>3. CASE Depart
    BY <2>1, <2>3 DEF Depart, Ways
  <2>4. CASE GivesUp
    BY <2>4, GivingUp DEF bytes
  <2> QED
    BY <2>2, <2>3, <2>4
<1>4. Seen(e)' = Seen(e)
  BY <1>1, SeenStays
<1> QED
  BY <1>1, <1>2, <1>3, <1>4 DEF PipeStep

(* Every other step of the relay.                                          *)
LEMMA RestIsStill ==
    ASSUME CarryInv, NEW e \in Ways,
           \/ Reply \/ Connect \/ HttpHead \/ UpgradeHead \/ CollectDone
           \/ Join \/ Done \/ Break \/ Cancel \/ UNCHANGED vars
           \/ \E d \in Ways : Fetch(d) \/ Forward(d) \/ Shut(d)
    PROVE  PipeStill(e)
<1>1. UNCHANGED <<ask, sent, ended, got, seen, harness, browser>>
  BY DEF Reply, Connect, HttpHead, UpgradeHead, CollectDone, Join, Done, Break, Cancel,
         vars, Fetch, Forward, Shut, ends, bytes
<1>2. reply' = reply \/ reply.kind = "none"
  BY DEF Reply, Connect, HttpHead, UpgradeHead, CollectDone, Join, Done, Break, Cancel,
         vars, Fetch, Forward, Shut, ends, bytes
<1>3. (answer'.kind = "error") = (answer.kind = "error")
  <2>1. CASE HttpHead \/ UpgradeHead \/ CollectDone
    BY <2>1 DEF HttpHead, UpgradeHead, CollectDone, CarryInv, PhaseInv
  <2>2. CASE ~(HttpHead \/ UpgradeHead \/ CollectDone)
    <3>1. answer' = answer
      BY <2>2 DEF Reply, Connect, Join, Done, Break, Cancel, vars, Fetch, Forward, Shut
    <3> QED
      BY <3>1
  <2> QED
    BY <2>1, <2>2
<1>4. Seen(e)' = Seen(e)
  BY <1>1, <1>2, SeenStays
<1> QED
  BY <1>1, <1>3, <1>4 DEF PipeStill, Failed

LEMMA PipeNext ==
    ASSUME CarryInv, [Next]_vars, NEW e \in Ways
    PROVE  PipeStep(e) \/ PipeStill(e)
<1>1. ASSUME NEW d \in Ways, Write(d) PROVE PipeStep(e) \/ PipeStill(e)
  BY <1>1, WriteIsPipe
<1>2. ASSUME NEW d \in Ways, Finish(d) PROVE PipeStep(e) \/ PipeStill(e)
  <2>1. UNCHANGED <<ask, reply, sent, got, seen>> /\ Failed' = Failed
    BY <1>2 DEF Finish, ends, Failed
  <2>2. Seen(e)' = Seen(e)
    BY <2>1, SeenStays
  <2>3. ~ended[d] /\ ended' = [ended EXCEPT ![d] = TRUE] /\ ended \in [Ways -> BOOLEAN]
    BY <1>2 DEF Finish, MayWrite, CarryInv, TypeOK
  <2> QED
    BY <2>1, <2>2, <2>3 DEF PipeStep, PipeStill
<1>3. ASSUME NEW d \in Ways, Read(d) \/ See(d) PROVE PipeStep(e) \/ PipeStill(e)
  BY <1>3, ReadIsPipe
<1>4. CASE Die \/ Depart \/ GivesUp
  BY <1>4, FailureIsPipe
<1>5. CASE \/ Reply \/ Connect \/ HttpHead \/ UpgradeHead \/ CollectDone
           \/ Join \/ Done \/ Break \/ Cancel \/ UNCHANGED vars
           \/ \E d \in Ways : Fetch(d) \/ Forward(d) \/ Shut(d)
  BY <1>5, RestIsStill
<1> QED
  BY <1>1, <1>2, <1>3, <1>4, <1>5 DEF Next, GivesUp

(* Both directions of a relayed connection are Pipes: what is read is what *)
(* was written, in order, with the URLs of a page under the prefix, and it *)
(* is taken for complete only if it is, whatever fails (proxy.rs,          *)
(* forward_http, forward_upgrade and the copying they start).              *)
THEOREM RelayFaithful == SafeSpec => Faithful
<1>1. Init => Up!Init /\ Down!Init
  BY ShownEmpty DEF Init, Up!Init, Down!Init, Empty, Ways, Failed, NoAnswer
<1>2. CarryInv /\ [Next]_vars => [Up!Next]_Up!vars
  <2> SUFFICES ASSUME CarryInv, [Next]_vars PROVE [Up!Next]_Up!vars
    OBVIOUS
  <2>1. PipeStep("up") \/ PipeStill("up")
    BY PipeNext DEF Ways
  <2> QED
    BY <2>1 DEF PipeStep, PipeStill, Seen, Up!Next, Up!vars, Up!Write, Up!Finish, Up!Read,
                Up!SeeEnd, Up!SeeCut, Up!Fail
<1>3. CarryInv /\ [Next]_vars => [Down!Next]_Down!vars
  <2> SUFFICES ASSUME CarryInv, [Next]_vars PROVE [Down!Next]_Down!vars
    OBVIOUS
  <2>1. PipeStep("down") \/ PipeStill("down")
    BY PipeNext DEF Ways
  <2> QED
    BY <2>1 DEF PipeStep, PipeStill, Seen, Down!Next, Down!vars, Down!Write, Down!Finish,
                Down!Read, Down!SeeEnd, Down!SeeCut, Down!Fail
<1> QED
  BY <1>1, <1>2, <1>3, CarryAlways, PTL DEF SafeSpec, Faithful, Up!Spec, Down!Spec

-----------------------------------------------------------------------------
(* The browser stays inside the instance.                                  *)

EncodingInv ==
    /\ passed \subseteq Passed(ask.headers)
    /\ reply.location \in Locations \cup {"none"}

LocationInv ==
    ask.routed /\ ~IsUpgrade => answer.location \notin {"root", "sibling"}

LEMMA EncodingStep == EncodingInv /\ [Next]_vars => EncodingInv'
<1> SUFFICES ASSUME EncodingInv, [Next]_vars PROVE EncodingInv'
  OBVIOUS
<1>1. CASE Reply
  BY <1>1 DEF EncodingInv, Reply, Passed, filter_headers, IsUpgrade, wants_html_rewrite
<1>2. CASE Connect
  BY <1>2 DEF EncodingInv, Connect, Passed, filter_headers, IsUpgrade, wants_html_rewrite,
              ends
<1>3. CASE ~Reply /\ ~Connect
  <2>1. UNCHANGED <<ask, passed, reply>>
    <3>1. ASSUME NEW d \in Ways,
                 \/ Write(d) \/ Fetch(d) \/ Forward(d) \/ Read(d)
                 \/ Finish(d) \/ See(d) \/ Shut(d)
          PROVE  UNCHANGED <<ask, passed, reply>>
      BY <3>1 DEF Write, Fetch, Forward, Read, Finish, See, Shut, ends
    <3>2. CASE \/ Die \/ Depart \/ HttpHead \/ UpgradeHead \/ CollectDone
               \/ Join \/ Done \/ Break \/ Cancel \/ UNCHANGED vars
      BY <3>2 DEF Die, Depart, HttpHead, UpgradeHead, CollectDone, Join, Done, Break,
                  Cancel, vars, ends
    <3>3. CASE GivesUp
      BY <3>3, GivingUp DEF ends
    <3> QED
      BY <1>3, <3>1, <3>2, <3>3 DEF Next, GivesUp
  <2> QED
    BY <2>1 DEF EncodingInv, Passed, filter_headers, IsUpgrade, wants_html_rewrite
<1> QED
  BY <1>1, <1>2, <1>3

LEMMA LocationStep ==
    ASSUME "sibling" \notin Locations
    PROVE  EncodingInv /\ LocationInv /\ [Next]_vars => LocationInv'
<1> SUFFICES ASSUME EncodingInv, LocationInv, [Next]_vars PROVE LocationInv'
  OBVIOUS
<1>1. CASE HttpHead \/ CollectDone
  <2>1. /\ UNCHANGED <<ask, reply>>
        /\ answer' = answer \/ answer'.location = reattach_prefix(reply.location)
    BY <1>1 DEF HttpHead, CollectDone, ends
  <2>2. reply.location # "sibling"
    BY DEF EncodingInv
  <2> QED
    BY <2>1, <2>2 DEF LocationInv, reattach_prefix, IsUpgrade
<1>2. CASE UpgradeHead
  BY <1>2 DEF UpgradeHead, LocationInv, IsUpgrade
<1>3. CASE GivesUp
  BY <1>3, GivingUp DEF LocationInv, Fail, Error, IsUpgrade
<1>4. CASE \/ Reply \/ Die \/ Depart \/ Connect \/ Join \/ Done \/ Break \/ Cancel
           \/ UNCHANGED vars
  BY <1>4 DEF LocationInv, Reply, Die, Depart, Connect, Join, Done, Break, Cancel, vars,
              IsUpgrade
<1>5. ASSUME NEW d \in Ways,
             \/ Write(d) \/ Fetch(d) \/ Forward(d) \/ Read(d)
             \/ Finish(d) \/ See(d) \/ Shut(d)
      PROVE  LocationInv'
  BY <1>5 DEF LocationInv, Write, Fetch, Forward, Read, Finish, See, Shut, IsUpgrade
<1> QED
  BY <1>1, <1>2, <1>3, <1>4, <1>5 DEF Next, GivesUp

Agree(s, t, i) == i \in DOMAIN t /\ t[i] = s[i]

LEMMA StreamBegins ==
    ASSUME NEW g \in Seq(Urls), NEW o \in Seq(Urls), NEW h \in Seq(Urls),
           NEW n \in Seq(Urls), NEW i \in DOMAIN g
    PROVE  Agree(g, Stream(g, o, h, n), i)
<1> DEFINE rest == o \o (h \o n)
<1>1. rest \in Seq(Urls)
  <2>1. h \o n \in Seq(Urls)
    BY ConcatProperties
  <2> QED
    BY <2>1, ConcatProperties
<1> HIDE DEF rest
<1>2. /\ g \o rest \in Seq(Urls)
      /\ Len(g \o rest) = Len(g) + Len(rest)
      /\ \A k \in 1..Len(g) + Len(rest) :
             (g \o rest)[k] = IF k <= Len(g) THEN g[k] ELSE rest[k - Len(g)]
  BY <1>1, ConcatProperties
<1>3. /\ Len(g) \in Nat /\ Len(rest) \in Nat /\ DOMAIN g = 1..Len(g)
      /\ DOMAIN (g \o rest) = 1..Len(g \o rest)
  BY <1>1, <1>2, LenProperties
<1>4. i \in 1..Len(g) + Len(rest) /\ i <= Len(g)
  BY <1>3
<1> QED
  BY <1>2, <1>3, <1>4 DEF Stream, rest, Agree

(* A page or a redirect never leads the browser out of the instance, if a  *)
(* harness redirects to no path beside its prefix, unless it has encoded   *)
(* the page although the relay did not tell it that it may                 *)
(* (proxy.rs, filter_headers, rewrite_root_absolute_urls, reattach_prefix).*)
THEOREM RelayStaysInside ==
    ASSUME "sibling" \notin Locations
    PROVE  SafeSpec => []StaysInside
<1>1. Init => EncodingInv /\ LocationInv
  BY DEF Init, EncodingInv, LocationInv, NoReply, NoAnswer
<1>2. EncodingInv /\ LocationInv /\ [Next]_vars => (EncodingInv /\ LocationInv)'
  BY EncodingStep, LocationStep
<1>3. CarryInv /\ EncodingInv /\ LocationInv => StaysInside
  <2> SUFFICES ASSUME CarryInv, EncodingInv, LocationInv, ask.routed, ~IsUpgrade
               PROVE  /\ answer.location \notin {"root", "sibling"}
                      /\ "accept-html" \in ask.headers /\ reply.kind = "html" =>
                             \/ reply.encoded /\ "accept-encoding" \notin passed
                             \/ \A i \in DOMAIN got["down"] :
                                    got["down"][i] \notin {"root", "sibling"}
    BY DEF StaysInside
  <2>1. answer.location \notin {"root", "sibling"}
    BY DEF LocationInv
  <2>2. ASSUME "accept-html" \in ask.headers
        PROVE  "accept-encoding" \notin passed
    BY <2>2 DEF EncodingInv, Passed, wants_html_rewrite
  <2>3. ASSUME reply.kind = "html", ~reply.encoded,
               NEW i \in DOMAIN got["down"]
        PROVE  got["down"][i] \notin {"root", "sibling"}
    <3>1. BytesOK /\ reply.encoded \in BOOLEAN /\ answer \in Answers
      BY DEF CarryInv, TypeOK, BytesOK, Replies
    <3>2. ToRewrite
      BY <2>3 DEF ToRewrite
    <3>3. got["down"] # <<>>
      BY <2>3
    <3>4. answer.kind = "head"
      BY <3>1, <3>3 DEF CarryInv, PhaseInv, StreamInv, NotBefore, Answers
    <3>5. Shown(sent["down"])
            = Stream(got["down"], outbox["down"], held["down"], inbox["down"])
      BY <3>2, <3>4 DEF CarryInv, StreamInv, Carried, Late, Ways
    <3> DEFINE shown == Shown(sent["down"])
    <3>6. i \in DOMAIN shown /\ shown[i] = got["down"][i]
      <4>1. Agree(got["down"],
                  Stream(got["down"], outbox["down"], held["down"], inbox["down"]), i)
        BY <2>3, <3>1, StreamBegins DEF BytesOK, Ways
      <4> QED
        BY <3>5, <4>1 DEF Agree
    <3>7. \A k \in DOMAIN shown : shown[k] \notin {"root", "sibling"}
      BY <3>2 DEF Shown
    <3> QED
      BY <3>6, <3>7
  <2>4. reply.encoded \in BOOLEAN
    BY DEF CarryInv, TypeOK, Replies
  <2> QED
    BY <2>1, <2>2, <2>3, <2>4
<1> QED
  BY <1>1, <1>2, <1>3, CarryAlways, PTL DEF SafeSpec

=============================================================================
