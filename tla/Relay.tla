------------------------------- MODULE Relay --------------------------------
(***************************************************************************)
(* One request through the relay: a browser asks, the relay connects to    *)
(* the harness of an instance and passes on what the two write.  Requests  *)
(* share nothing but a configuration that does not change, so one is all.  *)
(*                                                                         *)
(*   connect -> headers -> collect -> stream -> over      ordinary         *)
(*                      -> stream ------------> over                       *)
(*                      -> joining -> tunnel -> over      WebSocket        *)
(*                                                                         *)
(* hyper and tokio carry the bytes: a chunk goes from its writer to inbox  *)
(* (a socket), to held (the relay), to outbox (a socket), to its reader.   *)
(* A chunk of a page stands for a URL in it.                               *)
(***************************************************************************)
EXTENDS Naturals, Sequences

CONSTANTS
    Requests,           \* what a browser may ask
    Locations,          \* redirects a harness may answer with
    Written,            \* what is written in each direction
    MaxChunks,          \* bound on how much is written in each direction
    max_buffered_body   \* how many chunks a page may have

(* root      a path of the harness, /plugins/x                             *)
(* inside    the same path under the prefix of the instance                *)
(* sibling   a path that begins like the prefix but is not under it        *)
(* other     anything else: a relative URL, another origin, plain text     *)
Urls == {"root", "inside", "sibling", "other"}
Ways == {"up", "down"}

Headers == {"upgrade", "accept-html", "accept-encoding"}

\* routed: the path is under a prefix.
Asks == [headers : SUBSET Headers, routed : BOOLEAN]

ASSUME RelayAssumption ==
    /\ Requests \subseteq Asks
    /\ Locations \subseteq Urls
    /\ Written \in [Ways -> SUBSET Urls]
    /\ MaxChunks \in [Ways -> Nat]
    /\ max_buffered_body \in Nat

VARIABLES
    ask,        \* the request
    passed,     \* its headers as the harness gets them
    handler,    \* where the relay is
    wire,       \* the relay's connection to the harness
    harness,    \* "absent", "up" or "gone"
    browser,    \* whether the browser is still there
    reply,      \* what the harness answers
    answer,     \* what the relay answers
    sent, ended,            \* by the writer of each direction
    inbox, held, outbox,    \* on the way
    shut,       \* what the relay has told the reader after outbox
    got, seen   \* by the reader

ends  == <<harness, browser, reply>>
bytes == <<sent, ended, inbox, held, outbox, got, seen>>
vars  == <<ask, passed, handler, wire, ends, answer, bytes, shut>>

Marks   == {"open", "end", "cut"}
NoReply == [kind |-> "none", encoded |-> FALSE, location |-> "none"]

Replies ==
    [kind : {"none", "switch", "html", "plain"}, encoded : BOOLEAN,
     location : Urls \cup {"none"}]

Answers ==
    [kind : {"none", "error", "switch", "head"}, location : Urls \cup {"none"}]

NoAnswer == [kind |-> "none", location |-> "none"]
Error    == [kind |-> "error", location |-> "none"]

TypeOK ==
    /\ ask \in Asks
    /\ passed \subseteq Headers
    /\ handler \in {"connect", "headers", "collect", "stream", "joining",
                    "tunnel", "over"}
    /\ wire \in {"none", "open", "closed"}
    /\ harness \in {"absent", "up", "gone"}
    /\ browser \in BOOLEAN
    /\ reply \in Replies
    /\ answer \in Answers
    /\ sent \in [Ways -> Seq(Urls)]
    /\ ended \in [Ways -> BOOLEAN]
    /\ inbox \in [Ways -> Seq(Urls)]
    /\ held \in [Ways -> Seq(Urls)]
    /\ outbox \in [Ways -> Seq(Urls)]
    /\ shut \in [Ways -> Marks]
    /\ got \in [Ways -> Seq(Urls)]
    /\ seen \in [Ways -> Marks]

Empty == [d \in Ways |-> <<>>]

Init ==
    /\ ask \in Requests
    /\ passed = {}
    /\ handler = "connect" /\ wire = "none"
    /\ harness \in {"absent", "up"}
    /\ browser = TRUE
    /\ reply = NoReply /\ answer = NoAnswer
    /\ sent = Empty /\ inbox = Empty /\ held = Empty /\ outbox = Empty
    /\ got = Empty
    /\ ended = [d \in Ways |-> FALSE]
    /\ shut = [d \in Ways |-> "open"]
    /\ seen = [d \in Ways |-> "open"]

-----------------------------------------------------------------------------
(* Headers and URLs.                                                       *)

IsUpgrade == "upgrade" \in ask.headers

\* filter_headers: Upgrade is for one hop.  Connection names no other header.
filter_headers(headers) == headers \ {"upgrade"}

\* Mutant of wants_html_rewrite: not recognised.
wants_html_rewrite_never(headers) == FALSE

wants_html_rewrite(headers) == "accept-html" \in headers

\* The headers the harness gets.
Passed(headers) ==
    IF IsUpgrade THEN filter_headers(headers) \cup {"upgrade"}
    ELSE filter_headers(headers)
             \ (IF wants_html_rewrite(headers) THEN {"accept-encoding"} ELSE {})

\* Mutant of is_rewritable_html: the encoding is not looked at.
is_rewritable_encoded(r) == r.kind = "html"

is_rewritable_html(r) == r.kind = "html" /\ ~r.encoded

\* needs_prefix, by path segments.
needs_prefix(url) == url \in {"root", "sibling"}

\* Rewriting a page, of a request that is routed; twice changes nothing more.
rewrite_root_absolute_urls(page) ==
    IF ~ask.routed THEN page
    ELSE [i \in DOMAIN page |-> IF needs_prefix(page[i]) THEN "inside" ELSE page[i]]

\* reattach_prefix, by characters: a sibling counts as inside.
reattach_prefix(url) == IF ask.routed /\ url = "root" THEN "inside" ELSE url

-----------------------------------------------------------------------------
(* The two ends.                                                           *)

\* The browser of a WebSocket waits for the switch, the harness for a request.
MayWrite(d) ==
    /\ ~ended[d]
    /\ IF d = "up" THEN browser /\ (IsUpgrade => answer.kind = "switch")
       ELSE harness = "up" /\ reply.kind # "none"

\* A redirect has no body.
Write(d) ==
    /\ MayWrite(d)
    /\ d = "down" => reply.location = "none"
    /\ Len(sent[d]) < MaxChunks[d]
    /\ \E c \in Written[d] :
           /\ sent' = [sent EXCEPT ![d] = Append(@, c)]
           /\ inbox' = [inbox EXCEPT ![d] = Append(@, c)]
    /\ UNCHANGED <<ask, passed, handler, wire, ends, answer, ended, held,
                   outbox, shut, got, seen>>

Finish(d) ==
    /\ MayWrite(d)
    /\ ended' = [ended EXCEPT ![d] = TRUE]
    /\ UNCHANGED <<ask, passed, handler, wire, ends, answer, sent, inbox, held,
                   outbox, shut, got, seen>>

Reading(d) == seen[d] = "open" /\ IF d = "up" THEN harness = "up" ELSE browser

Read(d) ==
    /\ Reading(d)
    /\ outbox[d] # <<>>
    /\ got' = [got EXCEPT ![d] = Append(@, Head(outbox[d]))]
    /\ outbox' = [outbox EXCEPT ![d] = Tail(@)]
    /\ UNCHANGED <<ask, passed, handler, wire, ends, answer, sent, ended, inbox,
                   held, shut, seen>>

\* The end, after all that was written, or a cut, which may lose some of it.
See(d) ==
    /\ Reading(d)
    /\ \/ shut[d] = "end" /\ outbox[d] = <<>>
       \/ shut[d] = "cut"
    /\ seen' = [seen EXCEPT ![d] = shut[d]]
    /\ UNCHANGED <<ask, passed, handler, wire, ends, answer, sent, ended, inbox,
                   held, outbox, shut, got>>

\* The harness answers.  It may encode a page although nothing it got says that
\* it may (is_rewritable_html: "a harness that compresses unconditionally"), and
\* switches only when asked.  Whether anything else is encoded makes no
\* difference.
Reply ==
    /\ harness = "up" /\ wire = "open" /\ handler = "headers"
    /\ reply.kind = "none"
    /\ reply' \in {r \in Replies :
           /\ r.kind # "none" /\ r.location \in Locations \cup {"none"}
           /\ r.location # "none" => r.kind = "plain"
           /\ r.encoded => r.kind = "html"
           /\ r.kind = "switch" => "upgrade" \in passed}
    /\ UNCHANGED <<ask, passed, handler, wire, harness, browser, answer, bytes,
                   shut>>

\* Its sockets are closed for it: what it wrote to a tunnel may end like that.
Die ==
    /\ harness = "up"
    /\ harness' = "gone"
    /\ \E e \in {ended["down"], ended["down"] \/ handler \in {"joining", "tunnel"}} :
           ended' = [ended EXCEPT !["down"] = e]
    /\ UNCHANGED <<ask, passed, handler, wire, browser, reply, answer, sent,
                   inbox, held, outbox, shut, got, seen>>

\* The tab is closed.
Depart ==
    /\ browser
    /\ browser' = FALSE
    /\ \E e \in {ended["up"], ended["up"] \/ handler = "tunnel"} :
           ended' = [ended EXCEPT !["up"] = e]
    /\ UNCHANGED <<ask, passed, handler, wire, harness, reply, answer, sent,
                   inbox, held, outbox, shut, got, seen>>

-----------------------------------------------------------------------------
(* The relay up to the answer.                                             *)

\* The relay's end of the connection is dropped, and with it the request.
Close(marks) ==
    /\ wire' = IF wire = "open" THEN "closed" ELSE wire
    /\ shut' = [d \in Ways |-> IF shut[d] # "open" THEN shut[d]
                               ELSE IF d \in marks THEN "cut" ELSE "open"]

\* error_response: a page that says what is wrong, with status 502.
Fail ==
    /\ browser
    /\ handler' = "over"
    /\ answer' = Error
    /\ Close({"up"})

\* forward, then forward_http or forward_upgrade up to send_request.
Connect ==
    /\ handler = "connect" /\ browser
    /\ harness = "up"
    /\ handler' = "headers"
    /\ wire' = "open"
    /\ passed' = Passed(ask.headers)
    /\ UNCHANGED <<ask, ends, answer, bytes, shut>>

\* Refused, or not accepted within connect_timeout.
ConnectFails ==
    /\ handler = "connect"
    /\ Fail
    /\ UNCHANGED <<ask, passed, ends, bytes>>

\* Mutant of HeadersTimeOut: only a connection that is lost ends the wait.
HeadersNeverTimeOut ==
    /\ handler = "headers" /\ harness = "gone"
    /\ Fail
    /\ UNCHANGED <<ask, passed, ends, bytes>>

\* Not answered within request_timeout.
HeadersTimeOut ==
    /\ handler = "headers"
    /\ Fail
    /\ UNCHANGED <<ask, passed, ends, bytes>>

\* The harness goes before its answer is read.
RequestFails ==
    /\ handler = "headers"
    /\ harness = "gone"
    /\ Fail
    /\ UNCHANGED <<ask, passed, ends, bytes>>

\* forward_http: a page is collected first.
HttpHead ==
    /\ handler = "headers" /\ browser
    /\ reply.kind # "none" /\ ~IsUpgrade
    /\ IF is_rewritable_html(reply)
       THEN handler' = "collect" /\ UNCHANGED answer
       ELSE /\ handler' = "stream"
            /\ answer' = [kind |-> "head", location |-> reattach_prefix(reply.location)]
    /\ UNCHANGED <<ask, passed, wire, ends, bytes, shut>>

\* forward_upgrade: anything but a switch is handed back as it is.
UpgradeHead ==
    /\ handler = "headers" /\ browser
    /\ reply.kind # "none" /\ IsUpgrade
    /\ handler' = IF reply.kind = "switch" THEN "joining" ELSE "stream"
    /\ answer' = [kind |-> IF reply.kind = "switch" THEN "switch" ELSE "head",
                  location |-> reply.location]
    /\ UNCHANGED <<ask, passed, wire, ends, bytes, shut>>

Collected == inbox["down"] = <<>> /\ ended["down"]

CollectDone ==
    /\ handler = "collect" /\ browser
    /\ Collected
    /\ Len(held["down"]) <= max_buffered_body
    /\ held' = [held EXCEPT !["down"] = rewrite_root_absolute_urls(@)]
    /\ handler' = "stream"
    /\ answer' = [kind |-> "head", location |-> reattach_prefix(reply.location)]
    /\ UNCHANGED <<ask, passed, wire, ends, sent, ended, inbox, outbox, shut, got,
                   seen>>

\* It is too long, which is seen only when all of it is there.
CollectTooLong ==
    /\ handler = "collect"
    /\ Collected
    /\ Len(held["down"]) > max_buffered_body
    /\ Fail
    /\ UNCHANGED <<ask, passed, ends, bytes>>

CollectFails ==
    /\ handler = "collect"
    /\ harness = "gone"
    /\ Fail
    /\ UNCHANGED <<ask, passed, ends, bytes>>

-----------------------------------------------------------------------------
(* The relay as long as bytes pass.                                        *)

\* The body of the request goes up while the answer comes down.
Passing(d) ==
    /\ wire = "open"
    /\ \/ handler \in {"stream", "tunnel"}
       \/ d = "up" /\ handler \in {"headers", "collect"}

Fetch(d) ==
    /\ Passing(d) \/ (d = "down" /\ handler = "collect")
    /\ inbox[d] # <<>>
    /\ held' = [held EXCEPT ![d] = Append(@, Head(inbox[d]))]
    /\ inbox' = [inbox EXCEPT ![d] = Tail(@)]
    /\ UNCHANGED <<ask, passed, handler, wire, ends, answer, sent, ended, outbox,
                   shut, got, seen>>

Forward(d) ==
    /\ Passing(d)
    /\ held[d] # <<>>
    /\ outbox' = [outbox EXCEPT ![d] = Append(@, Head(held[d]))]
    /\ held' = [held EXCEPT ![d] = Tail(@)]
    /\ UNCHANGED <<ask, passed, handler, wire, ends, answer, sent, ended, inbox,
                   shut, got, seen>>

\* Mutant of Shut: the first direction to end ends the other one too.
ShutBoth(d) ==
    /\ Passing(d)
    /\ ended[d] /\ inbox[d] = <<>> /\ held[d] = <<>>
    /\ shut[d] = "open"
    /\ handler' = IF handler = "tunnel" THEN "over" ELSE handler
    /\ wire' = IF handler = "tunnel" THEN "closed" ELSE wire
    /\ shut' = IF handler = "tunnel" THEN [e \in Ways |-> "end"]
               ELSE [shut EXCEPT ![d] = "end"]
    /\ UNCHANGED <<ask, passed, ends, answer, bytes>>

\* The other direction goes on.
Shut(d) ==
    /\ Passing(d)
    /\ ended[d] /\ inbox[d] = <<>> /\ held[d] = <<>>
    /\ shut[d] = "open"
    /\ shut' = [shut EXCEPT ![d] = "end"]
    /\ UNCHANGED <<ask, passed, handler, wire, ends, answer, bytes>>

\* The tunnel starts when the browser has its 101.
Join ==
    /\ handler = "joining" /\ browser
    /\ handler' = "tunnel"
    /\ UNCHANGED <<ask, passed, wire, ends, answer, bytes, shut>>

Done ==
    /\ handler \in {"stream", "tunnel"}
    /\ shut["down"] = "end"
    /\ shut["up"] = "end" \/ (handler = "stream" /\ IsUpgrade)
    /\ handler' = "over"
    /\ wire' = "closed"
    /\ UNCHANGED <<ask, passed, ends, answer, bytes, shut>>

\* A read or a write fails because the harness is gone, or in a tunnel the
\* browser: both connections are dropped.
Break ==
    /\ handler \in {"stream", "tunnel"}
    /\ harness = "gone" \/ (handler = "tunnel" /\ ~browser)
    /\ handler' = "over"
    /\ Close(Ways)
    /\ UNCHANGED <<ask, passed, ends, answer, bytes>>

\* It fails for sure if the stream to read has not ended or there is something
\* to write.
Noticed ==
    \/ harness = "gone" /\ (~ended["down"] \/ held["up"] # <<>>)
    \/ ~browser /\ (~ended["up"] \/ held["down"] # <<>>)

\* Mutant of Cancel: the body of an answer is read to its end all the same.
CancelBefore ==
    /\ handler \notin {"tunnel", "over", "stream"}
    /\ ~browser
    /\ handler' = "over"
    /\ Close(Ways)
    /\ UNCHANGED <<ask, passed, ends, answer, bytes>>

\* The browser is gone: hyper drops the handler, or the body of its answer,
\* or the upgrade it waits for.
Cancel ==
    /\ handler \notin {"tunnel", "over"}
    /\ ~browser
    /\ handler' = "over"
    /\ Close(Ways)
    /\ UNCHANGED <<ask, passed, ends, answer, bytes>>

-----------------------------------------------------------------------------
Next ==
    \/ \E d \in Ways : \/ Write(d) \/ Finish(d)
                       \/ Read(d) \/ See(d)
                       \/ Fetch(d) \/ Forward(d) \/ Shut(d)
    \/ Reply \/ Die \/ Depart
    \/ Connect \/ ConnectFails \/ HeadersTimeOut \/ RequestFails
    \/ HttpHead \/ UpgradeHead \/ CollectDone \/ CollectTooLong \/ CollectFails
    \/ Join \/ Done \/ Break \/ Cancel

\* Tasks are scheduled, timers run out, and who is there reads.  A harness
\* ends what it has begun to answer once there is nobody to answer, and does
\* not stop in the middle of a page.  Nobody has to write, go or be up.
Fairness ==
    /\ \A d \in Ways : /\ WF_vars(Read(d)) /\ WF_vars(See(d))
                      /\ WF_vars(Fetch(d)) /\ WF_vars(Forward(d)) /\ WF_vars(Shut(d))
    /\ WF_vars(Connect \/ ConnectFails)
    /\ WF_vars(HeadersTimeOut)
    /\ WF_vars(HttpHead) /\ WF_vars(UpgradeHead)
    /\ WF_vars(CollectDone) /\ WF_vars(CollectTooLong)
    /\ WF_vars(Join) /\ WF_vars(Done) /\ WF_vars(Cancel)
    /\ WF_vars(Break /\ Noticed)
    /\ WF_vars(CollectFails)
    /\ WF_vars(Finish("down") /\ 
                (handler = "collect" \/ (handler = "tunnel" /\ seen["up"] # "open")))

SafeSpec == Init /\ [][Next]_vars

Spec == SafeSpec /\ Fairness

-----------------------------------------------------------------------------
(* Properties.                                                             *)

Failed == harness = "gone" \/ ~browser \/ answer.kind = "error"

\* A page the relay can read, of a request under a prefix.
ToRewrite == ask.routed /\ ~IsUpgrade /\ reply.kind = "html" /\ ~reply.encoded

\* What the browser is to see of a stream of chunks.
Shown(s) ==
    IF ToRewrite
    THEN [i \in DOMAIN s |-> IF s[i] \in {"root", "sibling"} THEN "inside" ELSE s[i]]
    ELSE s

Up == INSTANCE Pipe WITH
          Chunks <- Urls, MaxChunks <- MaxChunks["up"], sent <- sent["up"], ended <- ended["up"],
          got <- got["up"], seen <- seen["up"], failed <- Failed

Down == INSTANCE Pipe WITH
          Chunks <- Urls, MaxChunks <- MaxChunks["down"], sent <- Shown(sent["down"]), ended <- ended["down"],
          got <- got["down"], seen <- seen["down"], failed <- Failed

\* Each side reads what the other wrote, in order, with the URLs of a page
\* under the prefix and nothing else changed.  An upload that is cut is never
\* taken for a whole request, and a page that is cut never for a whole page,
\* although the relay removes its Content-Length (proxy.rs, forward_http).
Faithful == Up!Spec /\ Down!Spec

\* Unless an end goes, all that is written arrives, also in the direction that
\* is still open when the other one has ended.
ChunksArrive == Up!Delivery /\ Down!Delivery

\* A page the browser asked for as a page, and every redirect, keeps it inside
\* the instance.  The only page that does not is one the harness has encoded
\* without being told that it may: the relay never lets that happen by passing
\* Accept-Encoding on with the request of a page it means to rewrite.
StaysInside ==
    ask.routed /\ ~IsUpgrade =>
        /\ answer.location \notin {"root", "sibling"}
        /\ "accept-html" \in ask.headers /\ reply.kind = "html" =>
               \/ reply.encoded /\ "accept-encoding" \notin passed
               \/ \A i \in DOMAIN got["down"] : got["down"][i] \notin {"root", "sibling"}

\* Every request is answered, whatever the harness does before it begins a
\* page, unless nobody waits for the answer any more.
AnswersCome == <>(answer.kind # "none" \/ ~browser)

\* When the browser goes, the harness is let go too: no connection is left.
ConnectionsEnd == ~browser ~> wire # "open"
=============================================================================
