----------------------------- MODULE Connection -----------------------------
(* One client and one daemon connection: the client writes a request line,  *)
(* the daemon parses it, dispatches it and writes lines back up to a blank  *)
(* one, and the client reads them.                                          *)
EXTENDS Requests, Verbs

CONSTANTS
    Alphabet,     \* the characters of what callers type
    MaxText,      \* bound: its length
    MaxTyped,     \* bound: the first so many requests carry any text
    MaxForm,      \* bound: the lines of a tree or a delta
    MaxCalls,     \* bound: requests sent
    MaxLosses     \* bound: connections given up

(* The kinds of argument: each is one character of request text.            *)
Kinds == (UNION {{q.args[i] : i \in DOMAIN q.args} : q \in CommandRequests}) \ {"text"}

ASSUME ConnectionAssumption ==
    {MaxText, MaxTyped, MaxForm, MaxCalls, MaxLosses} \subseteq Nat

(* What a caller types is none of the words of the protocol.                *)
ASSUME AlphabetAssumption == Alphabet \cap Kinds = {}

(* Every primitive the daemon knows is a valid one.                         *)
ASSUME KnownAssumption == Known \subseteq Primitives

VARIABLES
    phase,     \* "idle", "sent", "served" or, with the answer read, "done"
    asked,     \* the request in hand
    got,       \* what the daemon read
    meant,     \* how the daemon answered it: "ok", "err" or "bare"
    stream,    \* the lines on their way to the client
    answer,    \* what Client::call returned
    torn,      \* a body on this connection held a blank line, or no envelope
    calls,     \* requests sent
    losses     \* connections given up

connectionVars == <<phase, asked, got, meant, stream, answer, torn, calls, losses>>

NoRequest == [primitive |-> "none", args |-> <<>>, flags |-> NoFlags]
NoAnswer == [result |-> "none", of |-> 0, body |-> <<>>]

ConnectionInit ==
    /\ phase = "idle"
    /\ asked = NoRequest /\ got = NoRequest /\ meant = "none"
    /\ stream = <<>> /\ answer = NoAnswer
    /\ torn = FALSE /\ calls = 0 /\ losses = 0

-----------------------------------------------------------------------------
(* Client::call: the request goes out as one line.                          *)
Texts == UNION {[1..n -> Alphabet] : n \in 0..MaxText}

Bare == {"all", "full", "full-page", "list", "secret", "retina", "unsafe-log"}
Free == {"group", "dest"}    \* the flags whose value is the caller's text

FlagText(name, text) == CASE name \in Bare -> <<>>
                          [] name \in Free -> <<text>>
                          [] OTHER -> <<<<"v">>>>

Written(q, text) ==
    [primitive |-> q.primitive,
     args |-> [i \in DOMAIN q.args |-> IF q.args[i] = "text" THEN text ELSE <<q.args[i]>>],
     flags |-> [name \in {<<n>> : n \in q.flags} |-> FlagText(name[1], text)]]

Send(q, text) ==
    /\ phase = "idle" /\ calls < MaxCalls
    /\ asked' = Written(q, text)
    /\ phase' = "sent"
    /\ calls' = calls + 1
    /\ UNCHANGED <<got, meant, answer, stream, torn, losses>>

HasText(q) == (\E i \in DOMAIN q.args : q.args[i] = "text") \/ q.flags \cap Free # {}

Sayable(q) == IF HasText(q) /\ calls < MaxTyped THEN Texts ELSE {<<"n">>}

-----------------------------------------------------------------------------
(* The daemon.  ShapeOf: what was read, by kind.                            *)
ShapeOf(q) == [primitive |-> q.primitive,
               args |-> [i \in DOMAIN q.args |->
                           IF Len(q.args[i]) = 1 /\ q.args[i][1] \in Kinds
                           THEN q.args[i][1] ELSE "text"],
               flags |-> {IF Len(name) = 1 THEN name[1] ELSE "other" :
                            name \in DOMAIN q.flags}]

Line(kind) == [k |-> kind, of |-> calls]
Row == Line("row")
Blank == Line("blank")
Bang == Line("bang")       \* a line of the page's that starts with `!`
At == Line("at")           \* ... or with `@`

(* Text as the page has it, which may break a line, or end the answer.      *)
Raw == {<<Row>>, <<Row, Blank, Row>>, <<Row, Blank, At>>, <<Bang>>}

(* A label of a tree or a delta may be such text, from the first line on.   *)
Bodies(body) ==
    CASE body = "none" -> {<<>>}
      [] body = "line" -> {<<Row>>}
      [] body = "rows" -> {<<>>, <<Row, Row>>}
      [] body = "text" -> Raw
      [] body = "bare" -> {<<>>, <<Row>>}
      [] body = "form" -> {[i \in 1..n |-> Line("form")] : n \in 0..MaxForm}
                            \cup {<<Line("form")>> \o text : text \in Raw}

(* ResponseHead::encode: warnings, then the envelope.                       *)
Heads(result) == CASE result = "bare" -> {<<>>}
                   [] result = "err" -> {<<Line("err")>>}
                   [] result = "ok" -> {<<Line("ok")>>, <<Line("warn"), Line("ok")>>}

(* An answer without the blank line that ends it.                           *)
WritesUnended(head, body) == stream' = stream \o head \o body

(* handle_connection: head and body, then the blank line.                   *)
Writes(head, body) == stream' = stream \o head \o body \o <<Blank>>

Told(result, head, body) ==
    /\ meant' = result
    /\ torn' = (torn \/ result = "bare" \/ \E i \in DOMAIN body : body[i].k = "blank")
    /\ Writes(head, body)

Arrives == /\ phase = "sent" /\ phase' = "served"
           /\ got' = parse_request(encode_request(asked))
           /\ UNCHANGED <<asked, answer, calls, losses>>

(* ! BAD_REQUEST, or an error of the daemon's, whose message is not cut     *)
(* into lines.                                                              *)
Refuses == \E body \in {<<>>, <<Row, Blank, Row>>} : Told("err", <<Line("err")>>, body)

(* The alternatives of its handler that what arrived satisfies.             *)
Understood == IF got' = Malformed THEN {} ELSE Serves(ShapeOf(got'))

Succeeds(need, body) ==
    LET result == IF need.body = "bare" THEN "bare" ELSE "ok" IN
    \E head \in Heads(result) : Told(result, head, body)

Serve == /\ Arrives
         /\ Refuses \/ \E need \in Understood : \E body \in Bodies(need.body) :
                         Succeeds(need, body)

-----------------------------------------------------------------------------
(* Client::call: skip blank lines and warnings up to an envelope, then read *)
(* until a blank line.                                                      *)
Envelope == SelectInSeq(stream, LAMBDA l : l.k \notin {"blank", "warn"})

End == SelectInSubSeq(stream, Envelope + 1, Len(stream), LAMBDA l : l.k = "blank")

Blocked == [result |-> "blocked", of |-> 0, body |-> <<>>, rest |-> <<>>]

Reading ==
    CASE Envelope = 0 -> Blocked
      [] Envelope # 0 /\ stream[Envelope].k \notin {"ok", "err"} ->
           [result |-> "fail", of |-> calls, body |-> <<>>, rest |-> <<>>]
      [] Envelope # 0 /\ stream[Envelope].k \in {"ok", "err"} /\ End = 0 -> Blocked
      [] OTHER -> [result |-> stream[Envelope].k, of |-> stream[Envelope].of,
                   body |-> SubSeq(stream, Envelope + 1, End - 1),
                   rest |-> SubSeq(stream, End + 1, Len(stream))]

(* A client that takes the end of the connection for the end of an answer.  *)
AnyEnd(reading) == TRUE

Complete(reading) == reading.result # "blocked"

(* A call that fails ends the client's process, and with it the connection. *)
Receive ==
    /\ phase = "served" /\ Complete(Reading)
    /\ phase' = "done"
    /\ answer' = [f \in {"result", "of", "body"} |-> Reading[f]]
    /\ stream' = Reading.rest
    /\ torn' = (torn /\ Reading.result # "fail")
    /\ UNCHANGED <<asked, got, meant, calls, losses>>

Forgotten == /\ phase' = "idle" /\ asked' = NoRequest /\ got' = NoRequest
             /\ meant' = "none" /\ answer' = NoAnswer

(* The next call is made on the same connection ...                         *)
GoesOn == /\ phase = "done" /\ Forgotten
          /\ UNCHANGED <<stream, torn, calls, losses>>

Reset == stream' = <<>> /\ torn' = FALSE

(* ... or by another process.                                               *)
Disconnect == /\ phase = "done" /\ Forgotten /\ Reset
              /\ UNCHANGED <<calls, losses>>

(* The process ends with the answer unread.                                 *)
Lose == /\ phase = "served" /\ losses < MaxLosses /\ losses' = losses + 1
        /\ phase' = "done" /\ Reset
        /\ answer' = [NoAnswer EXCEPT !.result = "fail"]
        /\ UNCHANGED <<asked, got, meant, calls>>

(* The daemon dies and is started again.                                    *)
Restart == /\ losses < MaxLosses /\ losses' = losses + 1
           /\ Forgotten /\ Reset
           /\ UNCHANGED calls

ConnectionNext ==
    \/ \E q \in CommandRequests : \E text \in Sayable(q) : Send(q, text)
    \/ Serve \/ Receive \/ GoesOn \/ Disconnect \/ Lose \/ Restart

ConnectionSpec == ConnectionInit /\ [][ConnectionNext]_connectionVars

-----------------------------------------------------------------------------
(* A tool call that only fails when the command could not be run.           *)
OnlyProcessFailed(a) == a.result = "fail"

(* call_tool: run_cli failed, or wire_failed found a line starting with `!`. *)
ToolFailed(a) == a.result \in {"fail", "err"} \/ Bang.k \in {a.body[i].k : i \in DOMAIN a.body}

TypeOK ==
    /\ calls \in 0..MaxCalls /\ losses \in 0..MaxLosses
    /\ phase \in {"idle", "sent", "served", "done"}
    /\ meant \in {"none", "ok", "err", "bare"}
    /\ answer.result \in {"none", "ok", "err", "fail"}
    /\ torn \in BOOLEAN

(* What Request::encode wrote, Request::parse reads; unless an argument     *)
(* without a blank starts with two dashes, or the line ends in white space  *)
(* that str::trim takes and the encoder did not quote.                      *)
Sendable(q) ==
    /\ \A i \in DOMAIN q.args : ~IsFlag(Word(q.args[i]))
    /\ Last(encode_request(q)) \notin White

ArrivesAsSent == phase = "served" /\ Sendable(asked) => got = asked

(* Every request a command builds is one its handler takes, and outside     *)
(* vs_inspect, whose kinds share their flags, no flag of it is ignored.     *)
CommandsUnderstood ==
    phase = "served" /\ got = asked
    => \E need \in Serves(ShapeOf(got)) :
         got.primitive # "vs_inspect" =>
           ShapeOf(got).flags \subseteq need.flags \cup need.reads

(* Calls that share a connection stay in step: until a body with a blank    *)
(* line, or without an envelope, has gone over it, the client finds the     *)
(* whole answer of its own request, nothing of another's, and leaves        *)
(* nothing behind.                                                          *)
AnswersInStep ==
    phase = "served" /\ ~torn
    => /\ Reading.result = meant /\ Reading.of = calls /\ Reading.rest = <<>>
       /\ \A i \in DOMAIN Reading.body : Reading.body[i].of = calls

(* A tool call reported as a success is one the daemon carried out.         *)
ToolReportsFailure ==
    phase = "done" /\ ~torn /\ ~ToolFailed(answer)
    => meant = "ok"

(* Client and tool report what became of their own request: answers stay in *)
(* step, and no failure is passed on as a success.                          *)
AnswersTrue == TypeOK /\ AnswersInStep /\ ToolReportsFailure
=============================================================================
