# A formal model of SimpleHttpServerBoostAsio

TLA+ modules that model the HTTP server and client of this repository, TLC
configurations that check them on small instances, and TLAPS proofs of their
main safety properties for every value of the constants.

    tlc -workers 2 -config MCServer.cfg MCServer      # one run
    tlapm ServerProofs.tla                            # one proof module

## 1. The system

Three libraries in C++17 on Boost.Asio: `Http` (messages and types), `Server`
and `Client`. There are no tests and no documents apart from the comments in the
headers, so the properties come from those comments, from the assertions and
from what the code is evidently for.

| component | state | operations | talks to |
|---|---|---|---|
| `Server::State` | `connection_count_`, `stopped_` (atomics) | Add/RemoveConnection, Stop, HasConnections, IsStopped | read and written by all threads of the server |
| `Server::Connection` | socket, `buffer_`, `request_parser_`, `response_`, `can_write_data_`, `canceled_`, timer | Start, Write; completion handlers of read, send, timer, and two posted handlers, all on the connection's strand | `State`, parser, application callback |
| `Server::HttpRequestConnection` | the request, `response_sended_`, a `shared_ptr` to its Connection | Send, IsAlive, destructor (500 if nothing was sent) | Connection, from any thread of the application |
| `Server::Server` | acceptor, signal set, thread pool, strand | constructor, Run, StartAccept, accept and signal handlers | State, Connection |
| `Server::HttpRequestParser` | three nested state machines, bounded buffers | Parse, PopHttpRequest | fed by Connection's read handler |
| `Server::RequestHandler` | document root, no state of its own | HandleRequest, UriDecode | file system, called from the callback of `main.cpp` |
| `Client::Request` | resolver, socket, timer, `response_handler_` | Send, the handlers of resolve, connect, write, read and timer, destructor | one thread of RequestSender |
| `Client::RequestSender` | io_context, worker thread, `stopped_` | SendRequest, Stop, destructor | Request |
| `Client::HttpResponseParser` | nested state machines, chunked bodies | Parse, PopHttpResponse | fed by Request's read handler |
| `Http` messages | method, URI, headers, body, `keep_alive_`; tables of status codes and methods | SetBody, SetHeader, SetURI, PackToString | everything |

What is hard here, and what a test would hardly reach:

* the handlers of a connection run on any thread of a pool; only the strand and
  one compare-and-exchange keep them from using `buffer_`, `request_parser_` and
  `response_` at once, and the application answers from threads of its own;
* `Write` tests its flags and posts later;
* objects live as long as some queued handler refers to them, and the server's
  shutdown counts them;
* a timer that has fired cannot be canceled any more, a read that has completed
  cannot be aborted any more;
* the shutdown: a signal, an accept handler in flight, connections in flight,
  threads that end when the io_context runs out of work, a spin on a counter;
* parsers with fixed buffers written without a bounds check of their own;
* two programs that must agree on where a message ends and whether another one
  follows: packer and parser, Connection header and session, URI and path.

`PROJECT.json` lists each hazard at its line with the properties that cover it.

## 2. The modules

    ServerState ── Connection ── Server ────────────────── MCServer
                       │   └── ConnectionSession ──(refines)── Session
                       │             │
                       └── ConnectionProofs ── ServerProofs

    ContentLength ── RequestParser ── RequestGrammar ── MCRequestParser
          │            │  │  │               └── RequestGrammarProofs
          │            │  │  └── RequestParserProofs
          │            │  └── Exchange ── MCExchange ── ExchangeProofs
          │                   │
    HttpMessage ── RequestHandler ── ResponseGrammar ── MCResponseParser
          │                            │        └── ResponseParserProofs
          ├── ResponseParser ──────────┘
          └── MCHttpMessage

    Request ── RequestSender ── ClientProofs

(`ResponseParser` uses `ContentLength` as well. `RequestGrammarProofs` and
`ExchangeProofs` rest on `RequestParserProofs`; all that is proved about texts rests on
`SequenceLemmas`, which is about sequences and functions alone.)

### ServerState (ServerState.cpp)

The two atomics; one operator per member function. Each is one atomic access, so
callers conjoin them to their own steps.

### Connection (Connection.cpp, HttpRequestConnection.cpp)

One action per handler. `pend[c]` counts, for each kind of asynchronous
operation, the operations that are initiated and the handlers that are queued
with a given result; `writes[c][k]` counts the DoWrite calls that `Write` posted
for request `k`; `hrc[c][k]` follows the HttpRequestConnection of request `k`.
The other variables are the members of the same name. `answered` and `delivered`
are history variables that no guard reads.

Correspondence and abstractions:

* A handler is atomic: the strand excludes other handlers of the same
  connection, and a handler reads at most one atomic that threads outside the
  strand can change. The queue of ready handlers is unordered, which allows more
  orders than the strand does.
* `Connection::Write` called from another thread makes two steps: the test
  (`AppSend`, `AppDestroy`) and the post (`AppPost`). The three atomics of the
  test are read in one step: `stopped_` and `canceled_` only ever rise and a test
  that fails has no effect, so reading them at the moment of the last read is one
  of the real behaviours and stands for the others.
* What the application does with a request is chosen per request: `"reply"`
  sends (or drops the request, which sends a 500) inside the callback, as
  `main.cpp` does; `"retain"` keeps the object, and another thread sends through
  it or destroys it at any later time.
* Payloads: a response is the number of the request it answers. Whether it is
  the application's or a 500 makes no difference to the protocol. A request that
  the parser refuses counts as a request without keep-alive; the branch for an
  empty `PopHttpRequest` (Connection.cpp:180-184) does the same.
* Lifetime: `Unreferenced(c)` is "no operation, handler or
  HttpRequestConnection holds a `shared_ptr`". The step that drops the last
  reference runs the destructor (`ReleaseTo`). On a thread of the io_context,
  which `Run` joins, the destructor is part of the handler. On a thread of the
  application it is two steps, `"destructing"` after the body of `~Connection`
  and `"destroyed"` after its members.
* `async_send` may complete after a part of the buffer, as Boost.Asio says; a
  socket that is closed fails the operations that have not completed; a
  completed operation's handler stays queued.
* The connections whose `timeout_` is not zero are the constant `TimedConns`;
  `Server` gives all of its own 60 s.

### Session, ConnectionSession

`Session` is what a connection promises its peer, without objects, strands or
timers: receive, have the request answered, send, and only then, if kept alive,
receive again; it may close at any time. `ConnectionSession` reads the phase off
the outstanding operations and states the refinement as `ImplementsSession`.

### Server (Server.cpp, main.cpp)

The accept loop, the signal handler (both on the server's strand), the threads
of the io_context and `Run`. The accept handler makes three steps,
`Connection::Start` (`OnAccept`), `StartAccept` and its return
(`OnAcceptReturns`), because handlers of the new connection can run in between,
on another thread; the signal handler cannot (`AcceptHandlerRuns`). The handler
has captured the connection, so until it returns it is one of the references that
keep the object (`pend[c]["accepted"]`), even if the session is over by then. The
number of threads is not a parameter: with one thread fewer handlers overlap, so
one or more are covered by the same model. `JoinThreads` is the io_context
running out of work, after which it stays stopped. The `ec` branch of the signal
handler is left out: nothing cancels the signal set while the threads run.

### ContentLength, RequestParser (RequestParser.cpp)

`RequestParser` is the three nested machines of `HttpRequestParser`,
`HttpFirstLineParser` and `HeadersParser`, one action per state (or group of
states that treat characters alike), composed in `ParseChar`, which is one turn
of the loop of `Parse(begin, end)`. How the input is cut into reads makes no
difference: all state is in the members, and `Parse` drops what follows the
character that completes a request.

* A character is a class of characters that no test of the code tells apart.
* The strings are their sizes. What they spell is chosen when the code asks: the
  method at the end of its word, the length at the end of a header line. That
  choice is free, so a `Content-Length` may have any key size in the model.
* All errors are one result, since `Connection` answers each with the same 400.
* `consumed` and `blank` are history: the characters of this request, and how
  much of CR LF CR LF the input just matched, counted apart from the parsers.
* The branch of `LineStart` for folded lines is in the model and never taken:
  `key_` is always empty there.
* `PopHttpRequest` and the new parser that `DoContinueSession` assigns are
  `ContinueSession`.

`ContentLength` is the arithmetic of `GetContentLength`, a recursive function over
the places of the value, next to its reference `Decimal` (positional notation: each
digit times the power of ten of its place, no running total and no limit). It also
holds `MatchBlankLine`, the reference of both parsers for where a head ends.

`RequestGrammar` has three modes: every character at every point; the texts of a
grammar of requests, written without regard to the parser's states; and
Content-Length values alone, for which it instantiates `ContentLength` with a
limit of its own. The words, keys, values and bodies of the grammar are constants,
any strings of the characters that the grammar allows them (`GrammarAssumption`);
`MCRequestParser` gives them small values. The grammar is smaller than that of HTTP.
It leaves out what the parser refuses, a tab in a value (RequestParser.cpp:311)
and folded lines (RequestParser.cpp:258), and what it cuts short, the body of any
method but POST (`LengthOf` has the rule of RequestParser.cpp:411).

### HttpMessage (HttpRequest.cpp, HttpResponse.cpp, Types.cpp)

Operators on a record of what the setters touch: the Content-Length and the
Connection header, the size of the body, the keep-alive flag. `SetRequestBody`
has both swaps of `HttpRequest::SetBody`, `SetResponseBody` the single one of
`HttpResponse::SetBody`. `MCHttpMessage` makes a state machine of a request: its
constructor, then `SetHeader` and `SetBody` in any order. The key Content-Length
is left to `SetBody`, the only one that sets it.

The status codes are named as in the code, with their numbers
(`StatusNumber`, `GetStatusCodeFromUnsigned`). `StockResponse` is the response
of a code alone; of its HTML text only matters whether there is one (`HtmlSize`).

`Connection` takes the keep-alive flag of each request as a free choice, so
nothing that is shown of it rests on how the flag is computed.

### RequestHandler (RequestHandler.cpp)

`UriDecode` byte by byte, as a recursive function over the positions of the URI.
`ReadHex` is external: what `operator>>` makes of two characters, which is more
than hexadecimal digits (white space, a sign, a prefix), read in the order in which
the stream looks at them. `HandleRequest` maps
what the lookup of the path comes to (`Lookups`) to the response, with its status,
the size of its body and its Connection header. What the file system has, the
test that a path is under the root, the listing of a directory and the
types by extension are behind `Lookups`: each outcome is possible for each path.
The test of the root (RequestHandler.cpp:94-114) is code of the repository, not of
the file system: it compares the string of the absolute path, in which nothing is
resolved, with that of the absolute root, character by character. It is left out,
and no property depends on it.

### Exchange (main.cpp, with all of the above)

One peer and one connection, from the characters of the requests to the
responses. `PackToString` gives the texts of a request (a set: the header map is
unordered), `ReadCompletes` cuts the stream, `ParseNext` feeds
`RequestParser`, a complete request goes through `PopHttpRequest` and `Answer`,
`OnSent` decides whether the session goes on. The connection is reduced to the
phases of `Session`, which `ConnectionProofs` shows it to implement; timeout, stop
and a peer that goes away are `Close`.

* Every character carries its place and what the collected strings mean, so that
  a parser that starts in the middle of a request reads no method there.
* A peer is a script of requests, of any HTTP client (`Foreign`) or of a program
  on this library's client (`OfClient`), whose bodies `SetBody` loses. It may
  pipeline, or wait for each response and believe its Connection header.
* `dropped` counts the characters that `Parse` leaves behind in a read.
* `handed[i]` is the HttpRequest that the callback gets: its method and the record
  that `NewRequest` makes of it. That has the Content-Length of the body, and no
  body, since `SetBody` loses it there as well.

`MCExchange` adds a path that grows byte by byte, from which `URIs` forms every
way to write it as a URI, the reference for `UriDecode`.

### ResponseParser (ResponseParser.cpp of the client)

The same abstractions as in `RequestParser`, for `HttpStatusLineParser`,
`HeadersParser`, `BodyChunksParser` and `HttpResponseParser`. What the code asks
of its strings is again chosen when it asks: whether a status code is known
(`code`), what a header line says of the body (`n`), the value of a hexadecimal
digit (`v`, from the class of its character); `AskedCodes`, `AskedMeanings` and
`AskedDigits` give one dummy when it does not ask.

* `headers_` is reduced to its Content-Length and its Transfer-Encoding, and
  emplace to "the first one stays". Only "chunked", spelled exactly so, counts.
* The chunk size is a `size_t`: arithmetic modulo `Wrap`. `declared` and
  `line_size` are history, the sizes that the size lines spell, and stay at
  `Wrap` when they do not fit.
* `current_chunk_.reserve` throws above `MaxReserve`, out of functions that are
  `noexcept`: the result `"Terminated"`, after which nothing runs.
* `MaxChunkChars` bounds the characters of a chunked body, which the code does
  not limit.
* `blank` is history, as in `RequestParser`.
* `PopHttpResponse` builds the response with `NewResponse` of `HttpMessage`.

`ResponseGrammar` has the modes "any" and "text", as for requests. The strings of
its grammar are constants, with the characters that the grammar allows them and
lengths that fit the buffers (`GrammarAssumption`); a chunk size may have leading
zeros. It has no tab in a value, no chunk extension and no trailer. In
the mode "packed" the texts are those of `HttpResponse::PackToString`, for every
response that `RequestHandler` and `Connection` can make, with the headers in every
order. `MCResponseParser` gives the constants small values: status lines with and
without text, and chunk data that looks like line ends.

### Request, RequestSender (Request.cpp, RequestSender.cpp)

One action per completion handler of `Client::Request`; `pend[r]` counts its
outstanding operations by kind and result, as for the connections. All handlers
run on the one thread of the sender, so they are atomic. `SendRequest` runs on
the caller's thread in four steps: the test of the flag, `Request::Create` with
the timer, `async_resolve`, and the release of its `shared_ptr`; handlers run in
between, up to the one that ends the request.

* What the response parser makes of the bytes read is a choice between "go on",
  "refuse" and "complete".
* `socket_.close()` fails the operations on the socket and leaves the resolver
  alone; `async_connect` opens a closed socket.
* A request that a response handler sends is one of an arbitrary caller.
* After `io_context::stop` no handler runs; completions that nobody observes are
  left out. `Destroy` is the destructor of the sender: destroying the io_context
  destroys the handlers, with them the last references, and so calls every
  response handler that has not been called. `Destroy` waits for calls of
  `SendRequest` to be over, which is the program's duty.

## 3. The runs

`CHECK_DEADLOCK FALSE` everywhere: the server stops, a parser ends in an error,
a text ends, a client is destroyed.

| run | bounds | shows |
|---|---|---|
| `server` | 3 connections, up to 3 requests, of which more than one only on a connection that has no other started beside it; symmetry | `TypeOK`; `Lifetime`; `TimerEndsWithSession`; `AcceptLoopAlive`; `ThreadsOutliveService`; `CleanReturn`; `HalfDuplex`; `EarlierRequestsAnswered`; `BufferStable`; `AnswersLatestRequest`; `NoReplyLost`; `ImplementsSession` |
| `live` | 2 connections, one of them with `timeout_ == 0`, 2 requests | `StopReturns`; `ConnectionsEnd`; `RequestsAnswered` |
| `parser` | buffers of 2, 2, 3 and 10, bodies of up to 2; texts of up to 2 header lines; limit 414, values of up to 5 characters | `ParserTypeOK`; `BuffersInBounds`; `ReadyToPop`; `HeadEndsAtFirstBlankLine`; `BodyComplete`; `InputBounded`; `AcceptsGrammar`; `LengthsExact` |
| `response_parser` | `MaxCode` 2, text of 3, headers of 20, bodies of up to 2, `Wrap` 32, `MaxReserve` 16; in the mode "any" chunked bodies of up to 10 characters after headers of up to 8; texts of up to 2 header lines, of 2 chunks, of 2 digits in a size | `ResponseTypeOK`; `ResponseBuffersInBounds`; `ResponseReadyToPop`; `BodyAsDeclared`; `ResponseHeadEndsAtFirstBlankLine`; `ResponseAcceptsGrammar`; `ResponseAsSent` |
| `exchange` | the parser's real sizes but for bodies, of up to 2; scripts of two requests; reads of at most 1, 16 or 64 characters; paths of up to 3 bytes of 8 | `HandedAsSent`; `UriNamesPath`; `AnswerArrives` |
| `client` | 2 requests, fairness | `ClientTypeOK`; `OneStepAtATime`; `CalledOnce`; `RequestLifetime`; `TimerEndsWithRequest`; `AllReported`; `RequestsEnd` |
| `accepted_write`, `whole_response`, `alive` | 2 connections, 2 requests | violations, section 5 |
| `timeout_resolving` | 1 request | violation, section 5 |
| `set_body`, `keep_alive` | bodies of sizes 0 to 2 | violations, section 5 |

Bounds: the accept loop is sequential, so three connections give one ended, one
running and one being accepted, all at once; connections do not interact but
through `State`, so it is enough that one at a time has more than one request
(`MCNext` of `MCServer`). Three requests give two keep-alive turns, with a stale
HttpRequestConnection of each earlier request. The last Connection of the
model never gets a client, so that the accept loop always has one to wait with:
with `n` members of `Conns`, `n - 1` connections are started.

The buffers of `parser` are each as small as lets the last character fit and the
next one fail, with room for two short header lines and the blank line; every
character comes at every point, and requests follow each other. The longest
texts fill method, URI, minor version, headers and body exactly. The limit 414
makes `MaxBody \div 10` and its remainder both matter: 414 and 415, 41 and 42
followed by any digit. In `response_parser` two digits with a 15 or a 2 wrap 32,
one digit stays below it, and ten characters hold a chunk, the size line of the
next and what follows. The headers of 20 hold the three that the server packs.

In `live` a connection with a timeout could always be excused by it for a missing
answer, so `RequestsAnswered` has its weight on the one without, and
`ConnectionsEnd` on the one with.

In `exchange` a read of 1 puts a cut everywhere; 16 and 64 put the end of one
request and the beginning of the next, pipelined one into the same read. The
second request of a script is the first on which anything left over from the one
before can show. The bytes of paths are those that the decoder or `SetURI` treats
apart, one above 127, and both ends of the range.

Two requests share the sender's thread and its
stop and nothing else.

Fairness (`FairSpec`): weak fairness for the handlers (io_context threads run
what is queued, the accept handler goes on to its end), for the expiry of timers,
for the return from library calls and destructors, and for an application that
disposes of every HttpRequestConnection it keeps. None for reads, sends, accepts
and signals: a client may stay silent, so `ConnectionsEnd` rests on the timer
alone.
`FairClientSpec` is the same for the client: handlers of the worker thread,
timers, the rest of a call of `SendRequest`, and a resolver that gives an answer
or an error; nothing of the server at the other end. `ExchangeSpec` has weak
fairness for `Serve`: bytes that were sent arrive, handlers run, a send completes.
It has none for the peer, which need not send anything, and none for `Close`.

## 4. The proofs

`ConnectionProofs` proves `ConnSpec => []ConnInv`. The properties are not
inductive: that a DoWrite finds nothing else going on depends on why it was
posted. The strengthening is a token argument. `can_write_data_` is set by the
step that ends reading and reset by the step that starts sending; whoever is
still to answer the latest request holds it (`TokenHeld`), so
(`OneOperation`, `RequestInv`) no operation is outstanding while it is held, a
request older than the latest has been answered exactly once, and a posted
DoWrite carries the latest number. `Lifetime` joins in because a release needs
the connection to be `"started"` and counted; the cardinality step uses that the
set of existing connections is finite, which `ConnInv` carries, so `Conns` may
be infinite.

The second half of `ConnectionProofs` takes from `ConnInv` what the connection does
over time. `SessionImplemented` is the refinement: per action the step of `Session` that it
is, or that the phase stays; the steps that could skip a phase are those that
find nothing else outstanding, which is `OneOperation`. The action properties
follow from the same invariant: `BufferStableCorrect` (only a step that finds no
send assigns `response_`), `AnswersLatestCorrect` (the token names the request),
`NoReplyLostCorrect` (who holds the token finds it set, so only the other two
flags can refuse). `TimerEndsCorrect` needs one more invariant, `TimerInv`: a
connection has at most one wait or queued timer handler, so there is none after
the timeout; and a session that is over has no wait unless the server stopped.
The case that makes it more than a look at each handler is an application that
drops its request, or a callback that cannot reply, after the timeout: nobody
cancels the timer there, and nobody has to.

`ServerProofs` proves `ServerInv` on top of it, and that every step of `Next` is
a step of `ConnNext` or leaves the connections alone (`ServerRunsConnections`),
so that each theorem about `ConnSpec` holds of the server; those a reader would
look for are stated. Assumptions: `ConnectionAssumption` (at least one request,
known handler modes) and `NoConnAssumption` (the null value is not a connection);
`ParserAssumption`, `MaxBodyAssumption` and `ResponseAssumption` (buffers have a
size, and what can be reserved fits the word) below; `PackedAssumption` (the
buffers of the client hold the texts that the server packs); `ExchangeAssumption` (a script
is of requests, a read transfers something, the section of headers has room for the
two lines that `HttpRequest` packs), the two `GrammarAssumption` (above), and
`ValueAssumption` and `PathAssumption` (values are of digits, spaces and others,
paths of bytes).

`RequestParserProofs` proves `ParserInv` for all buffer sizes. Its parts: which
strings may be filled in which state (`LineInv`, `HeaderInv`), that key and value
together are no longer than the count of the section, which is the only thing
that bounds the unchecked `RawString::AddChar`; that the body is never longer
than announced (`BodyInv`); and that each state implies how much of a blank line
was just read and accounts for every character (`HistoryInv`). `DigitExact` is
the arithmetic step of `GetContentLength`.

The same module describes a request without the parser: `IsRequest(t, m, q)` says of
the text `t` where its parts are (`q` holds the places: the end of the method, of the
URI, of each header line, its colon and its blanks) and which characters may stand
there. `Reads(t, m, q)` is the state of the parser that has consumed a part of `t`,
as a function of how much: in which of its states it is, what each counter holds,
and that it is done exactly at the end. `RequestRead` proves that one more character
of `t` leads from `Reads` to `Reads`, by cases on where the character is. It needs no
induction over the text: the induction is the one over the steps of the behaviour.

`RequestGrammarProofs` ties two references to the code. `AcceptsGrammarCorrect`: the
texts that the grammar concatenates are requests (`TextIsRequest`: the places are the
sums of the lengths of the parts, and the length that counts is the first that was
announced), so `RequestRead` carries the parser through them; no text of the grammar
that fits the buffers is refused, cut short, or waited on for more. That says nothing of
what the grammar leaves out (section 2). `LengthsExactCorrect`:
`GetContentLength` is exact for values of any length. Its invariant over the places
compares the running total with the number that the digits so far spell, and says
that a total beyond the limit never comes back below it.

`ExchangeProofs` proves `HandedAsSentCorrect` for scripts, buffers and reads of any
size: of each HttpRequest the method, the Content-Length and the keep-alive flag, not
the body, which is lost (section 5). Its invariant (`Wire`) says that the characters sent so far are the texts of
the script one after the other, that what the server still has to parse, in its
buffer and in the stream, is the end of them, and that the parser has read
(`Reads`) as much of the current request as was consumed since the last one was
handed on. That `PackToString` makes requests (`PackedIsRequest`), whatever order the
headers come in, is a lemma of its own. `ParserInv` is a conjunct: a new parser is
what makes the next request begin. `UriNamesPathCorrect` is the decoder against all
ways to escape a path: `UriDecode` is defined from the end of the URI backwards, so
the induction goes down over the bytes, with one step per kind of code.

What these proofs need of data comes from `SequenceLemmas`: `NatSet` (a set of
numbers that has 0 and each successor has all, from `NatLessThanWellFounded`, so
that an induction is a set and not an operator), `Recursion` (a recursive function
over `1..n` exists), and what a concatenation of parts has at which place.

Two things in the model had to change for it. `ReadHex` was a `CASE` whose arms
overlapped: TLC takes the first arm that holds, but what the definition says was
ambiguous, and no theorem about it could be proved; it is a chain of conditions
now. The folds of `GetContentLength` and `Decimal` became recursive functions, with
the same values.

`ResponseParserProofs` proves `ResponseInv` likewise, for any `Wrap`. `KeysInv`
is the argument about the shared count of the header section. `LengthInv` says
which body each state allows. `SizesInv` ties the machine of the chunks to the
sizes that were declared: as long as neither the size line nor the sum has
reached `Wrap`, the size read is the one spelled and the bytes taken are those
declared so far; `ChunkInv` adds when that machine may be where. `BodyAsDeclared`
follows at the end of the last chunk. `BlankInv` says how much of CR LF CR LF each
state of the two machines of the head stands for, and that it has all been read when
the body begins, whichever way that is framed: `ResponseHeadEndsCorrect`.

Its second half is about the texts of responses. `IsResponse(t, q)` describes one by
the places of its parts: the first line, each header line, and the body, which is
either as long as the first Content-Length says (`IsPlainBody`) or a sequence of
chunks (`IsChunkedBody`) whose size lines spell values that fit the word. As for
requests, `Reads(t, q)` is the state that the parser must have after a part of
`t`, and `ResponseRead` proves that each character leads from there to there:
`StatusLineRead`, `HeadRead`, `PlainBodyRead` and `ChunksRead`, by where the
character is. The running values that the parser keeps are those of `q`: of a
size line the value of its first digits, of the headers what the first of a kind
said. `TextIsResponse` shows that what the grammar puts together is a response; its
hard part are the chunks, where the digits that `Hexadecimal` takes from a number by
division (`ShiftedRecursion`) must be those from which the parser's multiplication makes
it again. `PackedIsResponse` shows it of `PackToString`, whatever order the header map
has: of headers that agree on a length any may come first (`AgreedOn`), and the body
that they announce is the one that follows. The invariant `ResponseIsRead` joins both,
with the fact that the client knows each status code of the server (`StatusRead`).
`ResponseAcceptsGrammarCorrect` and `ResponseAsSentCorrect` follow from it: no text
of the grammar that fits the buffers is refused, cut short or waited on for more (of
tabs in values, chunk extensions and trailers it says nothing), and what the server
sends is what the client's handler gets.

`ClientProofs` proves `ClientInv` for any set of requests. Per request: while an
operation of the exchange is outstanding it is the only one and the handler is
still to be called (`StepInv`), which is what allows DoRead to call it without a
test; and the handler has been called as often as it is gone (`CallsInv`), which is
at most once with an answer of either kind (`ClientTypeOK`).
`TimerEndsCorrect` adds `TimersInv` on top.

Only model-checked: what is under fairness (`StopReturns`, `ConnectionsEnd`,
`RequestsAnswered`, `RequestsEnd`, `AnswerArrives`), which is out of the prover's
reach. Every other property of the passing runs has a theorem.

## 5. What the code does otherwise than it says

Each is a `violation` run, in which TLC finds the counterexample.

1. `AcceptedWriteWillRun`: `Connection::Write` tests its flags and posts later
   (Connection.cpp:56). When the timeout and the stop fit in between, it posts to
   an io_context whose threads have ended and returns true: nothing is ever sent,
   the connection is never released, and `Run` spins on `HasConnections`.
2. `WholeResponseFirst`: `async_send` (Connection.cpp:208) may send a part of the
   response; its handler does not look at how much was sent, and goes on to the
   next request.
3. `TimeoutEndsRequest`: a client timeout that comes during the resolve closes a
   socket that is not open yet (Request.cpp:118) and ends nothing; with a silent
   server the request hangs with no timer. `RequestsEnd` holds with this case
   excepted.
4. `BodyIsSet`: `HttpRequest::SetBody` swaps the new body in, sets Content-Length
   from it, and swaps it out again (HttpRequest.cpp:141). Requests have a length
   and no body, those a server parsed and those a client sends.
5. `KeepAliveAsAsked`: the header value is compared with "kepp-alive"
   (HttpRequest.cpp:20), so `Connection: keep-alive` never keeps a session.

6. `AliveUntilOver`: `IsAlive` is "not stopped and not canceled", and only the
   timeout cancels (Connection.cpp:51). A request that an application keeps says
   that its connection is alive long after the session ended by an error or by a
   response without keep-alive.

`PROJECT.json` quotes the comment, assertion or test each one contradicts.

More observations contradict no comment, so no run checks them. The
destructor takes a connection off the count in its body (Connection.cpp:71), and
`Run` can return while a thread of the application destroys its members;
`CleanReturn` excepts that case. A chunk size that wraps is accepted
(ResponseParser.cpp:460 of the client); `BodyAsDeclared` excepts it. A chunk size
that cannot be reserved terminates the client (`"Terminated"`). A response with a
Content-Length above `max_body_size` is no error for the client but a success
with an empty body (ResponseParser.cpp:554); `ResponseAsSent` excepts it. The
parser refuses a tab in a header value (RequestParser.cpp:311), and folded lines,
for which it has a branch that is never taken (RequestParser.cpp:258): `Values`
excludes the one, the grammar the other. It
reads a body after POST only (RequestParser.cpp:411), so the body of
another method is taken for the next request; and this library's client announces
a body that `SetBody` has lost, so that its POST waits for the server's timeout:
`Framed` is the condition in `HandedAsSent` and `AnswerArrives` that excepts
both. What a peer pipelines into the read that ends a request is dropped
(RequestParser.cpp:450).

## 6. What is not modelled

* Exceptions thrown by the application's request handler or by allocation, but
  for the chunk that cannot be reserved. They end the process.
* Of `RequestHandler` the file system, the listing of a directory and the types by
  extension, and of its own code the test that a path is under the document root:
  a comparison of the beginning of two strings, the absolute path as it was asked
  for and the absolute root, with nothing resolved (RequestHandler.cpp:94-114).
  All outcomes are possible in the model (`Lookups`), and no property is about which.
* Texts: of status codes, default pages, dates and logs.
* The set-up of the server (resolve, open, bind, listen), which throws out of the
  constructor before there is anything to run.
* The static counters that number requests and connections in the log: they race
  and nothing but the log reads them.
* A response handler that calls `RequestSender::Stop` (the thread would join
  itself), and a sender that is destroyed under a call of `SendRequest`.
* The two `main` functions beyond the order in which they call the library;
  build files.

## 7. Plan

Done: the server (`ServerState`, `Connection`, `Session`, `ConnectionSession`,
`Server`), both parsers, the messages and their texts, `RequestHandler`, the
composition `Exchange`, the client, and the proofs of the inductive invariants of
all machines, of the refinement, of the action properties, and of both parsers
against their texts, alone and, for requests, in the exchange. What is left:

1. `Exchange` with the client in the place of the peer: `Request` sends one
   request per connection, so this adds `ResponseParser` at the other end of
   `stream`.
2. Exceptions of handlers, if the code comes to catch any.
