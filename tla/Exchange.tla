------------------------------ MODULE Exchange ------------------------------
(***************************************************************************)
(* A peer and one connection of the server of main.cpp, from the bytes of  *)
(* the requests to the last byte of the responses: HttpRequest is packed,  *)
(* the stream is read in pieces of any size, HttpRequestParser is fed, the *)
(* request is handed to RequestHandler, and the connection goes on or not. *)
(*                                                                         *)
(* The connection's part is what Session promises and Connection is shown  *)
(* to implement: receiving, answering, sending, over.  What the client     *)
(* makes of the bytes of a whole response is ResponseAsSent of             *)
(* MCResponseParser; here the peer gets the response at once.              *)
(***************************************************************************)
EXTENDS RequestParser, RequestHandler

CONSTANTS
    Scripts,        \* the sequences of requests that a peer may send
    ReadSizes       \* what async_read_some transfers at most

\* The requests of a peer: a known method, and what GetContentLength makes of the
\* length that is announced.  The section of the headers has room for two lines.
Messages == [length : Lengths \cup {Absent, InvalidLength}, connection : ConnectionValues,
             body : Nat, keep_alive : BOOLEAN]

ASSUME ExchangeAssumption ==
    /\ Scripts \subseteq Seq([method : Methods \ {"Unknown"}, msg : Messages])
    /\ ReadSizes \subseteq Nat \ {0}
    /\ MaxHeaders >= 14

VARIABLES
    script,         \* the requests of this peer
    pipelining,     \* it sends them without waiting for responses
    sent,           \* requests sent so far
    stream,         \* characters sent that the server has not read
    buffer,         \* characters of buffer_ that are still to be parsed
    dropped,        \* history: characters that Parse was given and left
    phase,          \* of the connection, as in Session, and "sent"
    connection,     \* headers_["Connection"] of the request being parsed
    handed,         \* history: the HttpRequests request_handler_ was called with
    response,       \* the latest response
    keep,           \* keep_alive of DoWrite
    received,       \* responses that reached the peer as a whole
    cut             \* history: the timeout, the stop or the peer closed the
                    \* connection, or a response was sent in part

peerVars == <<script, pipelining, sent>>
wireVars == <<stream, buffer, dropped>>
answerVars == <<handed, response, keep, received, cut>>
exchangeVars == <<parserVars, peerVars, wireVars, answerVars, phase, connection>>

ExchangeInit ==
    /\ ParserInit
    /\ script \in Scripts /\ pipelining \in BOOLEAN
    /\ sent = 0 /\ stream = <<>> /\ buffer = <<>> /\ dropped = 0
    /\ phase = "receiving" /\ connection = "absent"
    /\ handed = <<>> /\ response = StockResponse("Ok") /\ keep = FALSE
    /\ received = 0 /\ cut = FALSE

-----------------------------------------------------------------------------
(* HttpRequest::PackToString.  Words and names are one character.          *)

Plain(chars) == [i \in 1..Len(chars) |-> [ch |-> chars[i], length |-> NoLength, connection |-> "absent"]]

FirstLine == Plain(<<"letter", "sp", "slash", "sp", "h", "t", "t", "p", "slash", "1", "dot", "1", "cr", "lf">>)

\* The last character carries what the line says.
HeaderLine(length, value) ==
    Plain(<<"print", "colon", "sp", "print", "cr">>) \o
    <<[ch |-> "lf", length |-> length, connection |-> value]>>

\* The two headers in the order that the map has them.
PackedHeaders(msg) ==
    LET length == IF msg.length = Absent THEN <<>> ELSE HeaderLine(msg.length, "absent")
        value == IF msg.connection = "absent" THEN <<>> ELSE HeaderLine(NoLength, msg.connection)
    IN {length \o value, value \o length}

\* Every character also has its place in the request, and the method.
PackToString(req) ==
    {LET chars == FirstLine \o headers \o Plain(<<"cr", "lf">>) \o
                  Plain([i \in 1..req.msg.body |-> "letter"])
     IN [i \in 1..Len(chars) |-> [char |-> chars[i], at |-> i, method |-> req.method]] :
        headers \in PackedHeaders(req.msg)}

-----------------------------------------------------------------------------
(* The peer.                                                               *)

\* A peer that does not pipeline sends the next request when it has the response
\* and the response said that the connection is kept alive.
MaySend ==
    \/ pipelining
    \/ sent = 0
    \/ received = sent /\ response.msg.connection = "keep-alive"

PeerSends ==
    /\ sent < Len(script)
    /\ MaySend
    /\ sent' = sent + 1
    /\ \E chars \in PackToString(script[sent']) : stream' = stream \o chars
    /\ UNCHANGED <<parserVars, script, pipelining, buffer, dropped, answerVars, phase, connection>>

-----------------------------------------------------------------------------
(* The connection.                                                         *)

ReadCompletes(n) ==
    /\ phase = "receiving"
    /\ buffer = <<>> /\ stream # <<>>
    /\ LET size == IF n < Len(stream) THEN n ELSE Len(stream) IN
       /\ buffer' = SubSeq(stream, 1, size)
       /\ stream' = SubSeq(stream, size + 1, Len(stream))
    /\ UNCHANGED <<parserVars, peerVars, dropped, answerVars, phase, connection>>

\* A word read from its middle is no method.
WordRead(c) == IF c.at = consumed + 1 THEN c.method ELSE "Unknown"

\* PopHttpRequest: the constructor of HttpRequest gets the body and sets its
\* headers.
PopHttpRequest(length, value, body) ==
    NewRequest(IF length \in Lengths THEN length ELSE Absent, value, body)

\* One turn of the loop of Parse in DoRead's handler.
ParseNext ==
    /\ phase = "receiving"
    /\ buffer # <<>>
    /\ LET c == Head(buffer) IN
       /\ ParseChar(c.char.ch, WordRead(c), c.char.length)
       /\ connection' = IF connection = "absent" THEN c.char.connection ELSE connection
    /\ IF result' = "InProgress"
       THEN /\ buffer' = Tail(buffer)
            /\ UNCHANGED <<dropped, phase, handed, response, keep>>
       ELSE /\ buffer' = <<>>
            /\ dropped' = dropped + Len(buffer) - 1
            /\ IF result' = "Ok"
               THEN /\ phase' = "answering"
                    /\ handed' = Append(handed, [method |-> method',
                           msg |-> PopHttpRequest(content_length', connection', body_len')])
                    /\ UNCHANGED <<response, keep>>
               ELSE /\ phase' = "sending"
                    /\ response' = StockResponse("BadRequest")
                    /\ keep' = FALSE
                    /\ UNCHANGED handed
    /\ UNCHANGED <<peerVars, stream, received, cut>>

\* The callback of main.cpp: HandleRequest, and Send with the request's flag.
Answer(found) ==
    /\ phase = "answering"
    /\ phase' = "sending"
    /\ response' = HandleRequest(Last(handed).msg, found, 1)
    /\ keep' = Last(handed).msg.keep_alive
    /\ UNCHANGED <<parserVars, peerVars, wireVars, handed, received, cut, connection>>

\* async_send completes, with all of the response or a part of it.
SendCompletes(whole) ==
    /\ phase = "sending"
    /\ phase' = "sent"
    /\ received' = IF whole THEN received + 1 ELSE received
    /\ cut' = (cut \/ ~whole)
    /\ UNCHANGED <<parserVars, peerVars, wireVars, handed, response, keep, connection>>

\* DoWrite's handler, and DoContinueSession.
OnSent ==
    /\ phase = "sent"
    /\ IF keep
       THEN /\ phase' = "receiving"
            /\ ContinueSession
            /\ connection' = "absent"
       ELSE phase' = "over" /\ UNCHANGED <<parserVars, connection>>
    /\ UNCHANGED <<peerVars, wireVars, answerVars>>

\* The timeout, the stop, or a peer that goes away.
Close ==
    /\ phase # "over"
    /\ phase' = "over"
    /\ cut' = TRUE
    /\ UNCHANGED <<parserVars, peerVars, wireVars, handed, response, keep, received, connection>>

Serve ==
    \/ \E n \in ReadSizes : ReadCompletes(n)
    \/ ParseNext
    \/ \E found \in Lookups : Answer(found)
    \/ \E whole \in BOOLEAN : SendCompletes(whole)
    \/ OnSent

ExchangeNext == PeerSends \/ Serve \/ Close

\* Bytes that were sent arrive, handlers run, a send completes.  A peer need not
\* send anything.
ExchangeSpec == ExchangeInit /\ [][ExchangeNext]_exchangeVars /\ WF_exchangeVars(Serve)

-----------------------------------------------------------------------------
(* Properties.                                                             *)

\* The server takes the body of a request to be as long as the peer does.  Not
\* so for a body that is announced and not sent, as HttpRequest::SetBody does,
\* and for a body of another method than POST.
Framed(req) ==
    req.msg.body = IF req.method = "Post" /\ req.msg.length \in Lengths THEN req.msg.length ELSE 0

\* The Content-Length of a body of n characters.
BodyLength(n) == IF n = 0 THEN Absent ELSE n

AllFramed == \A i \in 1..sent : Framed(script[i])

\* The server's callback gets the requests that were sent, in order, however the
\* stream is cut into reads, and none is refused: each HttpRequest has the method
\* and the keep-alive flag of the request sent, and its Content-Length is the size
\* of the body sent.  Of the body nothing is said: the constructor of HttpRequest
\* loses it (BodyIsSet), and handed[i].msg.body is 0 whatever was sent.  The
\* condition is that no character was dropped, which only pipelining can cause
\* (RequestParser.cpp:450).
HandedAsSent ==
    AllFramed =>
        /\ ~pipelining => dropped = 0
        /\ dropped = 0 =>
               /\ result # "Error"
               /\ Len(handed) <= sent
               /\ \A i \in DOMAIN handed :
                      /\ handed[i].method = script[i].method
                      /\ handed[i].msg.length = BodyLength(script[i].msg.body)
                      /\ handed[i].msg.keep_alive = IsKeepAliveConnection(script[i].msg.connection)

\* A peer that waits for each response, and believes its Connection header, gets
\* a response to everything it sends, unless the connection is cut: a response
\* that says keep-alive is one after which the server goes on reading.
AnswerArrives ==
    \A k \in 1..2 :
        sent = k ~> received >= k \/ cut \/ pipelining \/ ~AllFramed
=============================================================================
