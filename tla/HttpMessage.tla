---------------------------- MODULE HttpMessage ----------------------------
(***************************************************************************)
(* HttpRequest and HttpResponse: what their setters make of the headers,   *)
(* the body and the keep-alive flag.  A message is a record.  Of the       *)
(* headers it has Content-Length and Connection, of the body its size.     *)
(* The status codes are those of Types.hpp.                                *)
(***************************************************************************)
EXTENDS Integers, Sequences

Absent == -1        \* the map has no Content-Length

\* "close" stands for every other value.
ConnectionValues == {"absent", "keep-alive", "kepp-alive", "close"}

Message(length, connection) ==
    [length |-> length, connection |-> connection, body |-> 0, keep_alive |-> FALSE]

\* The value that means keep-alive to the code.
IsKeepAliveConnection(value) == value = "kepp-alive"

\* HttpRequest::SetHeader of Connection.
SetConnection(msg, value) ==
    [msg EXCEPT !.connection = value, !.keep_alive = IsKeepAliveConnection(value)]

\* The header that goes with a body.
LabelBody(msg) == [msg EXCEPT !.length = IF msg.body = 0 THEN Absent ELSE msg.body]

\* HttpRequest::SetBody swaps the new body in, sets the header, and swaps again.
SetRequestBody(msg, body) ==
    [LabelBody([msg EXCEPT !.body = body]) EXCEPT !.body = msg.body]

NewRequest(length, connection, body) ==
    LET msg == SetRequestBody(Message(length, connection), body)
    IN IF connection = "absent" THEN msg
       ELSE [msg EXCEPT !.keep_alive = IsKeepAliveConnection(connection)]

\* The header is set from the size of the body that was there before.
SetResponseBodyLate(msg, body) == [LabelBody(msg) EXCEPT !.body = body]

SetResponseBody(msg, body) == LabelBody([msg EXCEPT !.body = body])

NewResponse(length, connection, body) ==
    SetResponseBody(Message(length, connection), body)

-----------------------------------------------------------------------------
(* Status codes and the responses that the server makes of them.           *)

StatusNumber ==
    [Ok |-> 200, Created |-> 201, Accepted |-> 202, NoContent |-> 204,
     MultipleChoices |-> 300, MovedPermanently |-> 301, MovedTemporarily |-> 302,
     NotModified |-> 304, BadRequest |-> 400, Unauthorized |-> 401, Forbidden |-> 403,
     NotFound |-> 404, InternalServerError |-> 500, NotImplemented |-> 501,
     BadGateway |-> 502, ServiceUnavailable |-> 503]

StatusCodes == DOMAIN StatusNumber

GetStatusCodeFromUnsigned(n) ==
    IF \E s \in StatusCodes : StatusNumber[s] = n
    THEN CHOOSE s \in StatusCodes : StatusNumber[s] = n
    ELSE "Unknown"

\* The size of GetDefaultHtmlText: a page, whose text does not matter, or nothing.
HtmlSize(status) == IF status = "Ok" THEN 0 ELSE 1

Response(status, body) == [status |-> status, msg |-> NewResponse(Absent, "absent", body)]

StockResponse(status) == Response(status, HtmlSize(status))

-----------------------------------------------------------------------------
(* A URI is a sequence of bytes.                                           *)

Slash == 47

\* HttpRequest::SetURI, which the constructor calls.
SetURI(uri) == IF uri # <<>> /\ uri[1] = Slash THEN uri ELSE <<Slash>> \o uri
=============================================================================
