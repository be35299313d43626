--------------------------- MODULE MCHttpMessage ---------------------------
(* An HttpRequest and the calls of its constructor and setters. *)
EXTENDS HttpMessage

CONSTANT Sizes      \* sizes of bodies

VARIABLES
    request,    \* an HttpRequest
    wanted      \* history: the size of the body that was set last

MessageInit ==
    \E length \in Sizes \cup {Absent}, connection \in ConnectionValues, body \in Sizes :
        /\ request = NewRequest(length, connection, body)
        /\ wanted = body

SetHeader(value) == request' = SetConnection(request, value) /\ UNCHANGED wanted

SetBody(body) == request' = SetRequestBody(request, body) /\ wanted' = body

MessageNext ==
    \/ \E value \in ConnectionValues \ {"absent"} : SetHeader(value)
    \/ \E body \in Sizes : SetBody(body)

MessageSpec == MessageInit /\ [][MessageNext]_<<request, wanted>>

\* GetBody returns the body that was set last (HttpRequest.hpp:43, :63), by the
\* constructor, which the server's parser calls, or by SetBody.
BodyIsSet == request.body = wanted

\* A request says that it is keep-alive if its Connection header says so
\* (HttpRequest.hpp:47), in the spelling that RequestHandler.cpp:163 sends.
KeepAliveAsAsked == request.connection = "keep-alive" => request.keep_alive
=============================================================================
