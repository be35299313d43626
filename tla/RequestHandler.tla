--------------------------- MODULE RequestHandler ---------------------------
(***************************************************************************)
(* RequestHandler of the server: the path that a URI names, and the        *)
(* response for what the file system has under that path.  A URI and a     *)
(* path are sequences of bytes.  The file system is external: what the     *)
(* code finds is a parameter.                                              *)
(***************************************************************************)
EXTENDS HttpMessage

Percent == 37
Plus == 43
Blank == 32

Bytes == 0..255
Nullopt == <<-1>>       \* std::nullopt, no sequence of bytes
NoNumber == -1000       \* operator>> fails

\* 16 if b is no hexadecimal digit.
HexDigit(b) ==
    IF b \in 48..57 THEN b - 48
    ELSE IF b \in 65..70 THEN b - 55
    ELSE IF b \in 97..102 THEN b - 87
    ELSE 16

IsHex(b) == HexDigit(b) < 16

\* operator>> with std::hex on a stream of the two characters a and b: leading
\* white space, a sign and a prefix 0x are read too, and a number may end early.
ReadHex(a, b) ==
    IF IsHex(a) /\ IsHex(b) THEN 16 * HexDigit(a) + HexDigit(b)
    ELSE IF a = 48 /\ b \in {88, 120} THEN NoNumber
    ELSE IF IsHex(a) THEN HexDigit(a)
    ELSE IF ~IsHex(b) THEN NoNumber
    ELSE IF a \in {9, 10, 11, 12, 13, Blank, Plus} THEN HexDigit(b)
    ELSE IF a = 45 THEN -HexDigit(b)
    ELSE NoNumber

\* One byte, and the rest unless that is nullopt.
Decoded(byte, rest) == IF rest = Nullopt THEN Nullopt ELSE <<byte>> \o rest

HasEscapeLate(uri, i) == i + 3 <= Len(uri)

\* Two characters follow the percent sign.
HasEscape(uri, i) == i + 2 <= Len(uri)

\* from[i] is what the loop makes of the URI from its i-th byte on.
UriDecode(uri) ==
    LET from[i \in 1..(Len(uri) + 1)] ==
            IF i > Len(uri) THEN <<>>
            ELSE IF uri[i] = Plus THEN Decoded(Blank, from[i + 1])
            ELSE IF uri[i] # Percent THEN Decoded(uri[i], from[i + 1])
            ELSE IF ~HasEscape(uri, i) THEN Nullopt
            ELSE IF ReadHex(uri[i + 1], uri[i + 2]) = NoNumber THEN Nullopt
            ELSE Decoded(ReadHex(uri[i + 1], uri[i + 2]) % 256, from[i + 3])
    IN from[1]

\* The path below the document root.
RequestPath(uri) ==
    LET path == UriDecode(uri) IN
    IF path # <<>> /\ path[1] = Slash THEN Tail(path) ELSE path

\* What the code comes to when it looks for a path: the path is not to be
\* decoded, is outside of the root, is a directory or a readable file, of which
\* the response has size bytes, or is neither, or something throws.  Which it is
\* depends on the root, the file system and the code's test whether the string of
\* the absolute path, unresolved, begins with that of the root.  None of these is
\* modelled: any outcome is possible for any path.
Lookups ==
    {"undecodable", "outside", "directory", "file", "unreadable", "neither", "throws"}

AnnounceAlways(http_req, rep) == [rep EXCEPT !.msg.connection = "keep-alive"]

\* Responses with a found path say whether the connection is kept alive.
Announce(http_req, rep) ==
    IF http_req.keep_alive THEN [rep EXCEPT !.msg.connection = "keep-alive"] ELSE rep

HandleRequest(http_req, found, size) ==
    CASE found = "undecodable" -> StockResponse("BadRequest")
      [] found \in {"outside", "unreadable", "neither"} -> StockResponse("NotFound")
      [] found = "throws" -> StockResponse("InternalServerError")
      [] found \in {"directory", "file"} -> Announce(http_req, Response("Ok", size))
=============================================================================
