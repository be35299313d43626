----------------------------- MODULE MCExchange -----------------------------
(***************************************************************************)
(* Instances of Exchange for TLC: peers with scripts of up to two requests,*)
(* and beside them paths that grow byte by byte, for the URI that names a  *)
(* path.                                                                   *)
(***************************************************************************)
EXTENDS Exchange

CONSTANTS
    SomeBytes,      \* bounds: the bytes of paths,
    PathSize        \* and their number

ASSUME PathAssumption == SomeBytes \subseteq Bytes

VARIABLE path

\* Of any peer: the length that is announced is the size of the body.
Foreign(m, value, body) ==
    [method |-> m,
     msg |-> [Message(BodyLength(body), value) EXCEPT !.body = body]]

\* Of a program that uses this library's client.
OfClient(m, value, body) ==
    [method |-> m, msg |-> NewRequest(Absent, value, body)]

RequestsWith(values, sizes) ==
    {Foreign(m, v, n) : m \in {"Post", "Other"}, v \in values, n \in sizes} \cup
    {OfClient(m, v, n) : m \in {"Post", "Other"}, v \in values, n \in sizes}

MCScripts ==
    {<<>>} \cup
    {<<a, b>> : a \in RequestsWith({"keep-alive", "kepp-alive"}, {0, 1}),
                b \in RequestsWith({"absent"}, {0, 2})}

MCInit == ExchangeInit /\ path = <<>>

MCNext ==
    \/ ExchangeNext /\ UNCHANGED path
    \/ /\ script = <<>> /\ phase = "receiving" /\ ~pipelining
       /\ Len(path) < PathSize
       /\ \E b \in SomeBytes : path' = Append(path, b)
       /\ UNCHANGED exchangeVars

MCSpec == MCInit /\ [][MCNext]_<<exchangeVars, path>> /\ WF_exchangeVars(Serve /\ UNCHANGED path)

-----------------------------------------------------------------------------
(* The reference for UriDecode: how a byte may be written in a URI.        *)

HexCode(d) == IF d < 10 THEN {48 + d} ELSE {55 + d, 87 + d}

Escapes(b) == {<<Percent, h, l>> : h \in HexCode(b \div 16), l \in HexCode(b % 16)}

Encodings(b) ==
    Escapes(b) \cup (IF b = Blank THEN {<<Plus>>} ELSE {})
               \cup (IF b \in {Percent, Plus} THEN {} ELSE {<<b>>})

URIs(bytes) ==
    {FlattenSeq(codes) : codes \in {f \in [1..Len(bytes) -> UNION {Encodings(b) : b \in ToSet(bytes)}] :
                                       \A i \in 1..Len(bytes) : f[i] \in Encodings(bytes[i])}}

\* Every URI of a path leads HandleRequest to that path, with one literal leading
\* slash taken away, whichever bytes are escaped and whether SetURI has added the
\* slash or the client wrote it.
UriNamesPath ==
    \A uri \in URIs(path) :
        RequestPath(SetURI(uri)) =
            IF uri # <<>> /\ uri[1] = Slash THEN Tail(path) ELSE path
=============================================================================
