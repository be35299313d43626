-------------------------- MODULE ResponseGrammar --------------------------
(***************************************************************************)
(* ResponseParser against its references, in one of three modes.  "any":   *)
(* every character at every point.  "text": the texts that a grammar of    *)
(* HTTP responses generates, written without regard to the parser's        *)
(* states.  "packed": the texts that PackToString makes of the server's    *)
(* responses.  A text is a sequence of characters, each with what the      *)
(* strings collected so far mean and the value of a hexadecimal digit.     *)
(***************************************************************************)
EXTENDS ResponseParser, RequestHandler

CONSTANTS
    Minors, Numbers,        \* of the status line: minor versions, status codes,
    StatusTexts,            \* and what follows: blank and text, or nothing
    Keys, Blanks, Values,   \* of a header line; Blanks come before the value
    Announced,              \* what a header line says of the body
    MaxLines,               \* bound: header lines
    BodyChars,              \* the characters of bodies
    Payloads,               \* the data of a chunk
    MaxDigits, MaxChunks,   \* bounds: digits of a chunk size, chunks
    AnyChunkChars,  \* bounds in the mode "any": characters of a chunked body,
    AnyChunkHeaders,\* and of the header section before it
    HexValues       \* bound: the digits of chunk sizes in the mode "any"

\* What fits the buffers: the first digit of a status code and the blank after
\* it are not stored, and a minor version is tested with its last digit.
ASSUME GrammarAssumption ==
    /\ \A minor \in Minors : minor \in Seq(DigitChars) /\ Len(minor) \in 1..(MaxMinor - 1)
    /\ \A number \in Numbers : number \in Seq(DigitChars) /\ Len(number) \in 1..(MaxCode + 1)
    /\ \A words \in StatusTexts :
          /\ words \in Seq(Chars) /\ Len(words) <= MaxText + 1
          /\ words # <<>> => words[1] \in {"sp", "tab"}
          /\ \A i \in 2..Len(words) : words[i] \notin Ctl
    /\ \A key \in Keys : key \in Seq(NameChars) /\ key # <<>>
    /\ Blanks \subseteq Seq({"sp", "tab"})
    /\ \A value \in Values : value \in Seq(Chars \ Ctl) /\ (value # <<>> => value[1] # "sp")
    /\ Announced \subseteq Meanings
    /\ MaxLines \in Nat
    /\ BodyChars \subseteq Chars
    /\ \A data \in Payloads : data \in Seq(Chars) /\ Len(data) \in 1..MaxReserve /\ Len(data) < Wrap
    /\ MaxDigits \in Nat /\ MaxChunks \in Nat

\* What the server sends fits the client's buffers.
ASSUME PackedAssumption == MaxCode >= 2 /\ MaxText >= 3 /\ MaxHeaders >= 20

VARIABLES
    mode, text, pos,
    reply       \* the response whose text it is, in the mode "packed"

grammarVars == <<responseVars, mode, text, pos, reply>>

Char(ch, n, v) == [ch |-> ch, n |-> n, v |-> v]
Plain(chars) == [i \in 1..Len(chars) |-> Char(chars[i], NoLength, 16)]
LineEnd(n) == <<Char("cr", n, 16), Char("lf", n, 16)>>

StatusLine(minor, number, words) ==
    Plain(<<"h", "t", "t", "p", "slash", "1", "dot">>) \o Plain(minor) \o Plain(<<"sp">>) \o
    Plain(number) \o Plain(words) \o LineEnd(NoLength)

HeaderLines == [key : Keys, blanks : Blanks, value : Values, means : Announced]

LineText(header_line) ==
    Plain(header_line.key) \o Plain(<<"colon">>) \o Plain(header_line.blanks) \o
    Plain(header_line.value) \o LineEnd(header_line.means)

\* The header section, with the line that ends it.
Section(headers) ==
    FlattenSeq([i \in 1..Len(headers) |-> LineText(headers[i])]) \o LineEnd(NoLength)

\* Lists of headers that fit the section.
Fitting ==
    {headers \in UNION {[1..n -> HeaderLines] : n \in 0..MaxLines} :
        Len(Section(headers)) <= MaxHeaders}

\* The first header of a kind counts.
FirstOf(headers, kinds) ==
    LET said == {i \in DOMAIN headers : headers[i].means \in kinds}
    IN IF said = {} THEN NoLength ELSE headers[Min(said)].means

LengthKinds == Lengths \cup {InvalidLength}
EncodingKinds == {Chunked, OtherEncoding}

LengthOf(headers) ==
    IF FirstOf(headers, LengthKinds) \in Lengths THEN FirstOf(headers, LengthKinds) ELSE 0

-----------------------------------------------------------------------------
(* Bodies.                                                                 *)

DigitClass(d) == IF d = 0 THEN "0" ELSE IF d = 1 THEN "1" ELSE IF d < 10 THEN "digit" ELSE "hex"

\* What is left of n without its last j hexadecimal digits.
Shifted(n) ==
    LET shifted[j \in 0..MaxDigits] == IF j = 0 THEN n ELSE shifted[j - 1] \div 16
    IN shifted

\* The last k digits of n.
Hexadecimal(n, k) ==
    [i \in 1..k |-> LET d == Shifted(n)[k - i] % 16 IN Char(DigitClass(d), NoLength, d)]

SizeLine(n, k) == Hexadecimal(n, k) \o LineEnd(NoLength)

\* A chunk and the number of digits of its size, which may have leading zeros.
Chunks ==
    {chunk_of \in [data : Payloads, digits : 1..MaxDigits] :
        Shifted(Len(chunk_of.data))[chunk_of.digits] = 0}

ChunkText(chunk_of) ==
    SizeLine(Len(chunk_of.data), chunk_of.digits) \o Plain(chunk_of.data) \o LineEnd(NoLength)

ChunkedBody(chunks, k) ==
    FlattenSeq([i \in 1..Len(chunks) |-> ChunkText(chunks[i])]) \o SizeLine(0, k)

Bodies(headers) ==
    IF FirstOf(headers, EncodingKinds) = Chunked
    THEN {ChunkedBody(chunks, k) :
             chunks \in UNION {[1..n -> Chunks] : n \in 0..MaxChunks}, k \in 1..MaxDigits}
    ELSE {Plain(body) : body \in [1..LengthOf(headers) -> BodyChars]}

Responses(headers) ==
    {StatusLine(minor, number, words) \o Section(headers) \o body :
        minor \in Minors, number \in Numbers, words \in StatusTexts, body \in Bodies(headers)}

Texts == UNION {Responses(headers) : headers \in Fitting}

-----------------------------------------------------------------------------
(* HttpResponse::PackToString.                                             *)

Number(n) == <<DigitClass(n \div 100), DigitClass((n \div 10) % 10), DigitClass(n % 10)>>

\* What the client reads in the value that SetBody writes.
LengthRead(n) == IF n \in Lengths THEN n ELSE InvalidLength

\* A name and a value are one character here.
PackedHeader(name, n) == [key |-> <<name>>, blanks |-> <<"sp">>, value |-> <<"print">>, means |-> n]

\* Content-Type, Connection and Content-Length, in the order that the map has them.
PackedHeaders(msg) ==
    SetToSeqs(
        {PackedHeader("t", NoLength)}
        \cup (IF msg.connection = "absent" THEN {} ELSE {PackedHeader("print", NoLength)})
        \cup (IF msg.length = Absent THEN {} ELSE {PackedHeader("p", LengthRead(msg.length))}))

PackToString(rep) ==
    {StatusLine(<<"1">>, Number(StatusNumber[rep.status]), <<"sp", "print", "sp", "print">>) \o
     Section(headers) \o Plain([i \in 1..rep.msg.body |-> "high"]) :
        headers \in PackedHeaders(rep.msg)}

\* A request of either kind: Announce looks at nothing else.
Replies ==
    {StockResponse(status) : status \in StatusCodes} \cup
    {HandleRequest([keep_alive |-> keep], "file", size) : keep \in BOOLEAN, size \in 0..(MaxBody + 1)}

\* What the client makes of the number.
CodeRead ==
    IF GetStatusCodeFromUnsigned(StatusNumber[reply.status]) = "Unknown" THEN "unknown" ELSE "known"

-----------------------------------------------------------------------------
GrammarInit ==
    /\ ResponseInit
    /\ pos = 0
    /\ \/ mode = "any" /\ text = <<>> /\ reply = StockResponse("Ok")
       \/ mode = "text" /\ text \in Texts /\ reply = StockResponse("Ok")
       \/ mode = "packed" /\ \E rep \in Replies : reply = rep /\ text \in PackToString(rep)

GrammarNext ==
    /\ \/ /\ mode = "any"
          /\ chunk_chars < AnyChunkChars
          /\ state = "BodyChunk" => readed_count <= AnyChunkHeaders
          /\ \E ch \in Chars :
                \E code \in AskedCodes, n \in AskedMeanings,
                   v \in AskedDigits(ch) \cap (HexValues \cup {16}) :
                    ParseChar(ch, code, n, v)
          /\ UNCHANGED pos
       \/ /\ mode \in {"text", "packed"}
          /\ pos < Len(text)
          /\ pos' = pos + 1
          /\ ParseChar(text[pos'].ch, CodeRead, text[pos'].n, text[pos'].v)
    /\ UNCHANGED <<mode, text, reply>>

GrammarSpec == GrammarInit /\ [][GrammarNext]_grammarVars

\* Every text of this grammar that fits the buffers is accepted, with its last
\* character and not before.  It has no tab in a value, chunk extension or trailer.
ResponseAcceptsGrammar ==
    mode = "text" => result # "Error" /\ (result = "Ok" <=> pos = Len(text))

\* What the server sends is what the client's handler gets: every response that
\* HandleRequest or StockResponse makes, packed, in whatever order of headers,
\* and parsed, arrives with its last character and not before, with the body and
\* the length it was made with.  max_body_size limits the client only, so a
\* larger body is excepted.
ResponseAsSent ==
    mode = "packed" /\ reply.msg.body \in Lengths =>
        /\ result # "Error"
        /\ result = "Ok" <=> pos = Len(text)
        /\ result = "Ok" => PopHttpResponse.body = reply.msg.body
                            /\ PopHttpResponse.length = reply.msg.length
=============================================================================
