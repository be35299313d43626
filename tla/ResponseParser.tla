--------------------------- MODULE ResponseParser ---------------------------
(***************************************************************************)
(* HttpResponseParser with its HttpStatusLineParser, HeadersParser and     *)
(* BodyChunksParser.  A Request of the client feeds it one character at a  *)
(* time, once: it has a new parser for every response.                     *)
(*                                                                         *)
(* As in RequestParser characters are classes and strings are sizes, and   *)
(* what a string spells is chosen when the code asks: the status code, the *)
(* meaning of a header line, the value of a hexadecimal digit.             *)
(***************************************************************************)
EXTENDS ContentLength, HttpMessage

CONSTANTS
    MaxMinor,       \* max_minor_version_size: 5
    MaxCode,        \* max_status_code_size: 6
    MaxText,        \* size of status_text_: 100
    MaxHeaders,     \* max_headers_block_size_: 8192
    Wrap,           \* the values of chunk_size_, a size_t: 2^64
    MaxReserve,     \* what current_chunk_ can reserve
    MaxChunkChars   \* bound: characters of a chunked body

ASSUME ResponseAssumption ==
    /\ MaxMinor \in Nat \ {0, 1}
    /\ MaxCode \in Nat \ {0}
    /\ MaxText \in Nat \ {0}
    /\ MaxHeaders \in Nat \ {0}
    /\ Wrap \in Nat \ {0}
    /\ MaxReserve \in 0..Wrap
    /\ MaxChunkChars \in Nat

\* "hex": the letters a to f; "letter" and "print" have one class here.
DigitChars == {"0", "1", "digit"}
Ctl == {"cr", "lf", "tab", "ctl"}
Special == {"sp", "tab", "colon", "slash", "special"}
NameChars == {"h", "t", "p", "hex", "dot", "print"} \cup DigitChars
Chars == NameChars \cup Ctl \cup Special \cup {"high"}

\* GetHex, which is at least 16 for the other characters.
GetHex(ch) ==
    CASE ch = "0" -> {0}
      [] ch = "1" -> {1}
      [] ch = "digit" -> 2..9
      [] ch = "hex" -> 10..15
      [] OTHER -> {16}

\* code_ when its digits end, or when it passes max_status_code.
Codes == {"known", "unknown", "big"}

\* What a header line says of the body: nothing, a Content-Length as in
\* ContentLength, or a Transfer-Encoding.
NoLength == -1
Chunked == -3
OtherEncoding == -4
Lengths == 0..MaxBody
Meanings == Lengths \cup {NoLength, InvalidLength, Chunked, OtherEncoding}

VARIABLES
    state,          \* HttpResponseParser::state_
    result,         \* of the latest Parse; "Terminated": std::terminate was called
    line,           \* HttpStatusLineParser::state_
    minor_size,     \* minor_version_size_
    code_size,      \* http_status_code_size_
    text_size,      \* characters in status_text_
    header,         \* HeadersParser::state_
    key_size,       \* characters in key_
    value_size,     \* characters in value_
    readed_count,   \* readed_char_count_
    content_length, \* headers_["Content-Length"]
    encoding,       \* headers_["Transfer-Encoding"]
    body_size,      \* body_size_
    body_len,       \* body_.size()
    chunk,          \* BodyChunksParser::state_
    chunk_size,     \* chunk_size_
    chunk_len,      \* current_chunk_.size()
    chunks_size,    \* BodyChunksParser::body_size_
    chunk_chars,    \* history: characters of the chunked body
    blank,          \* history: how much of CR LF CR LF the head ends with
    declared,       \* history: the sum of the sizes of the chunks begun
    line_size       \* history: the value of the current size line
                    \* (of both, Wrap if they do not fit a size_t)

lineVars == <<line, minor_size, code_size, text_size>>
headerVars == <<header, key_size, value_size, readed_count, content_length, encoding>>
bodyVars == <<body_size, body_len>>
chunkVars == <<chunk, chunk_size, chunk_len, chunks_size, chunk_chars, declared, line_size>>
responseVars == <<state, result, lineVars, headerVars, bodyVars, chunkVars, blank>>

LineStates == {"H", "T1", "T2", "P", "Slash", "MajorStart", "Major", "MinorStart",
               "Minor", "CodeStart", "Code", "StatusText", "Newline1", "Parsed"}

HeaderStates == {"LineStart", "Lws", "Name", "Value", "Newline2", "Newline3", "Parsed"}

ChunkStates == {"SizeStart", "Size", "Newline1", "Body", "BodyExpectNewLine",
                "Newline2", "Parsed"}

ResponseTypeOK ==
    /\ state \in {"HttpStart", "Headers", "Body", "BodyChunk", "Parsed"}
    /\ result \in {"InProgress", "Ok", "Error", "Terminated"}
    /\ line \in LineStates
    /\ header \in HeaderStates
    /\ chunk \in ChunkStates
    /\ {minor_size, code_size, text_size, key_size, value_size, readed_count} \subseteq Nat
    /\ content_length \in Lengths \cup {NoLength, InvalidLength}
    /\ encoding \in {NoLength, Chunked, OtherEncoding}
    /\ {body_size, body_len} \subseteq Nat
    /\ chunk_size \in 0..(Wrap - 1)
    /\ {chunk_len, chunks_size, chunk_chars, declared, line_size} \subseteq Nat
    /\ blank \in 0..4

ResponseInit ==
    /\ state = "HttpStart" /\ result = "InProgress"
    /\ line = "H" /\ minor_size = 0 /\ code_size = 0 /\ text_size = 0
    /\ header = "LineStart" /\ key_size = 0 /\ value_size = 0 /\ readed_count = 0
    /\ content_length = NoLength /\ encoding = NoLength
    /\ body_size = 0 /\ body_len = 0
    /\ chunk = "SizeStart" /\ chunk_size = 0 /\ chunk_len = 0 /\ chunks_size = 0
    /\ chunk_chars = 0 /\ declared = 0 /\ line_size = 0 /\ blank = 0

-----------------------------------------------------------------------------
(* HttpStatusLineParser::Parse.                                            *)

RejectLine == result' = "Error" /\ UNCHANGED lineVars

GoToLine(s) == line' = s /\ result' = "InProgress"

\* The states that accept one character or two and store nothing the model keeps.
FixedChars ==
    [H |-> {"h"}, T1 |-> {"t"}, T2 |-> {"t"}, P |-> {"p"}, Slash |-> {"slash"},
     MajorStart |-> {"0", "1"}, Major |-> {"dot"}, CodeStart |-> DigitChars,
     Newline1 |-> {"lf"}]

AfterFixed ==
    [H |-> "T1", T1 |-> "T2", T2 |-> "P", P |-> "Slash", Slash |-> "MajorStart",
     MajorStart |-> "Major", Major |-> "MinorStart", CodeStart |-> "Code",
     Newline1 |-> "Parsed"]

FixedChar(ch) ==
    /\ line \in DOMAIN FixedChars
    /\ IF ch \in FixedChars[line]
       THEN GoToLine(AfterFixed[line]) /\ UNCHANGED <<minor_size, code_size, text_size>>
       ELSE RejectLine

\* The size is tested after the digit was added, and not for the first digit.
MinorChar(ch) ==
    /\ line \in {"MinorStart", "Minor"}
    /\ IF line = "Minor" /\ ch = "sp"
       THEN GoToLine("CodeStart") /\ UNCHANGED <<minor_size, code_size, text_size>>
       ELSE IF ch \in DigitChars
       THEN /\ minor_size' = minor_size + 1
            /\ IF line = "Minor" /\ minor_size + 1 >= MaxMinor
               THEN result' = "Error" /\ UNCHANGED line
               ELSE GoToLine("Minor")
            /\ UNCHANGED <<code_size, text_size>>
       ELSE RejectLine

\* The first digit of the code is not counted.
CodeChar(ch, code) ==
    /\ line = "Code"
    /\ IF ch \in {"sp", "tab", "cr"}
       THEN /\ IF code = "known"
               THEN GoToLine(IF ch = "cr" THEN "Newline1" ELSE "StatusText")
               ELSE result' = "Error" /\ UNCHANGED line
            /\ UNCHANGED <<minor_size, code_size, text_size>>
       ELSE IF ch \in DigitChars
       THEN /\ code_size' = code_size + 1
            /\ IF code_size + 1 > MaxCode \/ code = "big"
               THEN result' = "Error" /\ UNCHANGED line
               ELSE GoToLine("Code")
            /\ UNCHANGED <<minor_size, text_size>>
       ELSE RejectLine

TextCharUnchecked(ch) ==
    /\ line = "StatusText"
    /\ IF ch = "cr"
       THEN GoToLine("Newline1") /\ UNCHANGED <<minor_size, code_size, text_size>>
       ELSE /\ GoToLine("StatusText")
            /\ text_size' = text_size + 1
            /\ UNCHANGED <<minor_size, code_size>>

TextChar(ch) ==
    /\ line = "StatusText"
    /\ IF ch = "cr"
       THEN GoToLine("Newline1") /\ UNCHANGED <<minor_size, code_size, text_size>>
       ELSE IF ch \notin Ctl /\ text_size < MaxText
       THEN /\ GoToLine("StatusText")
            /\ text_size' = text_size + 1
            /\ UNCHANGED <<minor_size, code_size>>
       ELSE RejectLine

LineChar(ch, code) ==
    /\ state = "HttpStart"
    /\ FixedChar(ch) \/ MinorChar(ch) \/ CodeChar(ch, code) \/ TextChar(ch)
    /\ state' = IF line' = "Parsed" THEN "Headers" ELSE state
    /\ UNCHANGED <<headerVars, bodyVars, chunkVars>>

-----------------------------------------------------------------------------
(* HeadersParser::Parse.                                                   *)

NextHeaderEarly(ch) ==
    CASE header = "LineStart" /\ ch = "cr" -> "Parsed"
      [] header \in {"LineStart", "Name"} /\ ch \in NameChars -> "Name"
      [] header = "Name" /\ ch = "colon" -> "Lws"
      [] header \in {"Lws", "Value"} /\ ch = "cr" -> "Newline2"
      [] header \in {"Lws", "Value"} /\ ch \notin Ctl -> "Value"
      [] header = "Newline2" /\ ch = "lf" -> "LineStart"
      [] OTHER -> "Error"

\* The next state, or "Error".  Folded lines, for which HeaderLineStart has a
\* case of its own, do not occur: key_ is empty there.
NextHeader(ch) ==
    CASE header = "LineStart" ->
             IF ch = "cr" THEN "Newline3"
             ELSE IF key_size # 0 /\ ch \in {"sp", "tab"} THEN "Lws"
             ELSE IF ch \in NameChars THEN "Name" ELSE "Error"
      [] header = "Name" ->
             IF ch = "colon" THEN "Lws"
             ELSE IF ch \in NameChars THEN "Name" ELSE "Error"
      [] header = "Lws" ->
             IF ch = "cr" THEN "Newline2"
             ELSE IF ch \in {"sp", "tab"} THEN "Lws"
             ELSE IF ch \in Ctl THEN "Error" ELSE "Value"
      [] header = "Value" ->
             IF ch = "cr" THEN "Newline2"
             ELSE IF ch \in Ctl THEN "Error" ELSE "Value"
      [] header = "Newline2" -> IF ch = "lf" THEN "LineStart" ELSE "Error"
      [] header = "Newline3" -> IF ch = "lf" THEN "Parsed" ELSE "Error"

AddHeaderLast(n) ==
    /\ key_size' = 0
    /\ UNCHANGED value_size
    /\ content_length' = IF content_length = NoLength /\ n \in Lengths \cup {InvalidLength}
                         THEN n ELSE content_length
    /\ encoding' = IF encoding = NoLength /\ n \in {Chunked, OtherEncoding}
                   THEN n ELSE encoding

\* The end of a line adds its header, unless the map has one of that key, and
\* empties both strings.
AddHeader(n) ==
    /\ key_size' = 0
    /\ value_size' = 0
    /\ content_length' = IF content_length = NoLength /\ n \in Lengths \cup {InvalidLength}
                         THEN n ELSE content_length
    /\ encoding' = IF encoding = NoLength /\ n \in {Chunked, OtherEncoding}
                   THEN n ELSE encoding

\* A character of a key or a value goes to its string, without a check.
AddHeaderChar(next, n) ==
    IF header = "Newline2" /\ key_size # 0
    THEN AddHeader(n)
    ELSE /\ key_size' = IF next = "Name" THEN key_size + 1 ELSE key_size
         /\ value_size' = IF next = "Value" THEN value_size + 1 ELSE value_size
         /\ UNCHANGED <<content_length, encoding>>

ExpectedLengthOfNullopt == IF content_length = NoLength THEN 0 ELSE content_length

ExpectedLength == IF content_length \in Lengths THEN content_length ELSE 0

BeginBodyAlways == state' = "Body" /\ result' = "InProgress" /\ body_size' = ExpectedLength

\* The end of the headers: "chunked" comes first, an invalid length is 0.
BeginBody ==
    IF encoding = Chunked
    THEN state' = "BodyChunk" /\ result' = "InProgress" /\ UNCHANGED body_size
    ELSE /\ body_size' = ExpectedLength
         /\ IF ExpectedLength = 0
            THEN state' = "Parsed" /\ result' = "Ok"
            ELSE state' = "Body" /\ result' = "InProgress"

RejectHeader ==
    /\ result' = "Error"
    /\ UNCHANGED <<state, body_size, header, key_size, value_size, content_length, encoding>>

HeaderChar(ch, n) ==
    /\ state = "Headers"
    /\ readed_count' = readed_count + 1
    /\ LET next == NextHeader(ch) IN
       IF readed_count + 1 > MaxHeaders \/ next = "Error"
       THEN RejectHeader
       ELSE /\ header' = next
            /\ AddHeaderChar(next, n)
            /\ IF next = "Parsed" THEN BeginBody
               ELSE result' = "InProgress" /\ UNCHANGED <<state, body_size>>
    /\ UNCHANGED <<lineVars, body_len, chunkVars>>

-----------------------------------------------------------------------------
(* BodyChunksParser::Parse, and what HttpResponseParser does at its end.   *)

UpToWrap(n) == IF n > Wrap THEN Wrap ELSE n

RejectChunk ==
    /\ result' = "Error"
    /\ UNCHANGED <<state, bodyVars, chunk, chunk_size, chunk_len, chunks_size, declared, line_size>>

GoToChunk(s) == chunk' = s /\ result' = "InProgress" /\ UNCHANGED <<state, bodyVars>>

\* v is GetHex(ch).  No digit at all is the size 0; the size may wrap.
SizeChar(ch, v) ==
    /\ chunk \in {"SizeStart", "Size"}
    /\ LET so_far == IF chunk = "SizeStart" THEN 0 ELSE chunk_size
           exact == IF chunk = "SizeStart" THEN 0 ELSE line_size
       IN IF ch = "cr"
          THEN /\ GoToChunk("Newline1")
               /\ chunk_size' = so_far
               /\ line_size' = exact
               /\ UNCHANGED <<chunk_len, chunks_size, declared>>
          ELSE IF v < 16
          THEN /\ GoToChunk("Size")
               /\ chunk_size' = (so_far * 16 + v) % Wrap
               /\ line_size' = UpToWrap(exact * 16 + v)
               /\ UNCHANGED <<chunk_len, chunks_size, declared>>
          ELSE RejectChunk

\* The end of a size line.  Size 0 ends the body, with this character.  For any
\* other the chunk is reserved, in a function that is noexcept.
SizeEnd(ch) ==
    /\ chunk = "Newline1"
    /\ IF ch # "lf" THEN RejectChunk
       ELSE /\ declared' = UpToWrap(declared + line_size)
            /\ UNCHANGED <<chunk_size, chunk_len, chunks_size, line_size>>
            /\ IF chunk_size = 0
               THEN /\ chunk' = "Parsed"
                    /\ state' = "Parsed" /\ result' = "Ok"
                    /\ body_len' = chunks_size /\ body_size' = chunks_size
               ELSE /\ chunk' = "Body"
                    /\ result' = IF chunk_size <= MaxReserve THEN "InProgress" ELSE "Terminated"
                    /\ UNCHANGED <<state, bodyVars>>

ChunkDataUncleared ==
    /\ chunk = "Body"
    /\ IF chunk_len + 1 # chunk_size
       THEN GoToChunk("Body") /\ UNCHANGED <<chunk_size, chunks_size>>
       ELSE /\ GoToChunk("BodyExpectNewLine")
            /\ chunks_size' = chunks_size + chunk_len + 1
            /\ chunk_size' = 0
    /\ chunk_len' = chunk_len + 1
    /\ UNCHANGED <<declared, line_size>>

ChunkData ==
    /\ chunk = "Body"
    /\ IF chunk_len + 1 # chunk_size
       THEN /\ GoToChunk("Body")
            /\ chunk_len' = chunk_len + 1
            /\ UNCHANGED <<chunk_size, chunks_size>>
       ELSE /\ GoToChunk("BodyExpectNewLine")
            /\ chunks_size' = chunks_size + chunk_len + 1
            /\ chunk_len' = 0
            /\ chunk_size' = 0
    /\ UNCHANGED <<declared, line_size>>

ChunkEnd(ch) ==
    /\ \/ chunk = "BodyExpectNewLine" /\ (IF ch = "cr" THEN GoToChunk("Newline2") ELSE RejectChunk)
       \/ chunk = "Newline2" /\ (IF ch = "lf" THEN GoToChunk("SizeStart") ELSE RejectChunk)
    /\ UNCHANGED <<chunk_size, chunk_len, chunks_size, declared, line_size>>

\* Bound: the code limits neither the number nor the size of chunks.
ChunkChar(ch, v) ==
    /\ state = "BodyChunk"
    /\ chunk_chars < MaxChunkChars
    /\ chunk_chars' = chunk_chars + 1
    /\ SizeChar(ch, v) \/ SizeEnd(ch) \/ ChunkData \/ ChunkEnd(ch)
    /\ UNCHANGED <<lineVars, headerVars>>

-----------------------------------------------------------------------------
(* HttpResponseParser::Parse.                                              *)

BodyChar ==
    /\ state = "Body"
    /\ body_len' = body_len + 1
    /\ IF body_len + 1 # body_size
       THEN result' = "InProgress" /\ UNCHANGED state
       ELSE result' = "Ok" /\ state' = "Parsed"
    /\ UNCHANGED <<lineVars, headerVars, body_size, chunkVars>>

\* One turn of the loop in Parse(begin, end).
ParseChar(ch, code, n, v) ==
    /\ result = "InProgress"
    /\ \/ /\ LineChar(ch, code) \/ HeaderChar(ch, n)
          /\ blank' = MatchBlankLine(blank, ch)
       \/ /\ BodyChar \/ ChunkChar(ch, v)
          /\ UNCHANGED blank

\* What the code asks for in its present state.
AskedCodes == IF line = "Code" THEN Codes ELSE {"known"}
AskedMeanings == IF header = "Newline2" THEN Meanings ELSE {NoLength}
AskedDigits(ch) == IF state = "BodyChunk" THEN GetHex(ch) ELSE {16}

ResponseNext ==
    \E ch \in Chars : \E code \in AskedCodes, n \in AskedMeanings, v \in AskedDigits(ch) :
        ParseChar(ch, code, n, v)

ResponseSpec == ResponseInit /\ [][ResponseNext]_responseVars

\* The response that the client's handler gets; Connection does not matter here.
PopHttpResponse ==
    NewResponse(IF content_length \in Lengths THEN content_length ELSE Absent, "absent", body_len)

-----------------------------------------------------------------------------
(* Properties.                                                             *)

\* No string overruns the array that holds it: the status text has a check of
\* its own, key_ and value_ only the count of the whole section.
ResponseBuffersInBounds ==
    /\ text_size <= MaxText
    /\ key_size + value_size <= MaxHeaders

\* When Parse returns Ok the assertion of PopHeaders holds, and PopHttpResponse,
\* whose result DoRead hands on without a test, has a response.
ResponseReadyToPop == result = "Ok" => state = "Parsed" /\ key_size = 0 /\ value_size = 0

\* The body is as long as the response says: with chunks as long as their size
\* lines together, whatever else the headers say, as long as no size wraps;
\* without chunks as the first Content-Length.
BodyAsDeclared ==
    /\ result = "Ok" /\ encoding # Chunked => body_len = ExpectedLength
    /\ result = "Ok" /\ encoding = Chunked /\ declared < Wrap => body_len = declared
    /\ state = "BodyChunk" /\ chunk = "Body" => chunk_len < chunk_size

\* The head of a response ends with its first blank line, no sooner and no later,
\* be the body empty, of a known length or in chunks: status line and headers, two
\* machines, agree on where a line ends, and no field can contain a line break.
ResponseHeadEndsAtFirstBlankLine ==
    result # "Error" => (blank = 4 <=> state \in {"Body", "BodyChunk", "Parsed"})
=============================================================================
