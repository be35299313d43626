--------------------------- MODULE RequestParser ---------------------------
(***************************************************************************)
(* HttpRequestParser with its HttpFirstLineParser and HeadersParser: three *)
(* nested state machines that a connection feeds one character at a time.  *)
(*                                                                         *)
(* Characters are classes of characters, and the strings that the parsers  *)
(* collect are their sizes: what a string spells is chosen when the code   *)
(* asks for it (the method at the end of its word, the Content-Length at   *)
(* the end of a header line).  All kinds of errors are one, because        *)
(* Connection answers every one with the same 400.                         *)
(***************************************************************************)
EXTENDS ContentLength

CONSTANTS
    MaxMethod,      \* size of method_string_: 20
    MaxUri,         \* size of uri_: 2048
    MaxMinor,       \* max_minor_version_size: 5
    MaxHeaders      \* max_headers_block_size_: 8192

ASSUME ParserAssumption ==
    /\ MaxMethod \in Nat \ {0}
    /\ MaxUri \in Nat \ {0}
    /\ MaxMinor \in Nat \ {0, 1}
    /\ MaxHeaders \in Nat \ {0}

\* "h", "t" and "p" in either case, other letters, the digits 0 and 1, other
\* digits, the named separators, other separators of IsSpecial, other
\* printable characters, other control characters, and negative chars.
Letters == {"h", "t", "p", "letter"}
DigitChars == {"0", "1", "digit"}
Ctl == {"cr", "lf", "tab", "ctl"}
Special == {"sp", "tab", "colon", "slash", "special"}
Chars == Letters \cup DigitChars \cup Ctl \cup Special \cup {"dot", "print", "high"}

\* !IsChar || IsCtl || IsSpecial ends a header name.
NameChars == Chars \ (Ctl \cup Special \cup {"high"})

Methods == {"Post", "Other", "Unknown"}

\* What a header line says of the body: no Content-Length header, one without a
\* valid length (GetContentLength returns nullopt), or a length.
NoLength == -1
Lengths == 0..MaxBody

VARIABLES
    state,          \* HttpRequestParser::state_
    result,         \* of the latest Parse: "InProgress", "Ok" or "Error"
    line,           \* HttpFirstLineParser::state_
    method,         \* method_
    method_size,    \* characters in method_string_
    uri_size,       \* characters in uri_
    minor_size,     \* minor_version_size_
    header,         \* HeadersParser::state_
    key_size,       \* characters in key_
    value_size,     \* characters in value_
    readed_count,   \* readed_char_count_
    content_length, \* headers_["Content-Length"]
    body_size,      \* body_size_
    body_len,       \* body_.size()
    consumed,       \* history: characters parsed for this request
    blank           \* history: how much of CR LF CR LF the head ends with

lineVars == <<line, method, method_size, uri_size, minor_size>>
headerVars == <<header, key_size, value_size, readed_count, content_length>>
bodyVars == <<body_size, body_len>>
parserVars == <<state, result, lineVars, headerVars, bodyVars, consumed, blank>>

LineStates == {"MethodStart", "Method", "Uri", "H", "T1", "T2", "P", "Slash",
               "MajorStart", "Major", "MinorStart", "Minor", "Newline1", "Parsed"}

HeaderStates == {"LineStart", "Lws", "Name", "Value", "Newline2", "Newline3",
                 "Parsed"}

ParserTypeOK ==
    /\ state \in {"HttpStart", "Headers", "Body", "Parsed"}
    /\ result \in {"InProgress", "Ok", "Error"}
    /\ line \in LineStates
    /\ method \in Methods
    /\ method_size \in Nat
    /\ uri_size \in Nat
    /\ minor_size \in Nat
    /\ header \in HeaderStates
    /\ key_size \in Nat
    /\ value_size \in Nat
    /\ readed_count \in Nat
    /\ content_length \in Lengths \cup {NoLength, InvalidLength}
    /\ body_size \in Nat
    /\ body_len \in Nat
    /\ consumed \in Nat
    /\ blank \in 0..4

ParserInit ==
    /\ state = "HttpStart"
    /\ result = "InProgress"
    /\ line = "MethodStart"
    /\ method = "Unknown"
    /\ method_size = 0
    /\ uri_size = 0
    /\ minor_size = 0
    /\ header = "LineStart"
    /\ key_size = 0
    /\ value_size = 0
    /\ readed_count = 0
    /\ content_length = NoLength
    /\ body_size = 0
    /\ body_len = 0
    /\ consumed = 0
    /\ blank = 0

-----------------------------------------------------------------------------
(* HttpFirstLineParser::Parse.                                             *)

\* CustomStringOnStack::AddChar has room for one more character.
Fits(size, max) == size < max

RejectLine ==
    /\ result' = "Error"
    /\ UNCHANGED <<line, method, method_size, uri_size, minor_size>>

GoToLine(s) == line' = s /\ result' = "InProgress"

MethodChar(ch) ==
    /\ line \in {"MethodStart", "Method"}
    /\ line = "Method" => ch # "sp"
    /\ IF ch \in Letters /\ Fits(method_size, MaxMethod)
       THEN /\ GoToLine("Method")
            /\ method_size' = method_size + 1
            /\ UNCHANGED <<method, uri_size, minor_size>>
       ELSE RejectLine

\* m is GetHttpMethodTypeFromString of the word collected.
MethodEnd(ch, m) ==
    /\ line = "Method"
    /\ ch = "sp"
    /\ method' = m
    /\ IF m = "Unknown"
       THEN result' = "Error" /\ UNCHANGED line
       ELSE GoToLine("Uri")
    /\ UNCHANGED <<method_size, uri_size, minor_size>>

UriChar(ch) ==
    /\ line = "Uri"
    /\ ch # "sp"
    /\ IF ch \notin Ctl /\ Fits(uri_size, MaxUri)
       THEN /\ GoToLine("Uri")
            /\ uri_size' = uri_size + 1
            /\ UNCHANGED <<method, method_size, minor_size>>
       ELSE RejectLine

UriEnd(ch) ==
    /\ line = "Uri"
    /\ ch = "sp"
    /\ GoToLine("H")
    /\ UNCHANGED <<method, method_size, uri_size, minor_size>>

\* The states that accept fixed characters and store nothing the model keeps.
FixedChars ==
    [H |-> {"h"}, T1 |-> {"t"}, T2 |-> {"t"}, P |-> {"p"}, Slash |-> {"slash"},
     MajorStart |-> {"0", "1"}, Major |-> {"dot"}, Newline1 |-> {"lf"}]

AfterFixed ==
    [H |-> "T1", T1 |-> "T2", T2 |-> "P", P |-> "Slash", Slash |-> "MajorStart",
     MajorStart |-> "Major", Major |-> "MinorStart", Newline1 |-> "Parsed"]

FixedChar(ch) ==
    /\ line \in DOMAIN FixedChars
    /\ IF ch \in FixedChars[line]
       THEN /\ GoToLine(AfterFixed[line])
            /\ UNCHANGED <<method, method_size, uri_size, minor_size>>
       ELSE RejectLine

MinorEnd(ch) ==
    /\ line = "Minor"
    /\ ch = "cr"
    /\ GoToLine("Newline1")
    /\ UNCHANGED <<method, method_size, uri_size, minor_size>>

MinorCharUnbounded(ch) ==
    /\ line \in {"MinorStart", "Minor"}
    /\ line = "Minor" => ch # "cr"
    /\ IF ch \in DigitChars
       THEN /\ GoToLine("Minor")
            /\ minor_size' = minor_size + 1
            /\ UNCHANGED <<method, method_size, uri_size>>
       ELSE RejectLine

\* The size is tested after the digit was added, and not for the first digit.
MinorChar(ch) ==
    /\ line \in {"MinorStart", "Minor"}
    /\ line = "Minor" => ch # "cr"
    /\ IF ch \in DigitChars
       THEN /\ minor_size' = minor_size + 1
            /\ IF line = "Minor" /\ minor_size + 1 >= MaxMinor
               THEN result' = "Error" /\ UNCHANGED line
               ELSE GoToLine("Minor")
            /\ UNCHANGED <<method, method_size, uri_size>>
       ELSE RejectLine

\* HttpStart: the last character of the first line leads on to the headers.
LineChar(ch, m) ==
    /\ state = "HttpStart"
    /\ \/ MethodChar(ch)
       \/ MethodEnd(ch, m)
       \/ UriChar(ch)
       \/ UriEnd(ch)
       \/ FixedChar(ch)
       \/ MinorChar(ch)
       \/ MinorEnd(ch)
    /\ state' = IF line' = "Parsed" THEN "Headers" ELSE state
    /\ UNCHANGED <<headerVars, bodyVars>>

-----------------------------------------------------------------------------
(* HeadersParser::Parse, after the size of the section was checked.        *)

RejectHeader ==
    /\ result' = "Error"
    /\ UNCHANGED <<state, header, key_size, value_size, content_length, bodyVars>>

GoToHeader(s) ==
    /\ header' = s
    /\ result' = "InProgress"
    /\ UNCHANGED <<state, bodyVars>>

LineStartForgetsEnd(ch) ==
    /\ header = "LineStart"
    /\ IF ch = "cr"
       THEN GoToHeader("Newline2") /\ UNCHANGED <<key_size, value_size, content_length>>
       ELSE IF ch \in NameChars
       THEN /\ GoToHeader("Name")
            /\ key_size' = key_size + 1
            /\ UNCHANGED <<value_size, content_length>>
       ELSE RejectHeader

\* The second case is for folded lines.  It is never taken: key_ is empty here.
LineStart(ch) ==
    /\ header = "LineStart"
    /\ IF ch = "cr"
       THEN GoToHeader("Newline3") /\ UNCHANGED <<key_size, value_size, content_length>>
       ELSE IF key_size # 0 /\ ch \in {"sp", "tab"}
       THEN GoToHeader("Lws") /\ UNCHANGED <<key_size, value_size, content_length>>
       ELSE IF ch \in NameChars
       THEN /\ GoToHeader("Name")
            /\ key_size' = key_size + 1
            /\ UNCHANGED <<value_size, content_length>>
       ELSE RejectHeader

NameChar(ch) ==
    /\ header = "Name"
    /\ IF ch = "colon"
       THEN GoToHeader("Lws") /\ UNCHANGED <<key_size, value_size, content_length>>
       ELSE IF ch \in NameChars
       THEN /\ GoToHeader("Name")
            /\ key_size' = key_size + 1
            /\ UNCHANGED <<value_size, content_length>>
       ELSE RejectHeader

AddValueChar ==
    /\ GoToHeader("Value")
    /\ value_size' = value_size + 1
    /\ UNCHANGED <<key_size, content_length>>

LwsCharOnce(ch) ==
    /\ header = "Lws"
    /\ IF ch = "cr"
       THEN GoToHeader("Newline2") /\ UNCHANGED <<key_size, value_size, content_length>>
       ELSE IF ch \in Ctl THEN RejectHeader
       ELSE AddValueChar

LwsChar(ch) ==
    /\ header = "Lws"
    /\ IF ch = "cr"
       THEN GoToHeader("Newline2") /\ UNCHANGED <<key_size, value_size, content_length>>
       ELSE IF ch \in {"sp", "tab"}
       THEN GoToHeader("Lws") /\ UNCHANGED <<key_size, value_size, content_length>>
       ELSE IF ch \in Ctl THEN RejectHeader
       ELSE AddValueChar

ValueChar(ch) ==
    /\ header = "Value"
    /\ IF ch = "cr"
       THEN GoToHeader("Newline2") /\ UNCHANGED <<key_size, value_size, content_length>>
       ELSE IF ch \in Ctl THEN RejectHeader
       ELSE AddValueChar

Newline2KeepsValue(ch, n) ==
    /\ header = "Newline2"
    /\ IF ch # "lf" THEN RejectHeader
       ELSE /\ GoToHeader("LineStart")
            /\ key_size' = 0
            /\ content_length' = IF content_length = NoLength THEN n ELSE content_length
            /\ UNCHANGED value_size

\* The end of a header line.  n is what the line says of the body, NoLength if
\* its key is not Content-Length.  emplace keeps an earlier header of that key;
\* PopString empties both strings.
Newline2(ch, n) ==
    /\ header = "Newline2"
    /\ IF ch # "lf" THEN RejectHeader
       ELSE /\ GoToHeader("LineStart")
            /\ IF key_size # 0
               THEN /\ key_size' = 0
                    /\ value_size' = 0
                    /\ content_length' = IF content_length = NoLength
                                         THEN n ELSE content_length
               ELSE UNCHANGED <<key_size, value_size, content_length>>

ExpectedBodyOfNullopt == IF method = "Post" THEN content_length ELSE 0

\* body_size_ at the end of the headers: only a POST has a body, and an invalid
\* length leaves the initial 0.
ExpectedBody ==
    IF method = "Post" /\ content_length \in Lengths THEN content_length ELSE 0

\* The end of the headers, with the rest of HttpRequestParser::Parse.
Newline3(ch) ==
    /\ header = "Newline3"
    /\ IF ch # "lf" THEN RejectHeader
       ELSE /\ header' = "Parsed"
            /\ body_size' = ExpectedBody
            /\ IF body_size' = 0
               THEN state' = "Parsed" /\ result' = "Ok"
               ELSE state' = "Body" /\ result' = "InProgress"
            /\ UNCHANGED <<key_size, value_size, content_length, body_len>>

HeaderCharUnchecked(ch, n) ==
    /\ state = "Headers"
    /\ readed_count' = readed_count + 1
    /\ \/ LineStart(ch)
       \/ NameChar(ch)
       \/ LwsChar(ch)
       \/ ValueChar(ch)
       \/ Newline2(ch, n)
       \/ Newline3(ch)
    /\ UNCHANGED lineVars

\* RawString::AddChar has no check of its own: this count is the only one.
HeaderChar(ch, n) ==
    /\ state = "Headers"
    /\ readed_count' = readed_count + 1
    /\ IF readed_count + 1 > MaxHeaders
       THEN RejectHeader
       ELSE \/ LineStart(ch)
            \/ NameChar(ch)
            \/ LwsChar(ch)
            \/ ValueChar(ch)
            \/ Newline2(ch, n)
            \/ Newline3(ch)
    /\ UNCHANGED lineVars

-----------------------------------------------------------------------------
(* HttpRequestParser::Parse.                                               *)

BodyCharAtLeast ==
    /\ state = "Body"
    /\ body_len' = body_len + 1
    /\ IF body_len < body_size
       THEN result' = "InProgress" /\ UNCHANGED state
       ELSE result' = "Ok" /\ state' = "Parsed"
    /\ UNCHANGED <<lineVars, headerVars, body_size>>

BodyChar ==
    /\ state = "Body"
    /\ body_len' = body_len + 1
    /\ IF body_len + 1 # body_size
       THEN result' = "InProgress" /\ UNCHANGED state
       ELSE result' = "Ok" /\ state' = "Parsed"
    /\ UNCHANGED <<lineVars, headerVars, body_size>>

\* One turn of the loop in Parse(begin, end), which stops at the first result
\* other than InProgress and drops the rest of the buffer.
ParseChar(ch, m, n) ==
    /\ result = "InProgress"
    /\ consumed' = consumed + 1
    /\ \/ /\ LineChar(ch, m) \/ HeaderChar(ch, n)
          /\ blank' = MatchBlankLine(blank, ch)
       \/ BodyChar /\ UNCHANGED blank

ContinueSessionKeepsHeaders ==
    /\ result = "Ok"
    /\ state' = "HttpStart"
    /\ result' = "InProgress"
    /\ line' = "MethodStart" /\ header' = "LineStart"
    /\ method' = "Unknown" /\ UNCHANGED content_length
    /\ method_size' = 0 /\ uri_size' = 0 /\ minor_size' = 0
    /\ key_size' = 0 /\ value_size' = 0 /\ readed_count' = 0
    /\ body_size' = 0 /\ body_len' = 0
    /\ consumed' = 0 /\ blank' = 0

\* PopHttpRequest moves headers and body out, and for the next request of the
\* session Connection::DoContinueSession assigns a new parser.
ContinueSession ==
    /\ result = "Ok"
    /\ state' = "HttpStart"
    /\ result' = "InProgress"
    /\ line' = "MethodStart" /\ header' = "LineStart"
    /\ method' = "Unknown" /\ content_length' = NoLength
    /\ method_size' = 0 /\ uri_size' = 0 /\ minor_size' = 0
    /\ key_size' = 0 /\ value_size' = 0 /\ readed_count' = 0
    /\ body_size' = 0 /\ body_len' = 0
    /\ consumed' = 0 /\ blank' = 0

ParserNext ==
    \/ \E ch \in Chars, m \in Methods, n \in Lengths \cup {NoLength, InvalidLength} :
           ParseChar(ch, m, n)
    \/ ContinueSession

ParserSpec == ParserInit /\ [][ParserNext]_parserVars
-----------------------------------------------------------------------------
(* Properties.                                                             *)

\* No string overruns the array that holds it.  Each of key_ and value_ has the
\* size of the whole header section and is written without a check.
BuffersInBounds ==
    /\ method_size <= MaxMethod
    /\ uri_size <= MaxUri
    /\ key_size <= MaxHeaders
    /\ value_size <= MaxHeaders

\* When Parse returns Ok, PopHttpRequest finds what it takes for granted: its
\* state, the assertion of PopHeaders that no header is half read, and a method
\* with which the constructor of HttpRequest does not throw.
ReadyToPop ==
    result = "Ok" =>
        /\ state = "Parsed"
        /\ key_size = 0 /\ value_size = 0
        /\ method # "Unknown"

\* The head of a request ends with its first blank line, no sooner and no
\* later: first line and headers agree on where a line ends, and no field of
\* the head can contain a line break.
HeadEndsAtFirstBlankLine ==
    result # "Error" => (blank = 4 <=> state \in {"Body", "Parsed"})

\* A request is complete with the last character of its body: as many as the
\* first Content-Length of a POST says, none for other methods.
BodyComplete ==
    /\ result = "Ok" => body_len = ExpectedBody
    /\ state = "Body" => body_len < ExpectedBody

\* The parser decides after a bounded number of characters, so a peer that
\* keeps sending gets its answer, and a peer cannot make it read for ever.
MaxRequest == MaxMethod + MaxUri + MaxMinor + MaxHeaders + MaxBody + 12

InputBounded == consumed <= MaxRequest

-----------------------------------------------------------------------------
(* The inductive invariant behind these properties.                        *)

\* Characters of the first line that no counter counts: the separators, the
\* literal HTTP/, the major version, the point and the line end.
Separators(s) ==
    CASE s \in {"MethodStart", "Method"} -> 0
      [] s = "Uri" -> 1
      [] s = "H" -> 2
      [] s = "T1" -> 3
      [] s = "T2" -> 4
      [] s = "P" -> 5
      [] s = "Slash" -> 6
      [] s = "MajorStart" -> 7
      [] s = "Major" -> 8
      [] s \in {"MinorStart", "Minor"} -> 9
      [] s = "Newline1" -> 10
      [] s = "Parsed" -> 11

Counted ==
    method_size + uri_size + minor_size + Separators(line) + readed_count + body_len

\* What of the blank line has been matched in each state.
BlankSoFar ==
    IF state = "HttpStart" THEN (IF line = "Newline1" THEN 1 ELSE 0)
    ELSE IF state = "Headers"
    THEN CASE header = "LineStart" -> 2
           [] header = "Newline2" -> 1
           [] header = "Newline3" -> 3
           [] OTHER -> 0
    ELSE 4

LineInv ==
    /\ method_size <= MaxMethod
    /\ uri_size <= MaxUri
    /\ minor_size <= MaxMinor
    /\ line \notin {"Minor", "Newline1", "Parsed"} => minor_size = 0
    /\ line = "Minor" /\ result = "InProgress" => minor_size < MaxMinor
    /\ state # "HttpStart" <=> line = "Parsed"
    /\ line \notin {"MethodStart", "Method"} => method # "Unknown"

HeaderInv ==
    /\ key_size + value_size <= readed_count
    /\ key_size <= MaxHeaders /\ value_size <= MaxHeaders
    /\ readed_count <= MaxHeaders + (IF result = "Error" THEN 1 ELSE 0)
    /\ header \in {"LineStart", "Newline3", "Parsed"} => key_size = 0 /\ value_size = 0
    /\ header \in {"Lws", "Value", "Newline2"} => key_size # 0
    /\ header = "Name" => key_size # 0 /\ value_size = 0
    /\ state = "HttpStart" => header = "LineStart" /\ readed_count = 0
    /\ header = "Parsed" <=> state \in {"Body", "Parsed"}

BodyInv ==
    /\ state = "Body" => body_size = ExpectedBody /\ body_len < body_size
    /\ state = "Parsed" => body_len = ExpectedBody
    /\ state \notin {"Body", "Parsed"} => body_len = 0
    /\ result = "Ok" <=> state = "Parsed"

HistoryInv ==
    /\ result # "Error" => blank = BlankSoFar
    /\ consumed = Counted \/ (result = "Error" /\ state = "HttpStart" /\ consumed <= Counted + 1)

ParserInv == ParserTypeOK /\ LineInv /\ HeaderInv /\ BodyInv /\ HistoryInv
=============================================================================
