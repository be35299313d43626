------------------------ MODULE RequestParserProofs ------------------------
(***************************************************************************)
(* The request parser keeps its buffers in bounds, decides after a bounded *)
(* input and delimits requests correctly, for every size of the buffers.   *)
(***************************************************************************)
EXTENDS RequestParser, TLAPS

\* A digit of a Content-Length is added exactly when the new value is within the
\* limit, so the running total never exceeds it: the two tests of the loop, made
\* before each operation, together are the one test that is meant.
THEOREM DigitExact ==
  ASSUME NEW n \in 0..MaxBody, NEW d \in Digits
  PROVE  AddDigit(n, d) = IF n * 10 + d <= MaxBody THEN n * 10 + d ELSE InvalidLength
<1>1. n # InvalidLength /\ d # Other /\ d # Space
  BY MaxBodyAssumption DEF InvalidLength, Other, Space, Digits
<1>2. n > MaxBody \div 10 => n * 10 + d > MaxBody
  BY MaxBodyAssumption DEF Digits
<1>3. n * 10 > MaxBody - d <=> n * 10 + d > MaxBody
  BY MaxBodyAssumption DEF Digits
<1> QED BY <1>1, <1>2, <1>3, MaxBodyAssumption DEF AddDigit, Digits

LEMMA ParserInitInv == ParserInit => ParserInv
  BY ParserAssumption, MaxBodyAssumption
  DEF ParserInit, ParserInv, ParserTypeOK, LineInv, HeaderInv, BodyInv, HistoryInv,
      LineStates, HeaderStates, Methods, Lengths, NoLength, InvalidLength, Counted,
      Separators, BlankSoFar, ExpectedBody

\* A character of the first line.
LEMMA LineStep ==
  ASSUME ParserInv, result = "InProgress", NEW ch \in Chars, NEW m \in Methods,
         LineChar(ch, m), consumed' = consumed + 1,
         blank' = MatchBlankLine(blank, ch)
  PROVE  ParserInv'
<1> USE ParserAssumption, MaxBodyAssumption DEF ParserInv
<1>1. state = "HttpStart" /\ header = "LineStart" /\ line # "Parsed" /\ body_len = 0
      /\ key_size = 0 /\ value_size = 0
  BY DEF LineChar, LineInv, HeaderInv, BodyInv
<1>2. ParserTypeOK'
  BY <1>1 DEF LineChar, MethodChar, MethodEnd, UriChar, UriEnd, FixedChar, MinorChar,
     MinorEnd, RejectLine, GoToLine, FixedChars, AfterFixed, ParserTypeOK, LineStates,
     headerVars, bodyVars, MatchBlankLine
<1>3. LineInv'
  BY <1>1 DEF LineChar, MethodChar, MethodEnd, UriChar, UriEnd, FixedChar, MinorChar,
     MinorEnd, RejectLine, GoToLine, FixedChars, AfterFixed, ParserTypeOK, LineStates,
     LineInv, Fits
<1>4. HeaderInv'
  BY <1>1 DEF LineChar, HeaderInv, headerVars, ParserTypeOK
<1>5. BodyInv'
  BY <1>1 DEF LineChar, MethodChar, MethodEnd, UriChar, UriEnd, FixedChar, MinorChar,
     MinorEnd, RejectLine, GoToLine, BodyInv, bodyVars
<1>6. HistoryInv'
  BY <1>1, <1>2 DEF LineChar, MethodChar, MethodEnd, UriChar, UriEnd, FixedChar, MinorChar,
     MinorEnd, RejectLine, GoToLine, FixedChars, AfterFixed, ParserTypeOK, LineStates,
     HistoryInv, Counted, Separators, BlankSoFar, MatchBlankLine, headerVars, bodyVars,
     DigitChars, Ctl, Letters, Chars, LineInv
<1> QED BY <1>2, <1>3, <1>4, <1>5, <1>6

\* A character of the headers.
LEMMA HeaderStep ==
  ASSUME ParserInv, result = "InProgress", NEW ch \in Chars,
         NEW n \in Lengths \cup {NoLength, InvalidLength},
         HeaderChar(ch, n), consumed' = consumed + 1,
         blank' = MatchBlankLine(blank, ch)
  PROVE  ParserInv'
<1> USE ParserAssumption, MaxBodyAssumption DEF ParserInv
<1>1. state = "Headers" /\ line = "Parsed" /\ header # "Parsed" /\ body_len = 0
  BY DEF HeaderChar, LineInv, HeaderInv, BodyInv
<1>2. ParserTypeOK'
  BY <1>1 DEF HeaderChar, LineStart, NameChar, LwsChar, ValueChar, Newline2, Newline3,
     AddValueChar, RejectHeader, GoToHeader, ParserTypeOK, HeaderStates, lineVars,
     bodyVars, MatchBlankLine, ExpectedBody, Lengths, NoLength, InvalidLength
<1>3. LineInv'
  BY <1>1 DEF HeaderChar, LineStart, NameChar, LwsChar, ValueChar, Newline2, Newline3,
     AddValueChar, RejectHeader, GoToHeader, LineInv, lineVars
<1>4. HeaderInv'
  BY <1>1 DEF HeaderChar, LineStart, NameChar, LwsChar, ValueChar, Newline2, Newline3,
     AddValueChar, RejectHeader, GoToHeader, HeaderInv, ParserTypeOK, HeaderStates
<1>5. BodyInv'
  BY <1>1 DEF HeaderChar, LineStart, NameChar, LwsChar, ValueChar, Newline2, Newline3,
     AddValueChar, RejectHeader, GoToHeader, BodyInv, bodyVars, lineVars, ParserTypeOK,
     ExpectedBody, Lengths
<1>6. ASSUME result' # "Error" PROVE blank' = BlankSoFar'
  <2>1. blank = BlankSoFar
    BY DEF HistoryInv
  <2>2. CASE LineStart(ch)
    BY <1>1, <1>6, <2>1, <2>2 DEF LineStart, RejectHeader, GoToHeader, BlankSoFar,
       MatchBlankLine, NameChars, Ctl, HeaderInv
  <2>3. CASE NameChar(ch) \/ LwsChar(ch) \/ ValueChar(ch)
    BY <1>1, <1>6, <2>1, <2>3 DEF NameChar, LwsChar, ValueChar, AddValueChar,
       RejectHeader, GoToHeader, BlankSoFar, MatchBlankLine, NameChars, Ctl
  <2>4. CASE Newline2(ch, n) \/ Newline3(ch)
    BY <1>1, <1>6, <2>1, <2>4 DEF Newline2, Newline3, RejectHeader, GoToHeader,
       BlankSoFar, MatchBlankLine
  <2> QED BY <1>6, <2>2, <2>3, <2>4 DEF HeaderChar, RejectHeader
<1>7. consumed' = Counted'
  <2>1. consumed = Counted /\ body_len' = body_len /\ readed_count' = readed_count + 1
    BY <1>1 DEF HistoryInv, HeaderChar, LineStart, NameChar, LwsChar, ValueChar,
       Newline2, Newline3, AddValueChar, RejectHeader, GoToHeader, bodyVars
  <2> QED BY <1>1, <2>1 DEF Counted, Separators, HeaderChar, lineVars, ParserTypeOK
<1> QED BY <1>2, <1>3, <1>4, <1>5, <1>6, <1>7 DEF HistoryInv

\* A character of the body.
LEMMA BodyStep ==
  ASSUME ParserInv, result = "InProgress", BodyChar, consumed' = consumed + 1,
         UNCHANGED blank
  PROVE  ParserInv'
<1> USE ParserAssumption, MaxBodyAssumption DEF ParserInv
<1>1. state = "Body" /\ line = "Parsed" /\ header = "Parsed" /\ body_len < body_size
      /\ body_size = ExpectedBody
  BY DEF BodyChar, LineInv, HeaderInv, BodyInv
<1>2. ExpectedBody' = ExpectedBody
  BY DEF BodyChar, ExpectedBody, lineVars, headerVars
<1>3. ParserTypeOK'
  BY <1>1 DEF BodyChar, ParserTypeOK, lineVars, headerVars
<1>4. LineInv' /\ HeaderInv'
  BY <1>1 DEF BodyChar, LineInv, HeaderInv, lineVars, headerVars
<1>5. BodyInv'
  BY <1>1, <1>2 DEF BodyChar, BodyInv, ParserTypeOK
<1>6. HistoryInv'
  BY <1>1 DEF BodyChar, HistoryInv, ParserTypeOK, Counted, Separators, BlankSoFar,
     lineVars, headerVars
<1> QED BY <1>3, <1>4, <1>5, <1>6

LEMMA ContinueStep == ContinueSession => ParserInit'
  BY DEF ContinueSession, ParserInit

LEMMA ParserInvStep ==
  ASSUME ParserInv, [ParserNext]_parserVars
  PROVE  ParserInv'
<1>1. ParserInit' => ParserInv'
  BY ParserAssumption, MaxBodyAssumption
  DEF ParserInit, ParserInv, ParserTypeOK, LineInv, HeaderInv, BodyInv, HistoryInv,
      LineStates, HeaderStates, Methods, Lengths, NoLength, InvalidLength, Counted,
      Separators, BlankSoFar, ExpectedBody
<1>2. ASSUME NEW ch \in Chars, NEW m \in Methods,
             NEW n \in Lengths \cup {NoLength, InvalidLength}, ParseChar(ch, m, n)
      PROVE  ParserInv'
  <2>1. CASE LineChar(ch, m) /\ blank' = MatchBlankLine(blank, ch)
    BY <1>2, <2>1, LineStep DEF ParseChar
  <2>2. CASE HeaderChar(ch, n) /\ blank' = MatchBlankLine(blank, ch)
    BY <1>2, <2>2, HeaderStep DEF ParseChar
  <2>3. CASE BodyChar /\ UNCHANGED blank
    BY <1>2, <2>3, BodyStep DEF ParseChar
  <2> QED BY <1>2, <2>1, <2>2, <2>3 DEF ParseChar
<1>3. CASE ContinueSession
  BY <1>1, <1>3, ContinueStep
<1>4. CASE UNCHANGED parserVars
  BY <1>4 DEF parserVars, lineVars, headerVars, bodyVars, ParserInv, ParserTypeOK,
     LineInv, HeaderInv, BodyInv, HistoryInv, Counted, Separators, BlankSoFar,
     ExpectedBody
<1> QED BY <1>2, <1>3, <1>4 DEF ParserNext

\* The inductive invariant of the parser, after any input and any number of
\* requests of a session.
THEOREM ParserInvariance == ParserSpec => []ParserInv
<1>1. ParserInit => ParserInv
  BY ParserInitInv
<1>2. ParserInv /\ [ParserNext]_parserVars => ParserInv'
  BY ParserInvStep
<1> QED BY <1>1, <1>2, PTL DEF ParserSpec

\* Type correctness of the parser.
THEOREM ParserTypeCorrect == ParserSpec => []ParserTypeOK
<1>1. ParserInv => ParserTypeOK
  BY DEF ParserInv
<1> QED BY <1>1, ParserInvariance, PTL

\* The strings of the parser, two of which are written without a check, never
\* overrun their arrays, whatever the sizes and the input.
THEOREM BuffersInBoundsCorrect == ParserSpec => []BuffersInBounds
<1>1. ParserInv => BuffersInBounds
  BY DEF ParserInv, LineInv, HeaderInv, BuffersInBounds
<1> QED BY <1>1, ParserInvariance, PTL

\* PopHttpRequest's assertion holds and the constructor it calls does not throw.
THEOREM ReadyToPopCorrect == ParserSpec => []ReadyToPop
<1>1. ParserInv => ReadyToPop
  BY DEF ParserInv, LineInv, HeaderInv, BodyInv, ReadyToPop
<1> QED BY <1>1, ParserInvariance, PTL

\* The head ends with its first blank line.
THEOREM HeadEndsCorrect == ParserSpec => []HeadEndsAtFirstBlankLine
<1>1. ParserInv => HeadEndsAtFirstBlankLine
  BY DEF ParserInv, ParserTypeOK, HistoryInv, BlankSoFar, HeaderStates,
     HeadEndsAtFirstBlankLine
<1> QED BY <1>1, ParserInvariance, PTL

\* The body has the length that the head announces.
THEOREM BodyCompleteCorrect == ParserSpec => []BodyComplete
<1>1. ParserInv => BodyComplete
  BY DEF ParserInv, BodyInv, BodyComplete
<1> QED BY <1>1, ParserInvariance, PTL

\* The parser decides within a bounded number of characters.
THEOREM InputBoundedCorrect == ParserSpec => []InputBounded
<1>1. ASSUME ParserInv PROVE InputBounded
  <2> USE ParserAssumption, MaxBodyAssumption, <1>1 DEF ParserInv
  <2>1. ExpectedBody \in Nat /\ ExpectedBody <= MaxBody
    BY DEF ExpectedBody, Lengths
  <2>2. body_len <= MaxBody
    BY <2>1 DEF BodyInv, ParserTypeOK
  <2>3. Separators(line) \in 0..11
    BY DEF ParserTypeOK, LineStates, Separators
  <2>4. /\ method_size <= MaxMethod /\ uri_size <= MaxUri /\ minor_size <= MaxMinor
        /\ {method_size, uri_size, minor_size, readed_count, body_len, consumed} \subseteq Nat
    BY DEF LineInv, ParserTypeOK
  <2>5. CASE consumed = Counted /\ result # "Error"
    <3>1. readed_count <= MaxHeaders
      BY <2>5 DEF HeaderInv, ParserTypeOK
    <3> QED BY <3>1, <2>2, <2>3, <2>4, <2>5 DEF Counted, InputBounded, MaxRequest
  <2>6. CASE consumed = Counted /\ result = "Error"
    <3>1. readed_count <= MaxHeaders + 1
      BY <2>6 DEF HeaderInv, ParserTypeOK
    <3> QED BY <3>1, <2>2, <2>3, <2>4, <2>6 DEF Counted, InputBounded, MaxRequest
  <2>7. CASE state = "HttpStart" /\ consumed <= Counted + 1
    <3>1. readed_count = 0
      BY <2>7 DEF HeaderInv
    <3> QED BY <3>1, <2>2, <2>3, <2>4, <2>7 DEF Counted, InputBounded, MaxRequest
  <2> QED BY <2>5, <2>6, <2>7 DEF HistoryInv
<1> QED BY <1>1, ParserInvariance, PTL

-----------------------------------------------------------------------------
(* The requests that the parser accepts, written as a grammar over the     *)
(* positions of a text.  t is the text, m its method, and q says where its *)
(* parts end: the method (word), the URI, the minor version, the lines of  *)
(* the n headers (end, with the first line as number 0), and in each line  *)
(* the colon and the white space after it (lws).  len[i] is what the first *)
(* i headers say of the body.                                              *)

IsFirstLine(t, q) ==
    /\ q.word \in Nat \ {0} /\ q.word <= MaxMethod
    /\ q.uri \in Nat /\ q.word < q.uri /\ q.uri <= q.word + 1 + MaxUri
    /\ q.minor \in Nat /\ q.uri + 9 <= q.minor /\ q.minor < q.uri + 8 + MaxMinor
    /\ \A i \in 1..q.word : t[i].ch \in Letters
    /\ t[q.word + 1].ch = "sp"
    /\ \A i \in (q.word + 2)..q.uri : t[i].ch \notin Ctl \cup {"sp"}
    /\ t[q.uri + 1].ch = "sp"
    /\ t[q.uri + 2].ch = "h" /\ t[q.uri + 3].ch = "t" /\ t[q.uri + 4].ch = "t"
    /\ t[q.uri + 5].ch = "p" /\ t[q.uri + 6].ch = "slash"
    /\ t[q.uri + 7].ch \in {"0", "1"} /\ t[q.uri + 8].ch = "dot"
    /\ \A i \in (q.uri + 9)..q.minor : t[i].ch \in DigitChars
    /\ t[q.minor + 1].ch = "cr" /\ t[q.minor + 2].ch = "lf"

IsHeaderLine(t, q, i) ==
    /\ q.colon[i] \in Nat /\ q.end[i - 1] + 2 <= q.colon[i]
    /\ q.lws[i] \in Nat /\ q.colon[i] <= q.lws[i] /\ q.lws[i] + 2 <= q.end[i]
    /\ \A j \in (q.end[i - 1] + 1)..(q.colon[i] - 1) : t[j].ch \in NameChars
    /\ t[q.colon[i]].ch = "colon"
    /\ \A j \in (q.colon[i] + 1)..q.lws[i] : t[j].ch \in {"sp", "tab"}
    /\ \A j \in (q.lws[i] + 1)..(q.end[i] - 2) : t[j].ch \notin Ctl
    /\ q.lws[i] + 1 < q.end[i] - 1 => t[q.lws[i] + 1].ch # "sp"
    /\ t[q.end[i] - 1].ch = "cr" /\ t[q.end[i]].ch = "lf"
    /\ q.len[i] = IF q.len[i - 1] = NoLength THEN t[q.end[i]].length ELSE q.len[i - 1]

IsHead(t, q) ==
    /\ q.n \in Nat
    /\ \A i \in 0..q.n : q.end[i] \in Nat /\ q.end[i] <= q.end[q.n]
    /\ q.end[0] = q.minor + 2 /\ q.len[0] = NoLength
    /\ \A i \in 1..q.n : IsHeaderLine(t, q, i)
    /\ t[q.end[q.n] + 1].ch = "cr" /\ t[q.end[q.n] + 2].ch = "lf"
    /\ q.end[q.n] + 2 - q.end[0] <= MaxHeaders

BodyOf(m, q) == IF m = "Post" /\ q.len[q.n] \in Lengths THEN q.len[q.n] ELSE 0

IsRequest(t, m, q) ==
    /\ m \in Methods \ {"Unknown"}
    /\ IsFirstLine(t, q)
    /\ IsHead(t, q)
    /\ Len(t) = q.end[q.n] + 2 + BodyOf(m, q)

\* Where the parser is when it has consumed a part of a request.
LineReads(m, q) ==
    /\ consumed < q.minor + 2
    /\ state = "HttpStart" /\ header = "LineStart" /\ readed_count = 0
    /\ key_size = 0 /\ value_size = 0 /\ content_length = NoLength /\ body_len = 0
    /\ consumed = 0 => line = "MethodStart"
    /\ 0 < consumed /\ consumed <= q.word => line = "Method"
    /\ consumed <= q.word => method_size = consumed /\ uri_size = 0
    /\ q.word < consumed /\ consumed <= q.uri => line = "Uri" /\ uri_size = consumed - q.word - 1
    /\ consumed = q.uri + 1 => line = "H"
    /\ consumed = q.uri + 2 => line = "T1"
    /\ consumed = q.uri + 3 => line = "T2"
    /\ consumed = q.uri + 4 => line = "P"
    /\ consumed = q.uri + 5 => line = "Slash"
    /\ consumed = q.uri + 6 => line = "MajorStart"
    /\ consumed = q.uri + 7 => line = "Major"
    /\ consumed = q.uri + 8 => line = "MinorStart"
    /\ consumed <= q.uri + 8 => minor_size = 0
    /\ q.uri + 8 < consumed /\ consumed <= q.minor => line = "Minor" /\ minor_size = consumed - q.uri - 8
    /\ consumed = q.minor + 1 => line = "Newline1"
    /\ consumed > q.word => method = m

HeaderReads(m, q) ==
    /\ q.end[0] <= consumed /\ consumed < q.end[q.n] + 2
    /\ state = "Headers" /\ method = m /\ body_len = 0
    /\ key_size \in Nat /\ value_size \in Nat
    /\ readed_count = consumed - q.end[0]
    /\ \/ \E i \in 1..q.n :
             /\ q.end[i - 1] <= consumed /\ consumed < q.end[i]
             /\ content_length = q.len[i - 1]
             /\ consumed = q.end[i - 1] => header = "LineStart"
             /\ q.end[i - 1] < consumed => key_size # 0
             /\ q.end[i - 1] < consumed /\ consumed < q.colon[i] => header = "Name"
             /\ q.colon[i] <= consumed /\ consumed <= q.lws[i] => header = "Lws"
             /\ q.lws[i] < consumed /\ consumed < q.end[i] - 1 => header = "Value"
             /\ consumed = q.end[i] - 1 => header = "Newline2"
       \/ /\ q.end[q.n] <= consumed
          /\ content_length = q.len[q.n]
          /\ consumed = q.end[q.n] => header = "LineStart"
          /\ consumed = q.end[q.n] + 1 => header = "Newline3"

BodyReads(m, q) ==
    /\ q.end[q.n] + 2 <= consumed
    /\ method = m /\ content_length = q.len[q.n] /\ body_size = BodyOf(m, q)
    /\ body_len = consumed - q.end[q.n] - 2
    /\ state = IF body_len < body_size THEN "Body" ELSE "Parsed"

\* The parser has read a part of the request and nothing else, and is done when
\* and only when this part is all of it.
Reads(t, m, q) ==
    /\ consumed \in Nat /\ consumed <= Len(t)
    /\ result = IF consumed = Len(t) THEN "Ok" ELSE "InProgress"
    /\ LineReads(m, q) \/ HeaderReads(m, q) \/ BodyReads(m, q)

\* The next character of a request.
ReadNext(t, m, q) ==
    \E w : /\ consumed = q.word => w = m
           /\ ParseChar(t[consumed + 1].ch, w, t[consumed + 1].length)

LEMMA FirstLineRead ==
  ASSUME NEW t, NEW m, NEW q, IsRequest(t, m, q), Reads(t, m, q), LineReads(m, q),
         ReadNext(t, m, q)
  PROVE  Reads(t, m, q)'
<1> USE ParserAssumption, MaxBodyAssumption
<1> DEFINE c == t[consumed + 1]
<1>1. PICK w : (consumed = q.word => w = m) /\ ParseChar(c.ch, w, c.length)
  BY DEF ReadNext
<1>2. /\ consumed \in Nat /\ consumed < q.minor + 2 /\ consumed' = consumed + 1
      /\ q.minor \in Nat /\ q.uri \in Nat /\ q.word \in Nat \ {0} 
      /\ q.word < q.uri /\ q.uri + 9 <= q.minor
      /\ state = "HttpStart" /\ LineChar(c.ch, w)
  BY <1>1 DEF ParseChar, LineReads, Reads, HeaderChar, BodyChar, IsRequest, IsFirstLine
<1>q. /\ consumed' \in Nat /\ consumed' < Len(t)
      /\ q.end[0] = q.minor + 2 /\ q.end[q.n] \in Nat /\ q.end[0] <= q.end[q.n] /\ q.n \in Nat
  <2>1. /\ q.end[0] = q.minor + 2 /\ q.end[q.n] \in Nat /\ q.end[0] <= q.end[q.n] /\ q.n \in Nat
    BY DEF IsRequest, IsHead
  <2>2. BodyOf(m, q) \in Nat
    BY DEF BodyOf, Lengths
  <2>3. Len(t) = q.end[q.n] + 2 + BodyOf(m, q)
    BY DEF IsRequest
  <2> QED BY <1>2, <2>1, <2>2, <2>3, SMTT(30)
<1>3. /\ header' = "LineStart" /\ readed_count' = 0
      /\ key_size' = 0 /\ value_size' = 0 /\ content_length' = NoLength /\ body_len' = 0
  BY <1>2 DEF LineChar, LineReads, headerVars, bodyVars
<1>s. IsFirstLine(t, q) /\ m \in Methods \ {"Unknown"}
  BY DEF IsRequest
<1>t. \A i \in Nat : i = consumed + 1 => c = t[i]
  OBVIOUS
<1> HIDE DEF c
<1> SUFFICES ASSUME TRUE PROVE
      /\ result' = "InProgress"
      /\ LineReads(m, q)' \/ HeaderReads(m, q)'
  BY <1>q DEF Reads
<1>4. CASE consumed < q.word
  <2>a. c.ch \in Letters
    BY <1>2, <1>4 DEF IsRequest, IsFirstLine, c
  <2>b. method_size = consumed /\ uri_size = 0
    BY <1>2, <1>4 DEF LineReads
  <2>c. minor_size = 0
    BY <1>2, <1>4 DEF LineReads, IsRequest, IsFirstLine
  <2>d. line \in {"MethodStart", "Method"}
    BY <1>2, <1>4 DEF LineReads
  <2>e. consumed < MaxMethod
    BY <1>2, <1>4 DEF IsRequest, IsFirstLine
  <2>1. c.ch \in Letters /\ method_size = consumed /\ uri_size = 0 /\ minor_size = 0
        /\ method_size < MaxMethod /\ line \in {"MethodStart", "Method"}
    BY <2>a, <2>b, <2>c, <2>d, <2>e
  <2>2. MethodChar(c.ch)
    BY <2>1, <1>2 DEF LineChar, MethodChar, MethodEnd, UriChar, UriEnd, FixedChar, MinorChar, MinorEnd, FixedChars, Letters
  <2>3. /\ result' = "InProgress" /\ line' = "Method" /\ state' = "HttpStart"
        /\ method_size' = consumed' /\ uri_size' = 0 /\ minor_size' = 0
    BY <2>1, <2>2, <1>2 DEF MethodChar, Fits, GoToLine, LineChar
  <2> QED BY <2>3, <1>2, <1>3, <1>4 DEF LineReads
<1>5. CASE consumed = q.word
  <2>1. c.ch = "sp" /\ line = "Method" /\ uri_size = 0 /\ minor_size = 0 /\ w = m /\ m # "Unknown"
    BY <1>1, <1>2, <1>5, SMTT(30) DEF LineReads, IsRequest, IsFirstLine, c
  <2>2. MethodEnd(c.ch, w)
    BY <2>1, <1>2 DEF LineChar, MethodChar, UriChar, UriEnd, FixedChar, MinorChar, MinorEnd, FixedChars
  <2>3. /\ result' = "InProgress" /\ line' = "Uri" /\ state' = "HttpStart"
        /\ method' = m /\ uri_size' = 0 /\ minor_size' = 0
    BY <2>1, <2>2, <1>2 DEF MethodEnd, GoToLine, LineChar
  <2> QED BY <2>3, <1>2, <1>3, <1>5 DEF LineReads
<1>6. CASE q.word < consumed /\ consumed < q.uri
  <2>1. c.ch \notin Ctl \cup {"sp"}
    <3>1. \A i \in (q.word + 2)..q.uri : t[i].ch \notin Ctl \cup {"sp"}
      BY <1>s DEF IsFirstLine
    <3>2. consumed + 1 \in (q.word + 2)..q.uri /\ c = t[consumed + 1]
      BY <1>2, <1>6, <1>t
    <3> QED BY <3>1, <3>2
  <2>2. /\ line = "Uri" /\ uri_size = consumed - q.word - 1 /\ minor_size = 0 /\ method = m
    BY <1>2, <1>6 DEF LineReads
  <2>3. uri_size < MaxUri
    BY <2>2, <1>2, <1>6, SMTT(30) DEF IsRequest, IsFirstLine
  <2>4. UriChar(c.ch)
    BY <2>1, <2>2, <1>2 DEF LineChar, MethodChar, MethodEnd, UriEnd, FixedChar, MinorChar, MinorEnd, FixedChars
  <2>5. /\ result' = "InProgress" /\ line' = "Uri" /\ state' = "HttpStart"
        /\ method' = m /\ uri_size' = consumed' - q.word - 1 /\ minor_size' = 0
    BY <2>1, <2>2, <2>3, <2>4, <1>2 DEF UriChar, Fits, GoToLine, LineChar
  <2> QED BY <2>5, <1>2, <1>3, <1>6 DEF LineReads
<1>7. CASE consumed = q.uri
  <2>1. c.ch = "sp" /\ line = "Uri" /\ minor_size = 0 /\ method = m
    BY <1>2, <1>7 DEF LineReads, IsRequest, IsFirstLine, c
  <2>2. UriEnd(c.ch)
    BY <2>1, <1>2 DEF LineChar, MethodChar, MethodEnd, UriChar, FixedChar, MinorChar, MinorEnd, FixedChars
  <2>3. /\ result' = "InProgress" /\ line' = "H" /\ state' = "HttpStart"
        /\ method' = m /\ minor_size' = 0
    BY <2>1, <2>2, <1>2 DEF UriEnd, GoToLine, LineChar
  <2> QED BY <2>3, <1>2, <1>3, <1>7 DEF LineReads
<1>8. CASE q.uri < consumed /\ consumed < q.uri + 8
  <2>1. method = m /\ minor_size = 0
    BY <1>2, <1>8 DEF LineReads
  <2>2. line \in DOMAIN FixedChars \ {"Newline1"} /\ c.ch \in FixedChars[line]
    <3>1. /\ consumed = q.uri + 1 => line = "H" /\ c.ch = "h"
          /\ consumed = q.uri + 2 => line = "T1" /\ c.ch = "t"
          /\ consumed = q.uri + 3 => line = "T2" /\ c.ch = "t"
          /\ consumed = q.uri + 4 => line = "P" /\ c.ch = "p"
          /\ consumed = q.uri + 5 => line = "Slash" /\ c.ch = "slash"
          /\ consumed = q.uri + 6 => line = "MajorStart" /\ c.ch \in {"0", "1"}
          /\ consumed = q.uri + 7 => line = "Major" /\ c.ch = "dot"
      <4>1. /\ consumed = q.uri + 1 => line = "H" /\ c.ch = "h"
            /\ consumed = q.uri + 2 => line = "T1" /\ c.ch = "t"
            /\ consumed = q.uri + 3 => line = "T2" /\ c.ch = "t"
        BY <1>2, <1>s, <1>t DEF LineReads, IsFirstLine
      <4>2. /\ consumed = q.uri + 4 => line = "P" /\ c.ch = "p"
            /\ consumed = q.uri + 5 => line = "Slash" /\ c.ch = "slash"
            /\ consumed = q.uri + 6 => line = "MajorStart" /\ c.ch \in {"0", "1"}
            /\ consumed = q.uri + 7 => line = "Major" /\ c.ch = "dot"
        BY <1>2, <1>s, <1>t DEF LineReads, IsFirstLine
      <4> QED BY <4>1, <4>2
    <3>2. consumed \in {q.uri + 1, q.uri + 2, q.uri + 3, q.uri + 4, q.uri + 5, q.uri + 6, q.uri + 7}
      BY <1>2, <1>8
    <3> QED BY <3>1, <3>2 DEF FixedChars
  <2>3. FixedChar(c.ch)
    BY <2>2, <1>2 DEF LineChar, MethodChar, MethodEnd, UriChar, UriEnd, MinorChar, MinorEnd, FixedChars
  <2>4. /\ result' = "InProgress" /\ line' = AfterFixed[line] /\ state' = "HttpStart"
        /\ method' = m /\ minor_size' = 0
    BY <2>1, <2>2, <2>3, <1>2 DEF FixedChar, FixedChars, AfterFixed, GoToLine, LineChar
  <2>5. /\ consumed' = q.uri + 2 => line' = "T1"
        /\ consumed' = q.uri + 3 => line' = "T2"
        /\ consumed' = q.uri + 4 => line' = "P"
        /\ consumed' = q.uri + 5 => line' = "Slash"
        /\ consumed' = q.uri + 6 => line' = "MajorStart"
        /\ consumed' = q.uri + 7 => line' = "Major"
        /\ consumed' = q.uri + 8 => line' = "MinorStart"
    BY <2>4, <1>2, <1>8 DEF LineReads, AfterFixed
  <2> QED BY <2>4, <2>5, <1>2, <1>3, <1>8 DEF LineReads
<1>9. CASE q.uri + 8 <= consumed /\ consumed < q.minor
  <2>1. c.ch \in DigitChars
    <3>1. \A i \in (q.uri + 9)..q.minor : t[i].ch \in DigitChars
      BY <1>s DEF IsFirstLine
    <3>2. consumed + 1 \in (q.uri + 9)..q.minor /\ c = t[consumed + 1]
      BY <1>2, <1>9, <1>t
    <3> QED BY <3>1, <3>2
  <2>2. /\ minor_size = consumed - q.uri - 8 /\ method = m
        /\ IF consumed = q.uri + 8 THEN line = "MinorStart" ELSE line = "Minor"
    BY <1>2, <1>9 DEF LineReads
  <2>3. minor_size + 1 < MaxMinor /\ minor_size \in Nat
    <3>1. q.minor < q.uri + 8 + MaxMinor
      BY <1>s DEF IsFirstLine
    <3> QED BY <3>1, <2>2, <1>2, <1>9
  <2>4. MinorChar(c.ch)
    BY <2>1, <2>2, <1>2 DEF LineChar, MethodChar, MethodEnd, UriChar, UriEnd, FixedChar, MinorEnd, FixedChars, DigitChars
  <2>5. /\ result' = "InProgress" /\ line' = "Minor" /\ state' = "HttpStart"
        /\ method' = m /\ minor_size' = minor_size + 1
    BY <2>1, <2>2, <2>3, <2>4, <1>2 DEF MinorChar, GoToLine, LineChar
  <2>6. minor_size' = consumed' - q.uri - 8
    BY <2>2, <2>5, <1>2
  <2> QED BY <2>5, <2>6, <1>2, <1>3, <1>9 DEF LineReads
<1>10. CASE consumed = q.minor
  <2>1. c.ch = "cr" /\ line = "Minor" /\ method = m
    <3>1. c.ch = "cr"
      BY <1>2, <1>10, <1>s, <1>t DEF IsFirstLine
    <3> QED BY <3>1, <1>2, <1>10 DEF LineReads
  <2>2. MinorEnd(c.ch)
    BY <2>1, <1>2 DEF LineChar, MethodChar, MethodEnd, UriChar, UriEnd, FixedChar, MinorChar, FixedChars
  <2>3. /\ result' = "InProgress" /\ line' = "Newline1" /\ state' = "HttpStart" /\ method' = m
    BY <2>1, <2>2, <1>2 DEF MinorEnd, GoToLine, LineChar
  <2> QED BY <2>3, <1>2, <1>3, <1>10 DEF LineReads
<1>11. CASE consumed = q.minor + 1
  <2>1. c.ch = "lf" /\ line = "Newline1" /\ method = m
    <3>1. q.minor + 2 = consumed + 1 /\ q.minor + 2 \in Nat
      BY <1>2, <1>11
    <3>2. c.ch = "lf"
      BY <3>1, <1>s, <1>t DEF IsFirstLine
    <3> QED BY <3>2, <1>2, <1>11 DEF LineReads
  <2>2. FixedChar(c.ch)
    BY <2>1, <1>2 DEF LineChar, MethodChar, MethodEnd, UriChar, UriEnd, MinorChar, MinorEnd
  <2>3. /\ result' = "InProgress" /\ line' = "Parsed" /\ state' = "Headers" /\ method' = m
    BY <2>1, <2>2, <1>2 DEF FixedChar, FixedChars, AfterFixed, GoToLine, LineChar
  <2>4. consumed' = q.end[0] /\ q.end[0] \in Nat
    BY <1>2, <1>q, <1>11
  <2>5. CASE q.n = 0
    BY <2>3, <2>4, <2>5, <1>q, <1>3 DEF HeaderReads, IsRequest, IsHead
  <2>6. CASE q.n # 0
    <3>1. 1 \in 1..q.n /\ 1 - 1 = 0
      BY <2>6, <1>q
    <3>2. q.end[0] + 4 <= q.end[1] /\ q.end[0] + 2 <= q.colon[1] /\ q.end[1] \in Nat /\ q.colon[1] \in Nat
          /\ q.lws[1] \in Nat /\ q.colon[1] <= q.lws[1] /\ q.len[0] = NoLength
      <4>1. IsHead(t, q)
        BY DEF IsRequest
      <4>2. IsHeaderLine(t, q, 1) /\ q.end[1] \in Nat /\ q.len[0] = NoLength
        BY <3>1, <4>1, <1>q DEF IsHead
      <4>3. q.colon[1] \in Nat /\ q.lws[1] \in Nat /\ q.end[0] + 2 <= q.colon[1] /\ q.colon[1] <= q.lws[1]
            /\ q.lws[1] + 2 <= q.end[1]
        BY <3>1, <4>2 DEF IsHeaderLine
      <4>4. q.end[0] \in Nat
        BY <1>2, <1>q
      <4>5. q.end[0] + 4 <= q.end[1]
        BY <4>2, <4>3, <4>4
      <4> QED BY <4>2, <4>3, <4>5
    <3>3. /\ q.end[1 - 1] <= consumed' /\ consumed' < q.end[1]
          /\ content_length' = q.len[1 - 1]
          /\ consumed' = q.end[1 - 1] => header' = "LineStart"
          /\ ~(q.end[1 - 1] < consumed')
          /\ ~(q.colon[1] <= consumed')
          /\ ~(q.lws[1] < consumed')
          /\ consumed' # q.end[1] - 1
      BY <2>4, <3>1, <3>2, <1>3
    <3>4. q.end[0] <= consumed' /\ consumed' < q.end[q.n] + 2 /\ readed_count' = consumed' - q.end[0]
      BY <2>4, <1>q, <1>3
    <3> QED BY <2>3, <3>1, <3>3, <3>4, <1>3 DEF HeaderReads
  <2> QED BY <2>3, <2>5, <2>6
<1> QED BY <1>2, <1>4, <1>5, <1>6, <1>7, <1>8, <1>9, <1>10, <1>11

LEMMA HeadRead ==
  ASSUME NEW t, NEW m, NEW q, IsRequest(t, m, q), Reads(t, m, q), HeaderReads(m, q),
         ReadNext(t, m, q)
  PROVE  Reads(t, m, q)'
<1> USE ParserAssumption, MaxBodyAssumption
<1> DEFINE c == t[consumed + 1]
<1> DEFINE last == q.end[q.n]
<1>1. PICK w : ParseChar(c.ch, w, c.length)
  BY DEF ReadNext
<1>2. /\ consumed \in Nat /\ consumed' = consumed + 1
      /\ q.end[0] \in Nat /\ q.end[0] <= consumed /\ consumed < last + 2
      /\ state = "Headers" /\ method = m /\ body_len = 0 /\ HeaderChar(c.ch, c.length)
      /\ readed_count = consumed - q.end[0] /\ key_size \in Nat /\ value_size \in Nat
  BY <1>1 DEF ParseChar, HeaderReads, Reads, LineChar, BodyChar, IsRequest, IsHead
<1>3. /\ q.n \in Nat /\ \A i \in 0..q.n : q.end[i] \in Nat /\ q.end[i] <= last
      /\ \A i \in 1..q.n : IsHeaderLine(t, q, i)
      /\ t[last + 1].ch = "cr" /\ t[last + 2].ch = "lf"
      /\ last + 2 - q.end[0] <= MaxHeaders
  BY DEF IsRequest, IsHead
<1>4. last \in Nat
  BY <1>3
<1>5. Len(t) = last + 2 + BodyOf(m, q) /\ BodyOf(m, q) \in Nat
  BY DEF IsRequest, BodyOf, Lengths
<1>6. method' = m /\ readed_count' = consumed' - q.end[0]
  BY <1>2 DEF HeaderChar, lineVars
<1>7. LineStart(c.ch) \/ NameChar(c.ch) \/ LwsChar(c.ch) \/ ValueChar(c.ch) \/ Newline2(c.ch, c.length) \/ Newline3(c.ch)
  BY <1>2, <1>3, <1>4 DEF HeaderChar
<1>t. \A i \in Nat : i = consumed + 1 => c = t[i]
  OBVIOUS
<1> HIDE DEF c, last
<1>8. ASSUME NEW i \in 1..q.n, q.end[i - 1] <= consumed, consumed < q.end[i], content_length = q.len[i - 1],
             consumed = q.end[i - 1] => header = "LineStart",
             q.end[i - 1] < consumed => key_size # 0,
             q.end[i - 1] < consumed /\ consumed < q.colon[i] => header = "Name",
             q.colon[i] <= consumed /\ consumed <= q.lws[i] => header = "Lws",
             q.lws[i] < consumed /\ consumed < q.end[i] - 1 => header = "Value",
             consumed = q.end[i] - 1 => header = "Newline2"
      PROVE  Reads(t, m, q)'
  <2>1. i - 1 \in 0..q.n /\ i \in 0..q.n /\ i \in Nat
    BY <1>3
  <2>2. q.end[i - 1] \in Nat /\ q.end[i] \in Nat /\ q.end[i] <= last /\ IsHeaderLine(t, q, i)
    BY <1>3, <2>1
  <2>3. /\ q.colon[i] \in Nat /\ q.end[i - 1] + 2 <= q.colon[i]
        /\ q.lws[i] \in Nat /\ q.colon[i] <= q.lws[i] /\ q.lws[i] + 2 <= q.end[i]
    BY <2>2 DEF IsHeaderLine
  <2>4. consumed' \in Nat /\ consumed' < Len(t) /\ consumed' < last + 2 /\ q.end[0] <= consumed'
    <3>1. consumed + 1 <= last
      BY <1>2, <1>4, <1>8, <2>2
    <3> QED BY <1>2, <1>4, <1>5, <3>1
  <2>5. SUFFICES result' = "InProgress" /\ HeaderReads(m, q)'
    BY <2>4 DEF Reads
  <2>6. ASSUME consumed' < q.end[i], result' = "InProgress", state' = "Headers", body_len' = 0,
               key_size' \in Nat, key_size' # 0, value_size' \in Nat, content_length' = content_length,
               consumed' < q.colon[i] => header' = "Name",
               q.colon[i] <= consumed' /\ consumed' <= q.lws[i] => header' = "Lws",
               q.lws[i] < consumed' /\ consumed' < q.end[i] - 1 => header' = "Value",
               consumed' = q.end[i] - 1 => header' = "Newline2"
        PROVE  result' = "InProgress" /\ HeaderReads(m, q)'
    <3>1. q.end[i - 1] < consumed' /\ q.end[i - 1] <= consumed' /\ consumed' # q.end[i - 1]
      BY <1>2, <1>8, <2>2
    <3> QED BY <2>4, <2>6, <3>1, <1>6, <1>8 DEF HeaderReads, last
  <2>7. CASE consumed = q.end[i - 1]
    <3>1. consumed + 1 \in (q.end[i - 1] + 1)..(q.colon[i] - 1) /\ c = t[consumed + 1]
      BY <1>2, <1>t, <2>2, <2>3, <2>7
    <3>2. c.ch \in NameChars
      BY <3>1, <2>2 DEF IsHeaderLine
    <3>3. header' = "Name" /\ result' = "InProgress" /\ key_size' = key_size + 1
          /\ UNCHANGED <<value_size, content_length, state, body_len>>
      BY <3>2, <1>7, <1>8, <2>7 DEF LineStart, NameChar, LwsChar, ValueChar, Newline2, Newline3,
         GoToHeader, NameChars, Ctl, Special, bodyVars
    <3>4. consumed' < q.colon[i] /\ consumed' < q.end[i]
      BY <1>2, <2>2, <2>3, <2>7
    <3>5. ~(q.colon[i] <= consumed') /\ ~(q.lws[i] < consumed') /\ consumed' # q.end[i] - 1
      BY <3>4, <2>2, <2>3, <2>4, SMTT(30)
    <3> QED BY <3>3, <3>4, <3>5, <2>6, <1>2
  <2>8. CASE q.end[i - 1] < consumed /\ consumed < q.colon[i] - 1
    <3>1. consumed + 1 \in (q.end[i - 1] + 1)..(q.colon[i] - 1) /\ c = t[consumed + 1]
      BY <1>2, <1>t, <2>2, <2>3, <2>8
    <3>2. c.ch \in NameChars /\ header = "Name"
      BY <3>1, <1>2, <1>8, <2>2, <2>3, <2>8 DEF IsHeaderLine
    <3>3. header' = "Name" /\ result' = "InProgress" /\ key_size' = key_size + 1
          /\ UNCHANGED <<value_size, content_length, state, body_len>>
      BY <3>2, <1>7 DEF LineStart, NameChar, LwsChar, ValueChar, Newline2, Newline3,
         GoToHeader, NameChars, Ctl, Special, bodyVars
    <3>4. consumed' < q.colon[i] /\ consumed' < q.end[i]
      BY <1>2, <2>2, <2>3, <2>8
    <3>5. ~(q.colon[i] <= consumed') /\ ~(q.lws[i] < consumed') /\ consumed' # q.end[i] - 1
      BY <3>4, <2>2, <2>3, <2>4, SMTT(30)
    <3> QED BY <3>3, <3>4, <3>5, <2>6, <1>2
  <2>9. CASE consumed = q.colon[i] - 1
    <3>1. header = "Name" /\ key_size # 0
      BY <1>2, <1>8, <2>2, <2>3, <2>9
    <3>2. c = t[q.colon[i]]
      BY <1>2, <1>t, <2>3, <2>9
    <3>3. header' = "Lws" /\ result' = "InProgress"
          /\ UNCHANGED <<key_size, value_size, content_length, state, body_len>>
      BY <3>1, <3>2, <1>7, <2>2 DEF LineStart, NameChar, LwsChar, ValueChar, Newline2, Newline3,
         GoToHeader, bodyVars, IsHeaderLine
    <3>4. consumed' = q.colon[i] /\ consumed' < q.end[i]
      BY <1>2, <2>2, <2>3, <2>9
    <3>5. ~(consumed' < q.colon[i]) /\ ~(q.lws[i] < consumed') /\ consumed' # q.end[i] - 1
      BY <3>4, <2>2, <2>3, <2>4, SMTT(30)
    <3> QED BY <3>1, <3>3, <3>4, <3>5, <2>6, <1>2
  <2>10. CASE q.colon[i] <= consumed /\ consumed < q.lws[i]
    <3>1. header = "Lws" /\ key_size # 0
      BY <1>2, <1>8, <2>2, <2>3, <2>10
    <3>2. consumed + 1 \in (q.colon[i] + 1)..q.lws[i] /\ c = t[consumed + 1]
      BY <1>2, <1>t, <2>3, <2>10
    <3>3. c.ch \in {"sp", "tab"}
      BY <3>2, <2>2 DEF IsHeaderLine
    <3>4. header' = "Lws" /\ result' = "InProgress"
          /\ UNCHANGED <<key_size, value_size, content_length, state, body_len>>
      BY <3>1, <3>3, <1>7 DEF LineStart, NameChar, LwsChar, ValueChar, Newline2, Newline3,
         GoToHeader, bodyVars
    <3>5. q.colon[i] <= consumed' /\ consumed' <= q.lws[i] /\ consumed' < q.end[i]
      BY <1>2, <2>2, <2>3, <2>10
    <3>6. ~(consumed' < q.colon[i]) /\ ~(q.lws[i] < consumed')
      BY <3>5, <2>3, <2>4
    <3>7. consumed' # q.end[i] - 1
      BY <3>5, <2>2, <2>3, <2>4
    <3> QED BY <3>1, <3>4, <3>5, <3>6, <3>7, <2>6, <1>2
  <2>11. CASE q.lws[i] <= consumed /\ consumed < q.end[i] - 2
    <3>1. IF consumed = q.lws[i] THEN header = "Lws" ELSE header = "Value"
      BY <1>2, <1>8, <2>2, <2>3, <2>11
    <3>2. consumed + 1 \in (q.lws[i] + 1)..(q.end[i] - 2) /\ c = t[consumed + 1]
      BY <1>2, <1>t, <2>2, <2>3, <2>11
    <3>3. c.ch \notin Ctl /\ key_size # 0
      BY <3>2, <1>2, <1>8, <2>2, <2>3, <2>11 DEF IsHeaderLine
    <3>4. consumed = q.lws[i] => c.ch # "sp"
      BY <3>2, <1>2, <2>2, <2>3, <2>11 DEF IsHeaderLine
    <3>5. header' = "Value" /\ result' = "InProgress" /\ value_size' = value_size + 1
          /\ UNCHANGED <<key_size, content_length, state, body_len>>
      BY <3>1, <3>3, <3>4, <1>7 DEF LineStart, NameChar, LwsChar, ValueChar, Newline2, Newline3,
         GoToHeader, AddValueChar, bodyVars, Ctl
    <3>6. q.lws[i] < consumed' /\ consumed' < q.end[i] - 1 /\ consumed' < q.end[i]
      BY <1>2, <2>2, <2>3, <2>11
    <3>7. ~(consumed' < q.colon[i]) /\ ~(consumed' <= q.lws[i]) /\ consumed' # q.end[i] - 1
      BY <3>6, <2>2, <2>3, <2>4, SMTT(30)
    <3> QED BY <3>3, <3>5, <3>6, <3>7, <2>6, <1>2
  <2>12. CASE consumed = q.end[i] - 2
    <3>1. header \in {"Lws", "Value"} /\ key_size # 0
      BY <1>2, <1>8, <2>2, <2>3, <2>12
    <3>2. c = t[q.end[i] - 1]
      BY <1>2, <1>t, <2>2, <2>12
    <3>3. header' = "Newline2" /\ result' = "InProgress"
          /\ UNCHANGED <<key_size, value_size, content_length, state, body_len>>
      BY <3>1, <3>2, <1>7, <2>2 DEF LineStart, NameChar, LwsChar, ValueChar, Newline2, Newline3,
         GoToHeader, bodyVars, IsHeaderLine
    <3>4. consumed' = q.end[i] - 1 /\ consumed' < q.end[i]
      BY <1>2, <2>2, <2>12
    <3>5. ~(consumed' < q.colon[i]) /\ ~(consumed' <= q.lws[i]) /\ ~(consumed' < q.end[i] - 1)
      BY <3>4, <2>2, <2>3, <2>4
    <3> QED BY <3>1, <3>3, <3>4, <3>5, <2>6, <1>2
  <2>13. CASE consumed = q.end[i] - 1
    <3>1. header = "Newline2" /\ key_size # 0
      BY <1>2, <1>8, <2>2, <2>3, <2>13
    <3>2. c = t[q.end[i]]
      BY <1>2, <1>t, <2>2, <2>13
    <3>3. header' = "LineStart" /\ result' = "InProgress" /\ key_size' = 0 /\ value_size' = 0
          /\ UNCHANGED <<state, body_len>> /\ content_length' = q.len[i]
      BY <3>1, <3>2, <1>7, <1>8, <2>2 DEF LineStart, NameChar, LwsChar, ValueChar, Newline2, Newline3,
         GoToHeader, bodyVars, IsHeaderLine
    <3>4. consumed' = q.end[i]
      BY <1>2, <2>2, <2>13
    <3>5. CASE i = q.n
      <4>1. last <= consumed' /\ consumed' # last + 1
        BY <3>4, <3>5, <2>2, <1>4 DEF last
      <4> QED BY <2>4, <3>3, <3>5, <4>1, <1>2, <1>6 DEF HeaderReads, last
    <3>6. CASE i # q.n
      <4>1. i + 1 \in 1..q.n /\ i + 1 \in 0..q.n /\ (i + 1) - 1 = i
        BY <3>6, <1>3, <2>1
      <4>2. q.end[i + 1] \in Nat /\ IsHeaderLine(t, q, i + 1)
        BY <4>1, <1>3
      <4>3. /\ q.colon[i + 1] \in Nat /\ q.end[i] + 2 <= q.colon[i + 1]
            /\ q.lws[i + 1] \in Nat /\ q.colon[i + 1] <= q.lws[i + 1] /\ q.lws[i + 1] + 2 <= q.end[i + 1]
        BY <4>1, <4>2 DEF IsHeaderLine
      <4>4. /\ consumed' < q.colon[i + 1] /\ consumed' < q.end[i + 1]
            /\ ~(q.colon[i + 1] <= consumed') /\ ~(q.lws[i + 1] < consumed') /\ consumed' # q.end[i + 1] - 1
        BY <3>4, <4>2, <4>3, <2>2
      <4>5. q.end[(i + 1) - 1] <= consumed' /\ ~(q.end[(i + 1) - 1] < consumed')
            /\ q.len[(i + 1) - 1] = content_length'
        BY <3>3, <3>4, <4>1, <2>2
      <4> QED BY <2>4, <3>3, <4>1, <4>4, <4>5, <1>2, <1>6 DEF HeaderReads, last
    <3> QED BY <3>5, <3>6
  <2> QED BY <1>2, <1>8, <2>2, <2>3, <2>7, <2>8, <2>9, <2>10, <2>11, <2>12, <2>13
<1>9. ASSUME last <= consumed, content_length = q.len[q.n],
             consumed = last => header = "LineStart", consumed = last + 1 => header = "Newline3"
      PROVE  Reads(t, m, q)'
  <2>1. CASE consumed = last
    <3>1. c = t[last + 1]
      BY <1>t, <1>4, <2>1
    <3>2. header' = "Newline3" /\ result' = "InProgress"
          /\ UNCHANGED <<key_size, value_size, content_length, state, body_len>>
      BY <3>1, <1>3, <1>7, <1>9, <2>1 DEF LineStart, NameChar, LwsChar, ValueChar, Newline2, Newline3,
         GoToHeader, bodyVars
    <3>3. consumed' = last + 1 /\ consumed' < last + 2 /\ last <= consumed' /\ consumed' # last
          /\ consumed' < Len(t) /\ consumed' \in Nat /\ q.end[0] <= consumed'
      BY <1>2, <1>4, <1>5, <2>1
    <3>4. HeaderReads(m, q)'
      BY <3>2, <3>3, <1>2, <1>6, <1>9 DEF HeaderReads, last
    <3> QED BY <3>2, <3>3, <3>4 DEF Reads
  <2>2. CASE consumed = last + 1
    <3>1. c = t[last + 2]
      BY <1>t, <1>4, <2>2
    <3>2. body_size' = ExpectedBody /\ ExpectedBody = BodyOf(m, q)
      BY <3>1, <1>2, <1>3, <1>7, <1>9, <2>2 DEF LineStart, NameChar, LwsChar, ValueChar, Newline2, Newline3,
         ExpectedBody, BodyOf
    <3>3. /\ IF body_size' = 0 THEN state' = "Parsed" /\ result' = "Ok"
             ELSE state' = "Body" /\ result' = "InProgress"
          /\ UNCHANGED <<content_length, body_len>>
      BY <3>1, <1>3, <1>7, <1>9, <2>2 DEF LineStart, NameChar, LwsChar, ValueChar, Newline2, Newline3
    <3>4. consumed' = last + 2 /\ consumed' <= Len(t) /\ consumed' \in Nat
          /\ body_len' = consumed' - last - 2
      BY <1>2, <1>4, <1>5, <2>2, <3>3
    <3>5. (consumed' = Len(t) <=> body_size' = 0) /\ (body_len' < body_size' <=> body_size' # 0)
      BY <1>2, <1>4, <1>5, <3>2, <3>3, <3>4
    <3>6. BodyReads(m, q)'
      BY <3>2, <3>3, <3>4, <3>5, <1>6, <1>9 DEF BodyReads, last
    <3> QED BY <3>3, <3>4, <3>5, <3>6 DEF Reads
  <2> QED BY <1>2, <1>4, <1>9, <2>1, <2>2
<1> QED BY <1>8, <1>9 DEF HeaderReads, last

LEMMA BodyRead ==
  ASSUME NEW t, NEW m, NEW q, IsRequest(t, m, q), Reads(t, m, q), BodyReads(m, q),
         ReadNext(t, m, q)
  PROVE  Reads(t, m, q)'
<1>1. /\ result = "InProgress" /\ consumed \in Nat /\ consumed' = consumed + 1
      /\ BodyChar /\ method = m /\ content_length = q.len[q.n] /\ body_size = BodyOf(m, q)
  BY DEF ReadNext, ParseChar, Reads, BodyReads, LineChar, HeaderChar
<1>2. /\ q.end[q.n] \in Nat /\ BodyOf(m, q) \in Nat
      /\ Len(t) = q.end[q.n] + 2 + BodyOf(m, q)
  BY MaxBodyAssumption DEF IsRequest, IsHead, BodyOf, Lengths
<1>3. /\ q.end[q.n] + 2 <= consumed /\ consumed < Len(t)
      /\ body_len = consumed - q.end[q.n] - 2
  BY <1>1, <1>2 DEF BodyReads, Reads
<1>4. body_len' = consumed' - q.end[q.n] - 2
  <2>1. body_len' = body_len + 1
    BY <1>1 DEF BodyChar
  <2>2. PICK last \in Nat : last = q.end[q.n]
    BY <1>2
  <2>3. body_len = consumed - last - 2
    BY <1>3, <2>2
  <2> QED BY <1>1, <2>1, <2>2, <2>3
<1>5. UNCHANGED <<method, content_length, body_size>>
  BY <1>1 DEF BodyChar, lineVars, headerVars
<1>6. CASE consumed' = Len(t)
  <2>1. body_len + 1 = body_size
    BY <1>1, <1>2, <1>3, <1>6, SMTT(30)
  <2>2. result' = "Ok" /\ state' = "Parsed" /\ ~(body_len' < body_size)
    BY <1>1, <1>2, <1>3, <2>1 DEF BodyChar
  <2>3. q.end[q.n] + 2 <= consumed' /\ consumed' \in Nat /\ consumed' <= Len(t)
    BY <1>1, <1>2, <1>6
  <2> QED BY <1>1, <1>4, <1>5, <1>6, <2>2, <2>3 DEF Reads, BodyReads
<1>7. CASE consumed' # Len(t)
  <2>1. body_len + 1 < body_size
    BY <1>1, <1>2, <1>3, <1>7, SMTT(30)
  <2>2. result' = "InProgress" /\ state' = "Body" /\ body_len' < body_size
    BY <1>1, <1>2, <1>3, <2>1 DEF BodyChar, BodyReads
  <2>3. q.end[q.n] + 2 <= consumed' /\ consumed' \in Nat /\ consumed' <= Len(t)
    BY <1>1, <1>2, <1>3, SMTT(30)
  <2> QED BY <1>1, <1>4, <1>5, <1>7, <2>2, <2>3 DEF Reads, BodyReads
<1> QED BY <1>6, <1>7

\* A request is read character by character, and is complete with its last one.
THEOREM RequestRead ==
  ASSUME NEW t, NEW m, NEW q, IsRequest(t, m, q), Reads(t, m, q), ReadNext(t, m, q)
  PROVE  Reads(t, m, q)'
BY FirstLineRead, HeadRead, BodyRead DEF Reads

\* A step that makes the parser a new one begins every request.
LEMMA RequestBegins ==
  ASSUME NEW t, NEW m, NEW q, IsRequest(t, m, q), ParserInit'
  PROVE  Reads(t, m, q)'
<1>1. q.word \in Nat \ {0} /\ q.uri \in Nat /\ q.word < q.uri /\ q.minor \in Nat /\ q.uri + 9 <= q.minor
  BY DEF IsRequest, IsFirstLine
<1>2. /\ q.end[q.n] \in Nat /\ BodyOf(m, q) \in Nat
      /\ Len(t) = q.end[q.n] + 2 + BodyOf(m, q)
  BY MaxBodyAssumption DEF IsRequest, IsHead, BodyOf, Lengths
<1>3. LineReads(m, q)'
  BY <1>1 DEF ParserInit, LineReads
<1>4. 0 <= Len(t) /\ Len(t) # 0
  BY <1>2
<1> QED BY <1>3, <1>4 DEF ParserInit, Reads

\* What the parser has found when a step makes it be done.
LEMMA RequestDone ==
  ASSUME NEW t, NEW m, NEW q, IsRequest(t, m, q), Reads(t, m, q)', result' = "Ok"
  PROVE  /\ consumed' = Len(t)
         /\ method' = m /\ content_length' = q.len[q.n] /\ body_len' = BodyOf(m, q)
<1>1. /\ q.end[q.n] \in Nat /\ BodyOf(m, q) \in Nat
      /\ Len(t) = q.end[q.n] + 2 + BodyOf(m, q)
      /\ q.end[0] = q.minor + 2 /\ q.end[0] <= q.end[q.n] /\ q.minor \in Nat
  <2>1. IsHead(t, q) /\ q.minor \in Nat /\ Len(t) = q.end[q.n] + 2 + BodyOf(m, q)
    BY DEF IsRequest, IsFirstLine
  <2>2. BodyOf(m, q) \in Nat
    BY MaxBodyAssumption DEF BodyOf, Lengths
  <2>3. q.n \in 0..q.n /\ 0 \in 0..q.n
    BY <2>1 DEF IsHead
  <2>4. q.end[q.n] \in Nat /\ q.end[0] <= q.end[q.n] /\ q.end[0] = q.minor + 2
    BY <2>1, <2>3 DEF IsHead
  <2> QED BY <2>1, <2>2, <2>4
<1>2. consumed' = Len(t)
  BY DEF Reads
<1>3. ~(consumed' < q.minor + 2) /\ ~(consumed' < q.end[q.n] + 2)
  BY <1>1, <1>2
<1>4. BodyReads(m, q)'
  BY <1>3 DEF Reads, LineReads, HeaderReads
<1>5. body_len' = consumed' - q.end[q.n] - 2 /\ method' = m /\ content_length' = q.len[q.n]
  BY <1>4 DEF BodyReads
<1> QED BY <1>1, <1>2, <1>5
=============================================================================
