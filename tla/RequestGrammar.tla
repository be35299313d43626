--------------------------- MODULE RequestGrammar ---------------------------
(***************************************************************************)
(* RequestParser against its references, in one of three modes.  "any":    *)
(* every character at every point.  "text": the texts that a grammar of    *)
(* HTTP requests generates, written without regard to the parser's states. *)
(* A text is a sequence of characters, each with the method and the length *)
(* that the strings collected so far spell.  "value": the parser waits,    *)
(* and a Content-Length value grows by one character at a time.            *)
(*                                                                         *)
(* The grammar is smaller than the one of HTTP: it has no tab or other     *)
(* control character in a value and no folded line, which the parser       *)
(* refuses, and a body only after a POST, since the parser ends any other  *)
(* request with its head.                                                  *)
(***************************************************************************)
EXTENDS RequestParser

CONSTANTS
    Words, Uris, Minors,    \* of the first line: methods, URIs, minor versions
    Keys, Blanks, Values,   \* of a header line; Blanks come before the value
    Announced,              \* what a header line says of the body
    MaxLines,               \* bound: header lines
    BodyChars,              \* the characters of bodies
    WideBody,               \* max_body_size in the mode "value"
    ValueSize,              \* bound: characters of a value
    SomeChars               \* the characters of values

ASSUME GrammarAssumption ==
    /\ \A word \in Words : word \in Seq(Letters) /\ Len(word) \in 1..MaxMethod
    /\ \A uri \in Uris : uri \in Seq(Chars \ (Ctl \cup {"sp"})) /\ Len(uri) <= MaxUri
    /\ \A minor \in Minors : minor \in Seq(DigitChars) /\ Len(minor) \in 1..(MaxMinor - 1)
    /\ \A key \in Keys : key \in Seq(NameChars) /\ key # <<>>
    /\ Blanks \subseteq Seq({"sp", "tab"})
    /\ \A value \in Values : value \in Seq(Chars \ Ctl) /\ (value # <<>> => value[1] # "sp")
    /\ Announced \subseteq Lengths \cup {NoLength, InvalidLength}
    /\ MaxLines \in Nat
    /\ BodyChars \subseteq Chars

ASSUME ValueAssumption ==
    /\ WideBody \in Nat \ {0}
    /\ SomeChars \subseteq ValueChars

VARIABLES mode, text, pos

grammarVars == <<parserVars, mode, text, pos>>

Wide == INSTANCE ContentLength WITH MaxBody <- WideBody

Char(ch, m, n) == [ch |-> ch, method |-> m, length |-> n]
Plain(chars) == [i \in 1..Len(chars) |-> Char(chars[i], "Other", NoLength)]
LineEnd(n) == <<Char("cr", "Other", n), Char("lf", "Other", n)>>

FirstLine(m, word, uri, minor) ==
    Plain(word) \o <<Char("sp", m, NoLength)>> \o Plain(uri) \o
    Plain(<<"sp", "h", "t", "t", "p", "slash", "1", "dot">>) \o Plain(minor) \o
    LineEnd(NoLength)

HeaderLines == [key : Keys, blanks : Blanks, value : Values, length : Announced]

LineText(header_line) ==
    Plain(header_line.key) \o Plain(<<"colon">>) \o Plain(header_line.blanks) \o
    Plain(header_line.value) \o LineEnd(header_line.length)

\* The header section, with the line that ends it.
Section(headers) ==
    FlattenSeq([i \in 1..Len(headers) |-> LineText(headers[i])]) \o LineEnd(NoLength)

\* Lists of headers that fit the section.
Fitting ==
    {headers \in UNION {[1..n -> HeaderLines] : n \in 0..MaxLines} :
        Len(Section(headers)) <= MaxHeaders}

\* The first Content-Length counts, for a POST, if it is valid: the rule of the
\* code.  A body announced by another method belongs to no text of this grammar.
LengthOf(m, headers) ==
    LET said == {i \in DOMAIN headers : headers[i].length # NoLength}
    IN IF m = "Post" /\ said # {} /\ headers[Min(said)].length \in Lengths
       THEN headers[Min(said)].length ELSE 0

Requests(m, headers) ==
    {FirstLine(m, word, uri, minor) \o Section(headers) \o Plain(body) :
        word \in Words, uri \in Uris, minor \in Minors,
        body \in [1..LengthOf(m, headers) -> BodyChars]}

Texts == UNION {Requests(m, headers) : m \in Methods \ {"Unknown"}, headers \in Fitting}

GrammarInit ==
    /\ ParserInit
    /\ pos = 0
    /\ \/ mode = "text" /\ text \in Texts
       \/ mode \in {"any", "value"} /\ text = <<>>

GrammarNext ==
    \/ /\ mode = "any"
       /\ ParserNext
       /\ UNCHANGED <<mode, text, pos>>
    \/ /\ mode = "text"
       /\ pos < Len(text)
       /\ pos' = pos + 1
       /\ ParseChar(text[pos'].ch, text[pos'].method, text[pos'].length)
       /\ UNCHANGED <<mode, text>>
    \/ /\ mode = "value"
       /\ Len(text) < ValueSize
       /\ \E ch \in SomeChars : text' = Append(text, ch)
       /\ UNCHANGED <<parserVars, mode, pos>>

GrammarSpec == GrammarInit /\ [][GrammarNext]_grammarVars

\* Every text of this grammar that fits the buffers is accepted, with its last
\* character and not before.  Of other texts this says nothing.
AcceptsGrammar ==
    mode = "text" => result # "Error" /\ (result = "Ok" <=> pos = Len(text))

\* GetContentLength is exact for every value around the limit.
LengthsExact == mode = "value" => Wide!ExactLength(text)
=============================================================================
