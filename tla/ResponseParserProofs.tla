------------------------ MODULE ResponseParserProofs ------------------------
(***************************************************************************)
(* The response parser keeps its strings in bounds and collects the body   *)
(* that the response declares, for every size of its buffers, every limit  *)
(* of the body, every width of a size and any number of chunks.  It reads  *)
(* every response of the grammar that fits its buffers, and every one that *)
(* the server packs, to the last character and no further.                 *)
(***************************************************************************)
EXTENDS ResponseGrammar, SequenceLemmas, FiniteSetTheorems, TLAPS

(***************************************************************************)
(* The inductive invariant.  Of the three parts that carry the argument,   *)
(* KeysInv says that the one count of the header section bounds the two    *)
(* strings that are written without a check, and that they are empty       *)
(* between lines; ChunkInv that the running totals of the chunked body are *)
(* those of the size lines, as long as none has wrapped; BlankInv how much *)
(* of the blank line each state of the two head machines stands for.       *)
(***************************************************************************)

StatusLineInv ==
    /\ text_size <= MaxText
    /\ line = "Parsed" <=> state # "HttpStart"
    /\ result = "Ok" <=> state = "Parsed"

KeysInv ==
    /\ key_size + value_size <= readed_count
    /\ key_size + value_size <= MaxHeaders
    /\ result # "Error" => readed_count <= MaxHeaders
    /\ header \in {"LineStart", "Newline3", "Parsed"} => key_size = 0 /\ value_size = 0
    /\ header \in {"Name", "Lws", "Value", "Newline2"} => key_size # 0
    /\ state = "HttpStart" => header = "LineStart" /\ readed_count = 0
    /\ header = "Parsed" <=> state \in {"Body", "BodyChunk", "Parsed"}

LengthInv ==
    /\ state \in {"HttpStart", "Headers", "BodyChunk"} => body_len = 0
    /\ state = "Body" => encoding # Chunked /\ body_size = ExpectedLength /\ body_len < body_size
    /\ state = "Parsed" /\ encoding # Chunked => body_len = ExpectedLength
    /\ state = "Parsed" /\ encoding = Chunked => body_len = chunks_size
    /\ state = "BodyChunk" => encoding = Chunked

\* The size of the chunk in progress, and of all chunks, is the declared one.
SizesInv ==
    /\ line_size <= Wrap /\ declared <= Wrap
    /\ chunk \in {"Size", "Newline1", "Body"} /\ line_size < Wrap => chunk_size = line_size
    /\ declared < Wrap => declared = chunks_size + (IF chunk = "Body" THEN chunk_size ELSE 0)
    /\ chunk = "Body" => chunk_len < chunk_size
    /\ chunk # "Body" => chunk_len = 0

ChunkInv ==
    /\ SizesInv
    /\ state \in {"HttpStart", "Headers"} => chunk = "SizeStart" /\ chunks_size = 0
    /\ state = "BodyChunk" => chunk # "Parsed"
    /\ state = "Parsed" => chunk \in {"SizeStart", "Parsed"}
    /\ chunk # "SizeStart" => encoding = Chunked /\ state \in {"BodyChunk", "Parsed"}

\* What of the blank line has been matched in each state.
BlankSoFar ==
    IF state = "HttpStart" THEN (IF line = "Newline1" THEN 1 ELSE 0)
    ELSE IF state = "Headers"
    THEN CASE header = "LineStart" -> 2
           [] header = "Newline2" -> 1
           [] header = "Newline3" -> 3
           [] OTHER -> 0
    ELSE 4

BlankInv == result # "Error" => blank = BlankSoFar

ResponseInv == ResponseTypeOK /\ StatusLineInv /\ KeysInv /\ LengthInv /\ ChunkInv /\ BlankInv

-----------------------------------------------------------------------------
\* What is left alone keeps its part of the invariant.
LEMMA ExpectedStays ==
  ASSUME UNCHANGED content_length
  PROVE  ExpectedLength' = ExpectedLength
BY DEF ExpectedLength

\* A character of the status line.
LEMMA LineStep ==
  ASSUME ResponseInv, result = "InProgress", NEW ch \in Chars, NEW code \in Codes,
         LineChar(ch, code), blank' = MatchBlankLine(blank, ch)
  PROVE  ResponseInv'
<1> USE ResponseAssumption DEF ResponseInv
<1>1. state = "HttpStart" /\ header = "LineStart" /\ line # "Parsed" /\ body_len = 0
      /\ key_size = 0 /\ value_size = 0 /\ readed_count = 0
  BY DEF LineChar, StatusLineInv, KeysInv, LengthInv
<1>2. result' \in {"InProgress", "Error"} /\ state' \in {"HttpStart", "Headers"}
  BY <1>1 DEF LineChar, FixedChar, MinorChar, CodeChar, TextChar, RejectLine, GoToLine
<1>3. line' \in LineStates /\ {minor_size', code_size', text_size'} \subseteq Nat
  BY <1>1 DEF LineChar, FixedChar, MinorChar, CodeChar, TextChar, RejectLine, GoToLine,
     FixedChars, AfterFixed, ResponseTypeOK, LineStates, lineVars
<1>4. text_size' <= MaxText /\ (line' = "Parsed" <=> state' # "HttpStart")
  BY <1>1 DEF LineChar, FixedChar, MinorChar, CodeChar, TextChar, RejectLine, GoToLine,
     ResponseTypeOK, StatusLineInv, lineVars
<1>5. UNCHANGED <<headerVars, bodyVars, chunkVars>>
  BY DEF LineChar
<1>6. ResponseTypeOK'
  BY <1>2, <1>3, <1>5 DEF ResponseTypeOK, headerVars, bodyVars, chunkVars, MatchBlankLine
<1>9. BlankInv'
  <2> SUFFICES ASSUME result' # "Error" PROVE blank' = BlankSoFar'
    BY DEF BlankInv
  <2>1. blank = IF line = "Newline1" THEN 1 ELSE 0
    BY <1>1 DEF BlankInv, BlankSoFar
  <2>2. header' = "LineStart"
    BY <1>1, <1>5 DEF headerVars
  <2>3. blank' = IF line' = "Newline1" THEN 1 ELSE IF line' = "Parsed" THEN 2 ELSE 0
    <3>1. CASE FixedChar(ch)
      BY <1>1, <2>1, <3>1 DEF FixedChar, RejectLine, GoToLine, FixedChars, AfterFixed, MatchBlankLine, DigitChars
    <3>2. CASE MinorChar(ch)
      BY <1>1, <2>1, <3>2 DEF MinorChar, RejectLine, GoToLine, MatchBlankLine, DigitChars
    <3>3. CASE CodeChar(ch, code)
      BY <1>1, <2>1, <3>3 DEF CodeChar, RejectLine, GoToLine, MatchBlankLine, DigitChars
    <3>4. CASE TextChar(ch)
      BY <1>1, <2>1, <3>4 DEF TextChar, RejectLine, GoToLine, MatchBlankLine, Ctl
    <3> QED BY <3>1, <3>2, <3>3, <3>4 DEF LineChar
  <2> QED BY <1>2, <1>4, <2>2, <2>3 DEF BlankSoFar
<1>7. KeysInv'
  BY <1>1, <1>2, <1>5 DEF KeysInv, headerVars
<1>8. LengthInv' /\ ChunkInv'
  BY <1>1, <1>2, <1>5 DEF LengthInv, ChunkInv, SizesInv, headerVars, bodyVars, chunkVars
<1> QED BY <1>2, <1>4, <1>6, <1>7, <1>8, <1>9 DEF StatusLineInv

\* The section ends only after the line break of its empty line.
LEMMA NextHeaderStep ==
  ASSUME header \in HeaderStates, header # "Parsed", NEW ch
  PROVE  /\ NextHeader(ch) \in HeaderStates \cup {"Error"}
         /\ NextHeader(ch) = "Parsed" => header = "Newline3"
<1>1. CASE header = "LineStart"
  BY <1>1 DEF NextHeader, HeaderStates
<1>2. CASE header = "Name"
  BY <1>2 DEF NextHeader, HeaderStates
<1>3. CASE header = "Lws"
  BY <1>3 DEF NextHeader, HeaderStates
<1>4. CASE header = "Value"
  BY <1>4 DEF NextHeader, HeaderStates
<1>5. CASE header \in {"Newline2", "Newline3"}
  BY <1>5 DEF NextHeader, HeaderStates
<1> QED BY <1>1, <1>2, <1>3, <1>4, <1>5 DEF HeaderStates

\* A state of the headers stands for what of the blank line precedes it.
LEMMA NextHeaderBlank ==
  ASSUME header \in HeaderStates, header # "Parsed", NEW ch, NextHeader(ch) # "Error",
         key_size # 0 => header # "LineStart",
         blank = CASE header = "LineStart" -> 2
                   [] header = "Newline2" -> 1
                   [] header = "Newline3" -> 3
                   [] OTHER -> 0
  PROVE  MatchBlankLine(blank, ch) =
           CASE NextHeader(ch) = "LineStart" -> 2
             [] NextHeader(ch) = "Newline2" -> 1
             [] NextHeader(ch) = "Newline3" -> 3
             [] NextHeader(ch) = "Parsed" -> 4
             [] OTHER -> 0
<1>1. CASE header = "LineStart"
  BY <1>1 DEF NextHeader, MatchBlankLine, NameChars, DigitChars
<1>2. CASE header = "Name"
  BY <1>2 DEF NextHeader, MatchBlankLine, NameChars, DigitChars
<1>3. CASE header \in {"Lws", "Value"}
  BY <1>3 DEF NextHeader, MatchBlankLine, Ctl
<1>4. CASE header \in {"Newline2", "Newline3"}
  BY <1>4 DEF NextHeader, MatchBlankLine
<1> QED BY <1>1, <1>2, <1>3, <1>4 DEF HeaderStates

\* A character of the headers.
LEMMA HeaderStep ==
  ASSUME ResponseInv, result = "InProgress", NEW ch \in Chars, NEW n \in Meanings,
         HeaderChar(ch, n), blank' = MatchBlankLine(blank, ch)
  PROVE  ResponseInv'
<1> USE ResponseAssumption, MaxBodyAssumption DEF ResponseInv
<1> DEFINE next == NextHeader(ch)
<1>1. state = "Headers" /\ line = "Parsed" /\ header # "Parsed" /\ body_len = 0
      /\ chunk = "SizeStart" /\ chunks_size = 0 /\ readed_count' = readed_count + 1
      /\ UNCHANGED <<lineVars, body_len, chunkVars>>
  BY DEF HeaderChar, StatusLineInv, KeysInv, LengthInv, ChunkInv
<1>2. key_size \in Nat /\ value_size \in Nat /\ readed_count \in Nat /\ header \in HeaderStates
  BY DEF ResponseTypeOK
<1>b. blank' \in 0..4
  BY DEF ResponseTypeOK, MatchBlankLine
<1>3. CASE readed_count + 1 > MaxHeaders \/ next = "Error"
  <2>1. RejectHeader
    BY <1>3 DEF HeaderChar
  <2>2. ResponseTypeOK'
    BY <1>1, <1>2, <1>b, <2>1 DEF RejectHeader, ResponseTypeOK, lineVars, chunkVars
  <2>3. StatusLineInv' /\ KeysInv'
    BY <1>1, <1>2, <2>1 DEF RejectHeader, StatusLineInv, KeysInv, lineVars
  <2>4. LengthInv' /\ ChunkInv'
    BY <1>1, <2>1, ExpectedStays DEF RejectHeader, LengthInv, ChunkInv, SizesInv, chunkVars
  <2>5. BlankInv'
    BY <2>1 DEF RejectHeader, BlankInv
  <2> QED BY <2>2, <2>3, <2>4, <2>5
<1>4. CASE readed_count + 1 <= MaxHeaders /\ next # "Error"
  <2>1. /\ header' = next /\ AddHeaderChar(next, n)
        /\ IF next = "Parsed" THEN BeginBody
           ELSE result' = "InProgress" /\ UNCHANGED <<state, body_size>>
    BY <1>2, <1>4 DEF HeaderChar
  <2>2. next \in HeaderStates /\ (next = "Parsed" => header = "Newline3")
    BY <1>1, <1>2, <1>4, NextHeaderStep
  <2>3. /\ content_length' \in Lengths \cup {NoLength, InvalidLength}
        /\ encoding' \in {NoLength, Chunked, OtherEncoding}
        /\ header # "Newline2" => UNCHANGED <<content_length, encoding>>
    BY <2>1 DEF AddHeaderChar, AddHeader, ResponseTypeOK, Meanings
  <2>4. \/ key_size' = key_size /\ value_size' = value_size
        \/ key_size' = key_size + 1 /\ value_size' = value_size
        \/ key_size' = key_size /\ value_size' = value_size + 1
        \/ key_size' = 0 /\ value_size' = 0
    BY <2>1 DEF AddHeaderChar, AddHeader
  <2>5. /\ next \in {"LineStart", "Newline3", "Parsed"} => key_size' = 0 /\ value_size' = 0
        /\ next \in {"Name", "Lws", "Value", "Newline2"} => key_size' # 0
    <3>1. CASE header = "LineStart"
      BY <1>1, <1>2, <1>4, <2>1, <3>1 DEF NextHeader, AddHeaderChar, KeysInv
    <3>2. CASE header = "Name"
      BY <1>1, <1>2, <1>4, <2>1, <3>2 DEF NextHeader, AddHeaderChar, KeysInv
    <3>3. CASE header \in {"Lws", "Value"}
      BY <1>1, <1>2, <1>4, <2>1, <3>3 DEF NextHeader, AddHeaderChar, KeysInv
    <3>4. CASE header \in {"Newline2", "Newline3"}
      BY <1>1, <1>2, <1>4, <2>1, <3>4 DEF NextHeader, AddHeaderChar, AddHeader, KeysInv
    <3> QED BY <1>1, <1>2, <3>1, <3>2, <3>3, <3>4 DEF HeaderStates
  <2>6. ExpectedLength \in Nat /\ (header # "Newline2" => ExpectedLength' = ExpectedLength)
    BY <2>3, ExpectedStays DEF ExpectedLength, Lengths
  <2>b. blank' = CASE next = "LineStart" -> 2
                   [] next = "Newline2" -> 1
                   [] next = "Newline3" -> 3
                   [] next = "Parsed" -> 4
                   [] OTHER -> 0
    <3>1. key_size # 0 => header # "LineStart"
      BY DEF KeysInv
    <3>2. blank = CASE header = "LineStart" -> 2
                    [] header = "Newline2" -> 1
                    [] header = "Newline3" -> 3
                    [] OTHER -> 0
      BY <1>1 DEF BlankInv, BlankSoFar
    <3> QED BY <1>1, <1>2, <1>4, <3>1, <3>2, NextHeaderBlank
  <2>7. CASE next # "Parsed"
    <3>1. result' = "InProgress" /\ UNCHANGED <<state, body_size>>
      BY <2>1, <2>7
    <3>2. ResponseTypeOK'
      BY <1>1, <1>2, <1>b, <2>1, <2>2, <2>3, <2>4, <3>1 DEF ResponseTypeOK, lineVars, chunkVars
    <3>3. StatusLineInv'
      BY <1>1, <3>1 DEF StatusLineInv, lineVars
    <3>4. KeysInv'
      <4>1. /\ key_size' + value_size' <= readed_count'
            /\ key_size' + value_size' <= MaxHeaders /\ readed_count' <= MaxHeaders
        BY <1>1, <1>2, <1>4, <2>4 DEF KeysInv
      <4>2. header' # "Parsed" /\ state' = "Headers"
        BY <1>1, <2>1, <2>7, <3>1
      <4> QED BY <2>1, <2>5, <4>1, <4>2 DEF KeysInv
    <3>5. LengthInv' /\ ChunkInv'
      BY <1>1, <3>1 DEF LengthInv, ChunkInv, SizesInv, chunkVars
    <3>6. BlankInv'
      BY <1>1, <2>1, <2>7, <2>b, <3>1 DEF BlankInv, BlankSoFar
    <3> QED BY <3>2, <3>3, <3>4, <3>5, <3>6
  <2>8. CASE next = "Parsed"
    <3>1. /\ BeginBody /\ UNCHANGED <<content_length, encoding>>
          /\ ExpectedLength' = ExpectedLength
      BY <2>1, <2>2, <2>3, <2>6, <2>8
    <3>2. /\ state' \in {"Body", "BodyChunk", "Parsed"} /\ body_size' \in Nat
          /\ result' \in {"InProgress", "Ok"} /\ (result' = "Ok" <=> state' = "Parsed")
      BY <2>6, <3>1 DEF BeginBody, ResponseTypeOK
    <3>3. ResponseTypeOK'
      BY <1>1, <1>2, <1>b, <2>1, <2>2, <2>3, <2>4, <3>2 DEF ResponseTypeOK, lineVars, chunkVars
    <3>4. StatusLineInv' /\ KeysInv'
      BY <1>1, <1>2, <1>4, <2>1, <2>4, <2>5, <2>8, <3>2 DEF StatusLineInv, KeysInv, lineVars
    <3>5. LengthInv'
      BY <1>1, <2>6, <3>1, <3>2 DEF LengthInv, BeginBody, chunkVars
    <3>6. ChunkInv'
      BY <1>1, <3>1, <3>2 DEF ChunkInv, SizesInv, chunkVars
    <3>7. BlankInv'
      BY <2>8, <2>b, <3>2 DEF BlankInv, BlankSoFar
    <3> QED BY <3>3, <3>4, <3>5, <3>6, <3>7
  <2> QED BY <2>7, <2>8
<1> QED BY <1>2, <1>3, <1>4

\* A character of a body with a length.
LEMMA BodyStep ==
  ASSUME ResponseInv, result = "InProgress", BodyChar, UNCHANGED blank
  PROVE  ResponseInv'
<1> USE ResponseAssumption DEF ResponseInv
<1>1. state = "Body" /\ line = "Parsed" /\ header = "Parsed" /\ encoding # Chunked
      /\ body_size = ExpectedLength /\ body_len < body_size /\ body_len \in Nat
      /\ body_size \in Nat /\ chunk = "SizeStart"
  BY DEF BodyChar, StatusLineInv, KeysInv, LengthInv, ChunkInv, ResponseTypeOK
<1>2. UNCHANGED <<lineVars, headerVars, body_size, chunkVars>> /\ body_len' = body_len + 1
  BY DEF BodyChar
<1>3. ExpectedLength' = ExpectedLength
  BY <1>2, ExpectedStays DEF headerVars
<1>4. \/ state' = "Body" /\ result' = "InProgress" /\ body_len' < body_size
      \/ state' = "Parsed" /\ result' = "Ok" /\ body_len' = body_size
  BY <1>1 DEF BodyChar
<1>5. ResponseTypeOK'
  BY <1>1, <1>2, <1>4 DEF ResponseTypeOK, lineVars, headerVars, chunkVars
<1>6. StatusLineInv' /\ KeysInv'
  BY <1>1, <1>2, <1>4 DEF StatusLineInv, KeysInv, lineVars, headerVars
<1>7. LengthInv'
  BY <1>1, <1>2, <1>3, <1>4 DEF LengthInv, headerVars
<1>8. ChunkInv'
  BY <1>1, <1>2, <1>4 DEF ChunkInv, SizesInv, headerVars, chunkVars
<1>9. BlankInv'
  BY <1>1, <1>4 DEF BlankInv, BlankSoFar
<1> QED BY <1>5, <1>6, <1>7, <1>8, <1>9

\* A digit that does not push the declared size to Wrap does not make the
\* computed one wrap either.
LEMMA DigitOfSize ==
  ASSUME NEW size \in 0..(Wrap - 1), NEW exact \in 0..Wrap, NEW v \in 0..15,
         exact < Wrap => size = exact
  PROVE  /\ (size * 16 + v) % Wrap \in 0..(Wrap - 1)
         /\ UpToWrap(exact * 16 + v) \in 0..Wrap
         /\ UpToWrap(exact * 16 + v) < Wrap
            => (size * 16 + v) % Wrap = UpToWrap(exact * 16 + v)
<1> USE ResponseAssumption
<1>1. size * 16 + v \in Nat /\ exact * 16 + v \in Nat
  OBVIOUS
<1>2. (size * 16 + v) % Wrap \in 0..(Wrap - 1)
  BY <1>1
<1>3. UpToWrap(exact * 16 + v) \in 0..Wrap
  BY <1>1 DEF UpToWrap
<1>4. ASSUME UpToWrap(exact * 16 + v) < Wrap
      PROVE  (size * 16 + v) % Wrap = UpToWrap(exact * 16 + v)
  <2>1. UpToWrap(exact * 16 + v) = exact * 16 + v /\ exact * 16 + v < Wrap
    BY <1>1, <1>4 DEF UpToWrap
  <2>2. size = exact
    BY <2>1
  <2>3. \A k \in 0..(Wrap - 1) : k % Wrap = k
    OBVIOUS
  <2> QED BY <1>1, <2>1, <2>2, <2>3
<1> QED BY <1>2, <1>3, <1>4

\* A character of a chunked body.
LEMMA ChunkStep ==
  ASSUME ResponseInv, result = "InProgress", NEW ch \in Chars, NEW v \in 0..16,
         ChunkChar(ch, v), UNCHANGED blank
  PROVE  ResponseInv'
<1> USE ResponseAssumption DEF ResponseInv
<1>1. state = "BodyChunk" /\ line = "Parsed" /\ header = "Parsed" /\ encoding = Chunked
      /\ chunk # "Parsed" /\ body_len = 0 /\ text_size <= MaxText
  BY DEF ChunkChar, StatusLineInv, KeysInv, LengthInv, ChunkInv
<1>2. /\ chunk_size \in 0..(Wrap - 1) /\ chunk_len \in Nat /\ chunks_size \in Nat
      /\ declared \in 0..Wrap /\ line_size \in 0..Wrap /\ body_size \in Nat
  BY DEF ResponseTypeOK, ChunkInv, SizesInv
<1>3. UNCHANGED <<lineVars, headerVars>> /\ chunk_chars' \in Nat
  BY DEF ChunkChar, ResponseTypeOK
<1> DEFINE Shape ==
      /\ \/ UNCHANGED <<state, bodyVars>> /\ result' # "Ok" /\ chunk' # "Parsed"
         \/ /\ state' = "Parsed" /\ result' = "Ok" /\ chunk' = "Parsed"
            /\ body_len' = chunks_size' /\ body_size' = chunks_size'
      /\ result' \in {"InProgress", "Ok", "Error", "Terminated"}
      /\ chunk' \in ChunkStates
      /\ chunk_size' \in 0..(Wrap - 1) /\ chunk_len' \in Nat /\ chunks_size' \in Nat
      /\ declared' \in 0..Wrap /\ line_size' \in 0..Wrap
<1>4. ASSUME Shape, SizesInv' PROVE ResponseInv'
  <2>1. state' \in {"BodyChunk", "Parsed"} /\ body_len' \in Nat /\ body_size' \in Nat
    BY <1>1, <1>2, <1>4 DEF bodyVars
  <2>2. ResponseTypeOK'
    BY <1>2, <1>3, <1>4, <2>1 DEF ResponseTypeOK, lineVars, headerVars
  <2>3. StatusLineInv'
    BY <1>1, <1>3, <1>4 DEF StatusLineInv, lineVars
  <2>4. KeysInv'
    BY <1>1, <1>3, <2>1 DEF KeysInv, headerVars
  <2>5. LengthInv'
    BY <1>1, <1>3, <1>4, <2>1 DEF LengthInv, headerVars, bodyVars
  <2>6. ChunkInv'
    BY <1>1, <1>3, <1>4, <2>1 DEF ChunkInv, headerVars
  <2>7. BlankInv'
    BY <1>1, <2>1 DEF BlankInv, BlankSoFar
  <2> QED BY <2>2, <2>3, <2>4, <2>5, <2>6, <2>7
<1>5. CASE RejectChunk
  <2>1. Shape
    BY <1>1, <1>2, <1>5 DEF RejectChunk, ResponseTypeOK
  <2>2. SizesInv'
    BY <1>5 DEF RejectChunk, ChunkInv, SizesInv
  <2> QED BY <1>4, <2>1, <2>2
<1>6. CASE SizeChar(ch, v) /\ ~RejectChunk
  <2> DEFINE so_far == IF chunk = "SizeStart" THEN 0 ELSE chunk_size
             exact == IF chunk = "SizeStart" THEN 0 ELSE line_size
  <2>1. /\ chunk \in {"SizeStart", "Size"} /\ chunk_len = 0
        /\ so_far \in 0..(Wrap - 1) /\ exact \in 0..Wrap /\ (exact < Wrap => so_far = exact)
    BY <1>2, <1>6 DEF SizeChar, ChunkInv, SizesInv
  <2>2. UNCHANGED <<state, bodyVars, chunk_len, chunks_size, declared>> /\ result' = "InProgress"
    BY <1>6 DEF SizeChar, GoToChunk
  <2>3. CASE ch = "cr"
    <3>1. chunk' = "Newline1" /\ chunk_size' = so_far /\ line_size' = exact
      BY <1>6, <2>3 DEF SizeChar, GoToChunk
    <3>2. Shape
      BY <1>2, <2>1, <2>2, <3>1 DEF ChunkStates
    <3>3. SizesInv'
      BY <1>2, <2>1, <2>2, <3>1 DEF ChunkInv, SizesInv
    <3> QED BY <1>4, <3>2, <3>3
  <2>4. CASE ch # "cr"
    <3>1. /\ v \in 0..15 /\ chunk' = "Size"
          /\ chunk_size' = (so_far * 16 + v) % Wrap /\ line_size' = UpToWrap(exact * 16 + v)
      BY <1>6, <2>4 DEF SizeChar, GoToChunk
    <3>2. /\ chunk_size' \in 0..(Wrap - 1) /\ line_size' \in 0..Wrap
          /\ line_size' < Wrap => chunk_size' = line_size'
      <4> HIDE DEF so_far, exact
      <4> QED BY <2>1, <3>1, DigitOfSize
    <3>3. Shape
      BY <1>2, <2>1, <2>2, <3>1, <3>2 DEF ChunkStates
    <3>4. SizesInv'
      BY <1>2, <2>1, <2>2, <3>1, <3>2 DEF ChunkInv, SizesInv
    <3> QED BY <1>4, <3>3, <3>4
  <2> QED BY <2>3, <2>4
<1>7. CASE SizeEnd(ch) /\ ~RejectChunk
  <2>1. /\ chunk = "Newline1" /\ chunk_len = 0 /\ declared' = UpToWrap(declared + line_size)
        /\ UNCHANGED <<chunk_size, chunk_len, chunks_size, line_size>>
    BY <1>7 DEF SizeEnd, ChunkInv, SizesInv
  <2>2. /\ declared' \in 0..Wrap
        /\ declared' < Wrap => declared' = chunks_size + chunk_size
    <3>1. declared + line_size \in Nat /\ declared' \in 0..Wrap
      BY <1>2, <2>1 DEF UpToWrap
    <3>2. ASSUME declared' < Wrap PROVE declared' = chunks_size + chunk_size
      <4>1. declared' = declared + line_size /\ declared < Wrap /\ line_size < Wrap
        BY <1>2, <2>1, <3>1, <3>2 DEF UpToWrap
      <4>2. declared = chunks_size /\ chunk_size = line_size
        BY <1>2, <2>1, <4>1 DEF ChunkInv, SizesInv
      <4> QED BY <4>1, <4>2
    <3> QED BY <3>1, <3>2
  <2>3. CASE chunk_size = 0
    <3>1. /\ chunk' = "Parsed" /\ state' = "Parsed" /\ result' = "Ok"
          /\ body_len' = chunks_size /\ body_size' = chunks_size
      BY <1>7, <2>3 DEF SizeEnd
    <3>2. Shape
      BY <1>2, <2>1, <2>2, <3>1 DEF ChunkStates
    <3>3. SizesInv'
      BY <1>2, <2>1, <2>2, <2>3, <3>1 DEF ChunkInv, SizesInv
    <3> QED BY <1>4, <3>2, <3>3
  <2>4. CASE chunk_size # 0
    <3>1. chunk' = "Body" /\ UNCHANGED <<state, bodyVars>> /\ result' \in {"InProgress", "Terminated"}
      BY <1>7, <2>4 DEF SizeEnd
    <3>2. Shape
      BY <1>2, <2>1, <2>2, <3>1 DEF ChunkStates
    <3>3. SizesInv'
      BY <1>2, <2>1, <2>2, <2>4, <3>1 DEF ChunkInv, SizesInv
    <3> QED BY <1>4, <3>2, <3>3
  <2> QED BY <2>3, <2>4
<1>8. CASE ChunkData
  <2>1. /\ chunk = "Body" /\ chunk_len < chunk_size
        /\ UNCHANGED <<state, bodyVars, declared, line_size>> /\ result' = "InProgress"
    BY <1>8 DEF ChunkData, GoToChunk, ChunkInv, SizesInv
  <2>2. \/ /\ chunk_len + 1 # chunk_size /\ chunk' = "Body" /\ chunk_len' = chunk_len + 1
           /\ UNCHANGED <<chunk_size, chunks_size>>
        \/ /\ chunk_len + 1 = chunk_size /\ chunk' = "BodyExpectNewLine"
           /\ chunks_size' = chunks_size + chunk_size /\ chunk_len' = 0 /\ chunk_size' = 0
    BY <1>2, <1>8 DEF ChunkData, GoToChunk
  <2>3. Shape
    BY <1>2, <2>1, <2>2 DEF ChunkStates
  <2>4. SizesInv'
    BY <1>2, <2>1, <2>2 DEF ChunkInv, SizesInv
  <2> QED BY <1>4, <2>3, <2>4
<1>9. CASE ChunkEnd(ch) /\ ~RejectChunk
  <2>1. /\ chunk \in {"BodyExpectNewLine", "Newline2"} /\ chunk' \in {"Newline2", "SizeStart"}
        /\ UNCHANGED <<state, bodyVars, chunk_size, chunk_len, chunks_size, declared, line_size>>
        /\ result' = "InProgress"
    BY <1>9 DEF ChunkEnd, GoToChunk
  <2>2. Shape
    BY <1>2, <2>1 DEF ChunkStates
  <2>3. SizesInv'
    BY <1>2, <2>1 DEF ChunkInv, SizesInv
  <2> QED BY <1>4, <2>2, <2>3
<1> QED BY <1>5, <1>6, <1>7, <1>8, <1>9 DEF ChunkChar

-----------------------------------------------------------------------------
\* The inductive invariant of the response parser, after any input.
THEOREM ResponseInvariance == ResponseSpec => []ResponseInv
<1>1. ResponseInit => ResponseInv
  BY ResponseAssumption, MaxBodyAssumption
  DEF ResponseInit, ResponseInv, ResponseTypeOK, StatusLineInv, KeysInv, LengthInv,
      ChunkInv, SizesInv, BlankInv, BlankSoFar, LineStates, HeaderStates, ChunkStates,
      Lengths, NoLength, InvalidLength, Chunked, OtherEncoding
<1>2. ResponseInv /\ [ResponseNext]_responseVars => ResponseInv'
  <2> SUFFICES ASSUME ResponseInv, [ResponseNext]_responseVars PROVE ResponseInv'
    OBVIOUS
  <2>1. ASSUME ResponseNext PROVE ResponseInv'
    <3>1. PICK ch \in Chars : \E code \in AskedCodes, n \in AskedMeanings, v \in AskedDigits(ch) :
               ParseChar(ch, code, n, v)
      BY <2>1 DEF ResponseNext
    <3>2. PICK code \in AskedCodes, n \in AskedMeanings, v \in AskedDigits(ch) :
               ParseChar(ch, code, n, v)
      BY <3>1
    <3>3. code \in Codes /\ n \in Meanings /\ v \in 0..16
      BY <3>2 DEF AskedCodes, Codes, AskedMeanings, Meanings, AskedDigits, GetHex
    <3>4. result = "InProgress"
      BY <3>2 DEF ParseChar
    <3>5. CASE LineChar(ch, code) /\ blank' = MatchBlankLine(blank, ch)
      BY <3>3, <3>4, <3>5, LineStep
    <3>6. CASE HeaderChar(ch, n) /\ blank' = MatchBlankLine(blank, ch)
      BY <3>3, <3>4, <3>6, HeaderStep
    <3>7. CASE BodyChar /\ UNCHANGED blank
      BY <3>4, <3>7, BodyStep
    <3>8. CASE ChunkChar(ch, v) /\ UNCHANGED blank
      BY <3>3, <3>4, <3>8, ChunkStep
    <3> QED BY <3>2, <3>5, <3>6, <3>7, <3>8 DEF ParseChar
  <2>2. CASE UNCHANGED responseVars
    <3>1. UNCHANGED <<state, result, lineVars, headerVars, bodyVars, chunkVars, blank>>
      BY <2>2 DEF responseVars
    <3>2. ResponseTypeOK' /\ StatusLineInv' /\ KeysInv'
      BY <3>1 DEF ResponseInv, ResponseTypeOK, StatusLineInv, KeysInv, lineVars,
         headerVars, bodyVars, chunkVars
    <3>3. LengthInv' /\ ChunkInv'
      BY <3>1, ExpectedStays DEF ResponseInv, LengthInv, ChunkInv, SizesInv, headerVars,
         bodyVars, chunkVars
    <3>4. BlankInv'
      BY <3>1 DEF ResponseInv, BlankInv, BlankSoFar, lineVars, headerVars
    <3> QED BY <3>2, <3>3, <3>4 DEF ResponseInv
  <2> QED BY <2>1, <2>2
<1> QED BY <1>1, <1>2, PTL DEF ResponseSpec

\* Type correctness: in particular chunk_size_ stays a size_t.
THEOREM ResponseTypeCorrect == ResponseSpec => []ResponseTypeOK
<1>1. ResponseInv => ResponseTypeOK
  BY DEF ResponseInv
<1> QED BY <1>1, ResponseInvariance, PTL

\* The strings of the response parser, two of which are written without a check,
\* never overrun their arrays, whatever the sizes and the input.
THEOREM ResponseBuffersCorrect == ResponseSpec => []ResponseBuffersInBounds
<1>1. ResponseInv => ResponseBuffersInBounds
  BY DEF ResponseInv, StatusLineInv, KeysInv, ResponseBuffersInBounds
<1> QED BY <1>1, ResponseInvariance, PTL

\* Every response that Parse accepts passes the assertion of PopHeaders.
THEOREM ResponseReadyCorrect == ResponseSpec => []ResponseReadyToPop
<1>1. ResponseInv => ResponseReadyToPop
  BY DEF ResponseInv, StatusLineInv, KeysInv, ResponseReadyToPop
<1> QED BY <1>1, ResponseInvariance, PTL

\* The body has the declared length, for any number and size of chunks whose
\* sizes together fit a size_t.
THEOREM BodyAsDeclaredCorrect == ResponseSpec => []BodyAsDeclared
<1>1. ASSUME ResponseInv PROVE BodyAsDeclared
  <2>1. result = "Ok" => state = "Parsed"
    BY <1>1 DEF ResponseInv, StatusLineInv
  <2>2. state = "Parsed" /\ encoding # Chunked => body_len = ExpectedLength
    BY <1>1 DEF ResponseInv, LengthInv
  <2>3. ASSUME state = "Parsed", encoding = Chunked, declared < Wrap
        PROVE  body_len = declared
    <3>1. body_len = chunks_size /\ SizesInv
      BY <1>1, <2>3 DEF ResponseInv, LengthInv, ChunkInv
    <3>2. chunk # "Body"
      BY <1>1, <2>3 DEF ResponseInv, ChunkInv
    <3> QED BY <1>1, <2>3, <3>1, <3>2 DEF SizesInv, ResponseInv, ResponseTypeOK
  <2>4. chunk = "Body" => chunk_len < chunk_size
    BY <1>1 DEF ResponseInv, ChunkInv, SizesInv
  <2> QED BY <2>1, <2>2, <2>3, <2>4 DEF BodyAsDeclared
<1> QED BY <1>1, ResponseInvariance, PTL

\* The head of a response ends with its first blank line, whatever the input and
\* however the body is framed.
THEOREM ResponseHeadEndsCorrect == ResponseSpec => []ResponseHeadEndsAtFirstBlankLine
<1>1. ResponseInv => ResponseHeadEndsAtFirstBlankLine
  BY DEF ResponseInv, ResponseTypeOK, BlankInv, BlankSoFar, ResponseHeadEndsAtFirstBlankLine
<1> QED BY <1>1, ResponseInvariance, PTL

-----------------------------------------------------------------------------
(***************************************************************************)
(* What the parser makes of a response.  A response is described by the    *)
(* places where its parts end: of the first line q.minor, q.code and       *)
(* q.text, of the i-th header q.colon[i], q.lws[i] and q.end[i], of the    *)
(* j-th chunk q.size[j] and q.at[j].  q.len[i] and q.enc[i] are what the   *)
(* first i headers say of the body, q.val[j][i] is the value of the first  *)
(* i digits of the j-th size line, and q.num[j] that of all of them.       *)
(***************************************************************************)

IsStatusLine(t, q) ==
    /\ q.minor \in Nat /\ 8 <= q.minor /\ q.minor < 7 + MaxMinor
    /\ q.code \in Nat /\ q.minor + 2 <= q.code /\ q.code <= q.minor + 2 + MaxCode
    /\ q.text \in Nat /\ q.code <= q.text /\ q.text <= q.code + 1 + MaxText
    /\ t[1].ch = "h" /\ t[2].ch = "t" /\ t[3].ch = "t" /\ t[4].ch = "p" /\ t[5].ch = "slash"
    /\ t[6].ch \in {"0", "1"} /\ t[7].ch = "dot"
    /\ \A i \in 8..q.minor : t[i].ch \in DigitChars
    /\ t[q.minor + 1].ch = "sp"
    /\ \A i \in (q.minor + 2)..q.code : t[i].ch \in DigitChars
    /\ q.code < q.text => t[q.code + 1].ch \in {"sp", "tab"}
    /\ \A i \in (q.code + 2)..q.text : t[i].ch \notin Ctl
    /\ t[q.text + 1].ch = "cr" /\ t[q.text + 2].ch = "lf"

IsHeaderLine(t, q, i) ==
    /\ q.colon[i] \in Nat /\ q.end[i - 1] + 2 <= q.colon[i]
    /\ q.lws[i] \in Nat /\ q.colon[i] <= q.lws[i] /\ q.lws[i] + 2 <= q.end[i]
    /\ \A j \in (q.end[i - 1] + 1)..(q.colon[i] - 1) : t[j].ch \in NameChars
    /\ t[q.colon[i]].ch = "colon"
    /\ \A j \in (q.colon[i] + 1)..q.lws[i] : t[j].ch \in {"sp", "tab"}
    /\ \A j \in (q.lws[i] + 1)..(q.end[i] - 2) : t[j].ch \notin Ctl
    /\ q.lws[i] + 1 < q.end[i] - 1 => t[q.lws[i] + 1].ch # "sp"
    /\ t[q.end[i] - 1].ch = "cr" /\ t[q.end[i]].ch = "lf"
    /\ q.len[i] = IF q.len[i - 1] = NoLength /\ t[q.end[i]].n \in LengthKinds
                  THEN t[q.end[i]].n ELSE q.len[i - 1]
    /\ q.enc[i] = IF q.enc[i - 1] = NoLength /\ t[q.end[i]].n \in EncodingKinds
                  THEN t[q.end[i]].n ELSE q.enc[i - 1]

IsHead(t, q) ==
    /\ q.n \in Nat
    /\ \A i \in 0..q.n : q.end[i] \in Nat /\ q.end[i] <= q.end[q.n]
    /\ q.end[0] = q.text + 2 /\ q.len[0] = NoLength /\ q.enc[0] = NoLength
    /\ \A i \in 1..q.n : IsHeaderLine(t, q, i)
    /\ t[q.end[q.n] + 1].ch = "cr" /\ t[q.end[q.n] + 2].ch = "lf"
    /\ q.end[q.n] + 2 - q.end[0] <= MaxHeaders

BodyOf(q) == IF q.len[q.n] \in Lengths THEN q.len[q.n] ELSE 0

IsPlainBody(t, q) == q.enc[q.n] # Chunked /\ Len(t) = q.end[q.n] + 2 + BodyOf(q)

IsSizeLine(t, q, j) ==
    /\ q.at[j - 1] \in Nat /\ q.size[j] \in Nat /\ q.at[j - 1] < q.size[j]
    /\ q.val[j][0] = 0 /\ q.val[j][q.size[j] - q.at[j - 1]] = q.num[j]
    /\ \A i \in 1..(q.size[j] - q.at[j - 1]) :
          /\ t[q.at[j - 1] + i].ch # "cr" /\ t[q.at[j - 1] + i].v \in 0..15
          /\ q.val[j][i] \in 0..(Wrap - 1)
          /\ q.val[j][i] = q.val[j][i - 1] * 16 + t[q.at[j - 1] + i].v
    /\ t[q.size[j] + 1].ch = "cr" /\ t[q.size[j] + 2].ch = "lf"

IsChunk(t, q, j) ==
    /\ IsSizeLine(t, q, j)
    /\ q.num[j] \in 1..MaxReserve
    /\ q.at[j] = q.size[j] + q.num[j] + 4
    /\ t[q.at[j] - 1].ch = "cr" /\ t[q.at[j]].ch = "lf"

IsChunkedBody(t, q) ==
    /\ q.enc[q.n] = Chunked
    /\ q.m \in Nat /\ q.at[0] = q.end[q.n] + 2
    /\ \A j \in 0..q.m : q.at[j] \in Nat /\ q.at[j] <= q.at[q.m]
    /\ \A j \in 1..q.m : IsChunk(t, q, j)
    /\ IsSizeLine(t, q, q.m + 1) /\ q.num[q.m + 1] = 0
    /\ Len(t) = q.size[q.m + 1] + 2

IsResponse(t, q) ==
    /\ IsStatusLine(t, q)
    /\ IsHead(t, q)
    /\ IsPlainBody(t, q) \/ IsChunkedBody(t, q)

\* Where the parser is when it has read a part of a response, of the first line,
\* of the headers, and of either kind of body.
LinePlace(p, minor, code, last) ==
    /\ p = 0 => line = "H"
    /\ p = 1 => line = "T1"
    /\ p = 2 => line = "T2"
    /\ p = 3 => line = "P"
    /\ p = 4 => line = "Slash"
    /\ p = 5 => line = "MajorStart"
    /\ p = 6 => line = "Major"
    /\ p = 7 => line = "MinorStart"
    /\ p <= 7 => minor_size = 0
    /\ 7 < p /\ p <= minor => line = "Minor" /\ minor_size = p - 7
    /\ p = minor + 1 => line = "CodeStart"
    /\ p <= minor + 2 => code_size = 0
    /\ minor + 2 <= p /\ p <= code => line = "Code" /\ code_size = p - minor - 2
    /\ p <= code + 1 => text_size = 0
    /\ code < p /\ p <= last => line = "StatusText" /\ text_size = p - code - 1
    /\ p = last + 1 => line = "Newline1"

LineReads(q) ==
    /\ pos < q.text + 2
    /\ state = "HttpStart" /\ header = "LineStart" /\ readed_count = 0
    /\ key_size = 0 /\ value_size = 0 /\ content_length = NoLength /\ encoding = NoLength
    /\ body_len = 0 /\ chunk = "SizeStart" /\ chunk_len = 0
    /\ LinePlace(pos, q.minor, q.code, q.text)

HeaderReads(q) ==
    /\ q.end[0] <= pos /\ pos < q.end[q.n] + 2
    /\ state = "Headers" /\ body_len = 0 /\ chunk = "SizeStart" /\ chunk_len = 0
    /\ key_size \in Nat /\ value_size \in Nat
    /\ readed_count = pos - q.end[0]
    /\ \/ \E i \in 1..q.n :
             /\ q.end[i - 1] <= pos /\ pos < q.end[i]
             /\ content_length = q.len[i - 1] /\ encoding = q.enc[i - 1]
             /\ pos = q.end[i - 1] => header = "LineStart" /\ key_size = 0
             /\ q.end[i - 1] < pos => key_size # 0
             /\ q.end[i - 1] < pos /\ pos < q.colon[i] => header = "Name"
             /\ q.colon[i] <= pos /\ pos <= q.lws[i] => header = "Lws"
             /\ q.lws[i] < pos /\ pos < q.end[i] - 1 => header = "Value"
             /\ pos = q.end[i] - 1 => header = "Newline2"
       \/ /\ q.end[q.n] <= pos
          /\ content_length = q.len[q.n] /\ encoding = q.enc[q.n]
          /\ pos = q.end[q.n] => header = "LineStart" /\ key_size = 0
          /\ pos = q.end[q.n] + 1 => header = "Newline3"

PlainReads(q) ==
    /\ q.enc[q.n] # Chunked
    /\ q.end[q.n] + 2 <= pos
    /\ content_length = q.len[q.n] /\ encoding = q.enc[q.n] /\ body_size = BodyOf(q)
    /\ body_len = pos - q.end[q.n] - 2
    /\ state = IF body_len < body_size THEN "Body" ELSE "Parsed"

SizeReads(q, j) ==
    /\ q.at[j - 1] <= pos /\ pos < q.size[j] + 2
    /\ state = "BodyChunk" /\ chunk_len = 0
    /\ pos = q.at[j - 1] => chunk = "SizeStart"
    /\ q.at[j - 1] < pos /\ pos <= q.size[j]
       => chunk = "Size" /\ chunk_size = q.val[j][pos - q.at[j - 1]]
    /\ pos = q.size[j] + 1 => chunk = "Newline1" /\ chunk_size = q.num[j]

DataReads(q, j) ==
    /\ q.size[j] + 2 <= pos /\ pos < q.at[j]
    /\ state = "BodyChunk"
    /\ pos < q.at[j] - 2
       => chunk = "Body" /\ chunk_size = q.num[j] /\ chunk_len = pos - q.size[j] - 2
    /\ pos >= q.at[j] - 2 => chunk_len = 0
    /\ pos = q.at[j] - 2 => chunk = "BodyExpectNewLine"
    /\ pos = q.at[j] - 1 => chunk = "Newline2"

ChunkReads(q) ==
    /\ q.enc[q.n] = Chunked
    /\ \/ \E j \in 1..(q.m + 1) : SizeReads(q, j)
       \/ \E j \in 1..q.m : DataReads(q, j)
       \/ pos = q.size[q.m + 1] + 2 /\ state = "Parsed"

\* The parser has read a part of the response and nothing else, and is done when
\* and only when this part is all of it.
Reads(t, q) ==
    /\ pos \in Nat /\ pos <= Len(t)
    /\ result = IF pos = Len(t) THEN "Ok" ELSE "InProgress"
    /\ LineReads(q) \/ HeaderReads(q) \/ PlainReads(q) \/ ChunkReads(q)

\* The next character of a response, whose status code is a known one.
ReadNext(t) ==
    pos' = pos + 1 /\ ParseChar(t[pos + 1].ch, "known", t[pos + 1].n, t[pos + 1].v)

\* The head is before the end.
LEMMA HeadBeforeEnd ==
  ASSUME NEW t, NEW q, IsResponse(t, q)
  PROVE  /\ q.n \in Nat /\ q.end[0] \in Nat /\ q.end[q.n] \in Nat
         /\ q.end[0] = q.text + 2 /\ q.end[0] <= q.end[q.n]
         /\ Len(t) \in Nat /\ q.end[q.n] + 2 <= Len(t)
<1>1. /\ q.n \in Nat /\ q.end[0] \in Nat /\ q.end[q.n] \in Nat
      /\ q.end[0] = q.text + 2 /\ q.end[0] <= q.end[q.n]
  BY DEF IsResponse, IsHead
<1>2. CASE IsPlainBody(t, q)
  <2>1. BodyOf(q) \in Nat
    BY MaxBodyAssumption DEF BodyOf, Lengths
  <2> QED BY <1>1, <1>2, <2>1 DEF IsPlainBody
<1>3. CASE IsChunkedBody(t, q)
  <2>1. /\ q.m \in Nat /\ q.at[q.m] \in Nat /\ q.at[0] = q.end[q.n] + 2 /\ q.at[0] <= q.at[q.m]
        /\ IsSizeLine(t, q, q.m + 1) /\ Len(t) = q.size[q.m + 1] + 2
    BY <1>3 DEF IsChunkedBody
  <2>2. (q.m + 1) - 1 = q.m
    BY <2>1
  <2>3. q.size[q.m + 1] \in Nat /\ q.at[q.m] < q.size[q.m + 1]
    BY <2>1, <2>2 DEF IsSizeLine
  <2>4. PICK e \in Nat, a \in Nat, z \in Nat : e = q.end[q.n] /\ a = q.at[q.m] /\ z = q.size[q.m + 1]
    BY <1>1, <2>1, <2>3
  <2>5. e + 2 <= a /\ a < z /\ Len(t) = z + 2
    BY <2>1, <2>3, <2>4
  <2>6. e + 2 < z
    BY ONLY <2>5, e \in Nat, a \in Nat, z \in Nat
  <2>7. z + 2 \in Nat /\ e + 2 <= z + 2
    BY ONLY <2>6, e \in Nat, z \in Nat
  <2> QED BY <1>1, <2>4, <2>5, <2>7
<1> QED BY <1>1, <1>2, <1>3 DEF IsResponse

\* A response begins with what follows its first line.
LEMMA HeaderBegins ==
  ASSUME NEW t, NEW q, IsResponse(t, q), NEW p, p = q.end[0], pos' = p,
         state' = "Headers", header' = "LineStart", readed_count' = 0, key_size' = 0, value_size' = 0,
         content_length' = NoLength, encoding' = NoLength,
         body_len' = 0, chunk' = "SizeStart", chunk_len' = 0
  PROVE  HeaderReads(q)'
<1>1. /\ q.n \in Nat /\ q.end[0] \in Nat /\ q.end[q.n] \in Nat /\ q.end[0] <= q.end[q.n]
      /\ q.len[0] = NoLength /\ q.enc[0] = NoLength
  BY DEF IsResponse, IsHead
<1>2. q.end[0] <= pos' /\ pos' < q.end[q.n] + 2 /\ readed_count' = pos' - q.end[0]
  BY <1>1
<1>3. CASE q.n = 0
  BY <1>1, <1>2, <1>3 DEF HeaderReads
<1>4. CASE q.n # 0
  <2>1. 1 \in 1..q.n /\ 1 - 1 = 0
    BY <1>1, <1>4
  <2>2. IsHeaderLine(t, q, 1) /\ q.end[1] \in Nat
    BY <1>1, <2>1 DEF IsResponse, IsHead
  <2>3. q.colon[1] \in Nat /\ q.lws[1] \in Nat /\ q.end[0] + 2 <= q.colon[1] /\ q.colon[1] <= q.lws[1]
        /\ q.lws[1] + 2 <= q.end[1]
    BY <2>1, <2>2 DEF IsHeaderLine
  <2>4. pos' < q.end[1] /\ pos' = q.end[1 - 1] /\ ~(q.end[1 - 1] < pos') /\ ~(q.colon[1] <= pos') /\ ~(q.lws[1] < pos')
        /\ pos' # q.end[1] - 1 /\ q.end[1 - 1] <= pos'
    BY <1>1, <2>1, <2>2, <2>3
  <2> QED BY <1>1, <1>2, <2>1, <2>4 DEF HeaderReads
<1> QED BY <1>3, <1>4

\* A character of the first line.
LEMMA StatusLineRead ==
  ASSUME NEW t, NEW q, IsResponse(t, q), Reads(t, q), LineReads(q), ReadNext(t)
  PROVE  Reads(t, q)'
<1> USE ResponseAssumption
<1> DEFINE c == t[pos + 1]
<1>1. /\ pos \in Nat /\ pos' = pos + 1 /\ pos < q.text + 2 /\ LineChar(c.ch, "known")
  BY DEF ReadNext, ParseChar, LineReads, Reads, HeaderChar, BodyChar, ChunkChar
<1>2. /\ q.minor \in Nat /\ 8 <= q.minor /\ q.minor < 7 + MaxMinor
      /\ q.code \in Nat /\ q.minor + 2 <= q.code /\ q.code <= q.minor + 2 + MaxCode
      /\ q.text \in Nat /\ q.code <= q.text /\ q.text <= q.code + 1 + MaxText
  BY DEF IsResponse, IsStatusLine
<1>3. /\ q.end[0] = q.text + 2 /\ q.end[0] \in Nat /\ pos' \in Nat /\ pos' <= q.end[0] /\ pos' < Len(t)
  <2>1. /\ q.end[0] \in Nat /\ q.end[q.n] \in Nat
        /\ q.end[0] = q.text + 2 /\ q.end[0] <= q.end[q.n] /\ Len(t) \in Nat /\ q.end[q.n] + 2 <= Len(t)
    BY HeadBeforeEnd
  <2>2. PICK d \in Nat, z \in Nat, l \in Nat : d = q.text /\ z = q.end[q.n] /\ l = Len(t)
    BY <1>2, <2>1
  <2>3. d + 2 <= z /\ z + 2 <= l /\ q.end[0] = d + 2 /\ pos < d + 2
    BY <1>1, <2>1, <2>2
  <2>4. pos' \in Nat /\ pos' <= d + 2 /\ pos' < l
    BY <1>1, <2>3
  <2> QED BY <2>2, <2>3, <2>4
<1>4. UNCHANGED <<headerVars, bodyVars, chunkVars>> /\ state = "HttpStart"
  BY <1>1 DEF LineChar
<1>5. /\ header' = "LineStart" /\ readed_count' = 0 /\ key_size' = 0 /\ value_size' = 0
      /\ content_length' = NoLength /\ encoding' = NoLength
      /\ body_len' = 0 /\ chunk' = "SizeStart" /\ chunk_len' = 0
  BY <1>4 DEF LineReads, headerVars, bodyVars, chunkVars
<1>6. FixedChar(c.ch) \/ MinorChar(c.ch) \/ CodeChar(c.ch, "known") \/ TextChar(c.ch)
  BY <1>1 DEF LineChar
<1>7. state' = IF line' = "Parsed" THEN "Headers" ELSE "HttpStart"
  BY <1>1, <1>4 DEF LineChar
<1>s. IsStatusLine(t, q)
  BY DEF IsResponse
<1>t. \A i \in Nat : i = pos + 1 => c = t[i]
  OBVIOUS
<1> HIDE DEF c
<1> SUFFICES result' = "InProgress" /\ (LineReads(q)' \/ HeaderReads(q)')
  BY <1>3 DEF Reads
<1>17. PICK p \in Nat, a \in Nat, b \in Nat, d \in Nat :
          p = pos' /\ a = q.minor /\ b = q.code /\ d = q.text
  BY <1>2, <1>3
<1>e. p <= d + 2
  <2>1. pos' <= q.text + 2
    BY ONLY <1>3
  <2> QED BY <2>1, <1>17
<1>18. ASSUME state' = "HttpStart", result' = "InProgress", p < d + 2, LinePlace(p, a, b, d)'
       PROVE  result' = "InProgress" /\ (LineReads(q)' \/ HeaderReads(q)')
  BY <1>5, <1>17, <1>e, <1>18 DEF LineReads, LinePlace
<1>8. CASE pos < 7
  <2>1. minor_size = 0 /\ code_size = 0 /\ text_size = 0
    BY <1>1, <1>2, <1>8 DEF LineReads, LinePlace
  <2>2. /\ pos = 0 => line = "H" /\ c.ch = "h"
        /\ pos = 1 => line = "T1" /\ c.ch = "t"
        /\ pos = 2 => line = "T2" /\ c.ch = "t"
        /\ pos = 3 => line = "P" /\ c.ch = "p"
        /\ pos = 4 => line = "Slash" /\ c.ch = "slash"
        /\ pos = 5 => line = "MajorStart" /\ c.ch \in {"0", "1"}
        /\ pos = 6 => line = "Major" /\ c.ch = "dot"
    BY <1>s, <1>t DEF LineReads, LinePlace, IsStatusLine
  <2>3. pos \in {0, 1, 2, 3, 4, 5, 6}
    BY <1>1, <1>8
  <2>4. line \in DOMAIN FixedChars \ {"Newline1"} /\ c.ch \in FixedChars[line]
    BY <2>2, <2>3 DEF FixedChars
  <2>5. FixedChar(c.ch)
    BY <2>4, <1>6 DEF MinorChar, CodeChar, TextChar, FixedChars
  <2>6. /\ result' = "InProgress" /\ line' = AfterFixed[line]
        /\ minor_size' = 0 /\ code_size' = 0 /\ text_size' = 0
    BY <2>1, <2>4, <2>5 DEF FixedChar, GoToLine
  <2>7. /\ pos' = 1 => line' = "T1"
        /\ pos' = 2 => line' = "T2"
        /\ pos' = 3 => line' = "P"
        /\ pos' = 4 => line' = "Slash"
        /\ pos' = 5 => line' = "MajorStart"
        /\ pos' = 6 => line' = "Major"
        /\ pos' = 7 => line' = "MinorStart"
    BY <2>2, <2>3, <2>6, <1>1 DEF AfterFixed
  <2>8. state' = "HttpStart" /\ pos' <= 7 /\ pos' # 0
    BY <2>3, <2>7, <1>1, <1>7
  <2> QED BY <2>6, <2>7, <2>8, <1>1, <1>2, <1>17, <1>e, <1>18 DEF LinePlace
<1>9. CASE 7 <= pos /\ pos < q.minor
  <2>1. c.ch \in DigitChars
    <3>1. \A i \in 8..q.minor : t[i].ch \in DigitChars
      BY <1>s DEF IsStatusLine
    <3>2. pos + 1 \in 8..q.minor /\ c = t[pos + 1]
      BY <1>1, <1>2, <1>9, <1>t
    <3> QED BY <3>1, <3>2
  <2>2. /\ minor_size = pos - 7 /\ code_size = 0 /\ text_size = 0
        /\ IF pos = 7 THEN line = "MinorStart" ELSE line = "Minor"
    BY <1>1, <1>2, <1>9 DEF LineReads, LinePlace
  <2>3. minor_size + 1 < MaxMinor
    BY <1>1, <1>2, <1>9, <2>2
  <2>4. MinorChar(c.ch)
    BY <2>1, <2>2, <1>6 DEF FixedChar, CodeChar, TextChar, FixedChars
  <2>5. /\ result' = "InProgress" /\ line' = "Minor" /\ minor_size' = pos' - 7
        /\ code_size' = 0 /\ text_size' = 0
    BY <2>1, <2>2, <2>3, <2>4, <1>1 DEF MinorChar, GoToLine, DigitChars
  <2>6. state' = "HttpStart" /\ 7 < pos' /\ pos' <= q.minor
    BY <2>5, <1>1, <1>2, <1>7, <1>9
  <2> QED BY <2>5, <2>6, <1>2, <1>17, <1>e, <1>18 DEF LinePlace
<1>10. CASE pos = q.minor
  <2>1. c.ch = "sp" /\ line = "Minor" /\ code_size = 0 /\ text_size = 0
    BY <1>1, <1>2, <1>10, <1>s, <1>t DEF LineReads, LinePlace, IsStatusLine
  <2>2. MinorChar(c.ch)
    BY <2>1, <1>6 DEF FixedChar, CodeChar, TextChar, FixedChars
  <2>3. result' = "InProgress" /\ line' = "CodeStart" /\ code_size' = 0 /\ text_size' = 0
    BY <2>1, <2>2 DEF MinorChar, GoToLine
  <2>4. state' = "HttpStart" /\ pos' = q.minor + 1
    BY <2>3, <1>1, <1>7, <1>10
  <2> QED BY <2>3, <2>4, <1>2, <1>17, <1>e, <1>18 DEF LinePlace
<1>11. CASE pos = q.minor + 1
  <2>1. c.ch \in DigitChars
    <3>1. \A i \in (q.minor + 2)..q.code : t[i].ch \in DigitChars
      BY <1>s DEF IsStatusLine
    <3>2. pos + 1 \in (q.minor + 2)..q.code /\ c = t[pos + 1]
      BY <1>1, <1>2, <1>11, <1>t
    <3> QED BY <3>1, <3>2
  <2>2. line = "CodeStart" /\ code_size = 0 /\ text_size = 0
    BY <1>1, <1>2, <1>11 DEF LineReads, LinePlace
  <2>3. FixedChar(c.ch)
    BY <2>2, <1>6 DEF MinorChar, CodeChar, TextChar
  <2>4. result' = "InProgress" /\ line' = "Code" /\ code_size' = 0 /\ text_size' = 0
    BY <2>1, <2>2, <2>3 DEF FixedChar, FixedChars, AfterFixed, GoToLine
  <2>5. state' = "HttpStart" /\ pos' = q.minor + 2
    BY <2>4, <1>1, <1>2, <1>7, <1>11
  <2> QED BY <2>4, <2>5, <1>2, <1>17, <1>e, <1>18 DEF LinePlace
<1>12. CASE q.minor + 2 <= pos /\ pos < q.code
  <2>1. c.ch \in DigitChars
    <3>1. \A i \in (q.minor + 2)..q.code : t[i].ch \in DigitChars
      BY <1>s DEF IsStatusLine
    <3>2. pos + 1 \in (q.minor + 2)..q.code /\ c = t[pos + 1]
      BY <1>1, <1>2, <1>12, <1>t
    <3> QED BY <3>1, <3>2
  <2>2. line = "Code" /\ code_size = pos - q.minor - 2 /\ text_size = 0
    BY <1>1, <1>2, <1>12 DEF LineReads, LinePlace
  <2>3. code_size + 1 <= MaxCode /\ code_size \in Nat
    BY <1>1, <1>2, <1>12, <2>2
  <2>4. CodeChar(c.ch, "known")
    BY <2>2, <1>6 DEF FixedChar, MinorChar, TextChar, FixedChars
  <2>5. /\ result' = "InProgress" /\ line' = "Code" /\ code_size' = code_size + 1 /\ text_size' = 0
    BY <2>1, <2>2, <2>3, <2>4 DEF CodeChar, GoToLine, DigitChars
  <2>6. state' = "HttpStart" /\ q.minor + 2 < pos' /\ pos' <= q.code /\ code_size' = pos' - q.minor - 2
    BY <2>2, <2>5, <1>1, <1>2, <1>7, <1>12
  <2> QED BY <2>5, <2>6, <1>2, <1>17, <1>e, <1>18 DEF LinePlace
<1>13. CASE pos = q.code
  <2>1. line = "Code" /\ text_size = 0
    BY <1>1, <1>2, <1>13 DEF LineReads, LinePlace
  <2>2. IF q.text = q.code THEN c.ch = "cr" ELSE c.ch \in {"sp", "tab"}
    BY <1>1, <1>2, <1>13, <1>s, <1>t DEF IsStatusLine
  <2>3. CodeChar(c.ch, "known")
    BY <2>1, <1>6 DEF FixedChar, MinorChar, TextChar, FixedChars
  <2>4. /\ result' = "InProgress" /\ text_size' = 0
        /\ line' = IF q.text = q.code THEN "Newline1" ELSE "StatusText"
    BY <2>1, <2>2, <2>3 DEF CodeChar, GoToLine
  <2>5. state' = "HttpStart" /\ pos' = q.code + 1
    BY <2>4, <1>1, <1>7, <1>13
  <2> QED BY <2>4, <2>5, <1>2, <1>17, <1>e, <1>18 DEF LinePlace
<1>14. CASE q.code < pos /\ pos < q.text
  <2>1. c.ch \notin Ctl
    <3>1. \A i \in (q.code + 2)..q.text : t[i].ch \notin Ctl
      BY <1>s DEF IsStatusLine
    <3>2. pos + 1 \in (q.code + 2)..q.text /\ c = t[pos + 1]
      BY <1>1, <1>2, <1>14, <1>t
    <3> QED BY <3>1, <3>2
  <2>2. line = "StatusText" /\ text_size = pos - q.code - 1 /\ text_size \in Nat /\ text_size < MaxText
    BY <1>1, <1>2, <1>14 DEF LineReads, LinePlace
  <2>3. TextChar(c.ch)
    BY <2>2, <1>6 DEF FixedChar, MinorChar, CodeChar, FixedChars
  <2>4. result' = "InProgress" /\ line' = "StatusText" /\ text_size' = text_size + 1
    BY <2>1, <2>2, <2>3 DEF TextChar, GoToLine, Ctl
  <2>5. state' = "HttpStart" /\ q.code + 1 < pos' /\ pos' <= q.text /\ text_size' = pos' - q.code - 1
    BY <2>2, <2>4, <1>1, <1>2, <1>7, <1>14
  <2> QED BY <2>4, <2>5, <1>2, <1>17, <1>e, <1>18 DEF LinePlace
<1>15. CASE pos = q.text /\ q.code < pos
  <2>1. line = "StatusText" /\ c.ch = "cr"
    BY <1>1, <1>2, <1>15, <1>s, <1>t DEF LineReads, LinePlace, IsStatusLine
  <2>2. TextChar(c.ch)
    BY <2>1, <1>6 DEF FixedChar, MinorChar, CodeChar, FixedChars
  <2>3. result' = "InProgress" /\ line' = "Newline1"
    BY <2>1, <2>2 DEF TextChar, GoToLine
  <2>4. state' = "HttpStart" /\ pos' = q.text + 1 /\ ~(pos' <= q.code + 1)
    BY <2>3, <1>1, <1>2, <1>7, <1>15
  <2> QED BY <2>3, <2>4, <1>2, <1>17, <1>e, <1>18 DEF LinePlace
<1>16. CASE pos = q.text + 1
  <2>1. c.ch = "lf" /\ line = "Newline1"
    <3>1. q.text + 2 = pos + 1 /\ q.text + 2 \in Nat
      BY <1>1, <1>2, <1>16
    <3>2. c = t[q.text + 2]
      BY <3>1, <1>t
    <3> QED BY <3>2, <1>16, <1>s DEF LineReads, LinePlace, IsStatusLine
  <2>2. FixedChar(c.ch)
    BY <2>1, <1>6 DEF MinorChar, CodeChar, TextChar
  <2>3. result' = "InProgress" /\ line' = "Parsed"
    BY <2>1, <2>2 DEF FixedChar, FixedChars, AfterFixed, GoToLine
  <2>4. state' = "Headers" /\ pos' = q.end[0]
    BY <2>3, <1>1, <1>2, <1>3, <1>7, <1>16
  <2> QED BY <2>3, <2>4, <1>5, HeaderBegins
<1> QED BY <1>1, <1>2, <1>8, <1>9, <1>10, <1>11, <1>12, <1>13, <1>14, <1>15, <1>16

\* A body of given length begins, or is already read, with the end of the headers.
LEMMA BodyBegins ==
  ASSUME NEW t, NEW q, IsResponse(t, q), NEW p, p = q.end[q.n] + 2, pos' = p,
         ExpectedLength = BodyOf(q), encoding = q.enc[q.n], BeginBody,
         content_length' = q.len[q.n], encoding' = q.enc[q.n], 
         body_len' = 0, chunk' = "SizeStart", chunk_len' = 0
  PROVE  Reads(t, q)'
<1>1. /\ q.n \in Nat /\ q.end[0] \in Nat /\ q.end[q.n] \in Nat
      /\ Len(t) \in Nat /\ q.end[q.n] + 2 <= Len(t)
  BY HeadBeforeEnd
<1>2. BodyOf(q) \in Nat
  BY MaxBodyAssumption DEF BodyOf, Lengths
<1>3. CASE IsPlainBody(t, q)
  <2>1. q.enc[q.n] # Chunked /\ Len(t) = q.end[q.n] + 2 + BodyOf(q)
    BY <1>3 DEF IsPlainBody
  <2>2. /\ body_size' = BodyOf(q)
        /\ IF BodyOf(q) = 0 THEN state' = "Parsed" /\ result' = "Ok"
           ELSE state' = "Body" /\ result' = "InProgress"
    BY <2>1 DEF BeginBody
  <2>3. PICK e \in Nat, l \in Nat : e = q.end[q.n] /\ l = BodyOf(q)
    BY <1>1, <1>2
  <2>4. PICK w \in Nat : w = e + 2
    OBVIOUS
  <2>5. pos' = w /\ w = q.end[q.n] + 2
    BY <2>3, <2>4
  <2>6. Len(t) = w + l
    BY <2>1, <2>3, <2>4
  <2>7. w <= w + l /\ (w = w + l <=> l = 0) /\ w - e - 2 = 0 /\ (0 < l <=> l # 0)
    BY <2>4
  <2>8. q.end[q.n] + 2 <= pos' /\ body_len' = pos' - q.end[q.n] - 2
    BY <2>3, <2>5, <2>7
  <2>9. body_size' = BodyOf(q) /\ state' = IF body_len' < body_size' THEN "Body" ELSE "Parsed"
    BY <2>2, <2>3, <2>7
  <2>10. PlainReads(q)'
    BY <2>1, <2>8, <2>9 DEF PlainReads
  <2>11. result' = IF pos' = Len(t) THEN "Ok" ELSE "InProgress"
    BY <2>2, <2>3, <2>5, <2>6, <2>7
  <2>12. pos' \in Nat /\ pos' <= Len(t)
    BY <2>5, <2>6, <2>7
  <2> QED BY <2>10, <2>11, <2>12 DEF Reads
<1>4. CASE IsChunkedBody(t, q)
  <2>1. /\ q.enc[q.n] = Chunked /\ q.m \in Nat /\ q.at[0] = q.end[q.n] + 2
        /\ \A j \in 0..q.m : q.at[j] \in Nat
        /\ \A j \in 1..q.m : IsChunk(t, q, j)
        /\ IsSizeLine(t, q, q.m + 1) /\ Len(t) = q.size[q.m + 1] + 2
    BY <1>4 DEF IsChunkedBody
  <2>2. state' = "BodyChunk" /\ result' = "InProgress"
    BY <2>1 DEF BeginBody
  <2>3. 1 \in 1..(q.m + 1) /\ 1 - 1 = 0 /\ (q.m = 0 \/ 1 \in 1..q.m) /\ q.m \in 0..q.m
    BY <2>1
  <2>4. IsSizeLine(t, q, 1)
    BY <2>1, <2>3 DEF IsChunk
  <2>5. q.at[0] \in Nat /\ q.size[1] \in Nat /\ q.at[0] < q.size[1]
    BY <2>3, <2>4 DEF IsSizeLine
  <2>6. SizeReads(q, 1)'
    <3>1. pos' = q.at[1 - 1] /\ ~(q.at[1 - 1] < pos') /\ q.at[1 - 1] <= pos' /\ pos' < q.size[1] + 2 /\ pos' # q.size[1] + 1
      BY <2>1, <2>3, <2>5
    <3> QED BY <2>2, <3>1 DEF SizeReads
  <2>7. pos' \in Nat /\ pos' < Len(t)
    <3>1. pos' < q.end[q.n] + 3 /\ pos' \in Nat
      BY <1>1
    <3>2. q.end[q.n] + 2 # Len(t)
      <4>1. (q.m + 1) - 1 = q.m /\ q.m \in 0..q.m
        BY <2>1
      <4>2. q.size[q.m + 1] \in Nat /\ q.at[q.m] < q.size[q.m + 1] /\ q.at[0] <= q.at[q.m] /\ q.at[q.m] \in Nat
        <5>1. IsSizeLine(t, q, q.m + 1)
          BY <1>4 DEF IsChunkedBody
        <5>2. q.size[q.m + 1] \in Nat /\ q.at[q.m] < q.size[q.m + 1]
          BY <4>1, <5>1 DEF IsSizeLine
        <5>3. q.at[0] <= q.at[q.m] /\ q.at[q.m] \in Nat
          BY <1>4, <2>1, <4>1 DEF IsChunkedBody
        <5> QED BY <5>2, <5>3
      <4>3. PICK a \in Nat, b \in Nat, z \in Nat : a = q.at[0] /\ b = q.at[q.m] /\ z = q.size[q.m + 1]
        BY <2>5, <4>2
      <4>4. a <= b /\ b < z /\ Len(t) = z + 2
        BY <2>1, <4>2, <4>3
      <4>5. a < z + 2
        BY <4>3, <4>4
      <4> QED BY <2>1, <4>3, <4>4, <4>5
    <3>3. PICK e \in Nat, l \in Nat : e = q.end[q.n] /\ l = Len(t) /\ e + 2 <= l
      BY <1>1
    <3> QED BY <3>1, <3>2, <3>3
  <2> QED BY <2>1, <2>2, <2>3, <2>6, <2>7 DEF Reads, ChunkReads
<1> QED BY <1>3, <1>4 DEF IsResponse

\* A character of the headers and of the line that ends them.
LEMMA HeadRead ==
  ASSUME NEW t, NEW q, IsResponse(t, q), Reads(t, q), HeaderReads(q), ReadNext(t)
  PROVE  Reads(t, q)'
<1> USE ResponseAssumption, MaxBodyAssumption
<1> DEFINE c == t[pos + 1]
<1> DEFINE last == q.end[q.n]
<1>1. /\ pos \in Nat /\ pos' = pos + 1 /\ HeaderChar(c.ch, c.n)
      /\ q.end[0] \in Nat /\ q.end[0] <= pos /\ pos < last + 2
      /\ state = "Headers" /\ body_len = 0 /\ chunk = "SizeStart" /\ chunk_len = 0
      /\ readed_count = pos - q.end[0] /\ key_size \in Nat /\ value_size \in Nat
  BY DEF ReadNext, ParseChar, HeaderReads, Reads, LineChar, BodyChar, ChunkChar, IsResponse, IsHead
<1>2. /\ q.n \in Nat /\ \A i \in 0..q.n : q.end[i] \in Nat /\ q.end[i] <= last
      /\ \A i \in 1..q.n : IsHeaderLine(t, q, i)
      /\ t[last + 1].ch = "cr" /\ t[last + 2].ch = "lf"
      /\ last + 2 - q.end[0] <= MaxHeaders
  BY DEF IsResponse, IsHead
<1>3. last \in Nat
  BY <1>2
<1>4. Len(t) \in Nat /\ last + 2 <= Len(t)
  BY HeadBeforeEnd
<1>5. /\ readed_count' = pos' - q.end[0]
      /\ body_len' = 0 /\ chunk' = "SizeStart" /\ chunk_len' = 0
  BY <1>1 DEF HeaderChar, chunkVars
<1>6. readed_count + 1 <= MaxHeaders
  BY <1>1, <1>2, <1>3
<1> DEFINE next == NextHeader(c.ch)
<1>7. ASSUME next # "Error"
      PROVE  /\ header' = next /\ AddHeaderChar(next, c.n)
             /\ IF next = "Parsed" THEN BeginBody
                ELSE result' = "InProgress" /\ UNCHANGED <<state, body_size>>
  BY <1>1, <1>6, <1>7 DEF HeaderChar
<1>t. \A i \in Nat : i = pos + 1 => c = t[i]
  OBVIOUS
<1> HIDE DEF c, last
<1>8. ASSUME NEW i \in 1..q.n, q.end[i - 1] <= pos, pos < q.end[i],
             content_length = q.len[i - 1], encoding = q.enc[i - 1],
             pos = q.end[i - 1] => header = "LineStart" /\ key_size = 0,
             q.end[i - 1] < pos => key_size # 0,
             q.end[i - 1] < pos /\ pos < q.colon[i] => header = "Name",
             q.colon[i] <= pos /\ pos <= q.lws[i] => header = "Lws",
             q.lws[i] < pos /\ pos < q.end[i] - 1 => header = "Value",
             pos = q.end[i] - 1 => header = "Newline2"
      PROVE  Reads(t, q)'
  <2>1. i - 1 \in 0..q.n /\ i \in 0..q.n /\ i \in Nat
    BY <1>2
  <2>2. q.end[i - 1] \in Nat /\ q.end[i] \in Nat /\ q.end[i] <= last /\ IsHeaderLine(t, q, i)
    BY <1>2, <2>1
  <2>3. /\ q.colon[i] \in Nat /\ q.end[i - 1] + 2 <= q.colon[i]
        /\ q.lws[i] \in Nat /\ q.colon[i] <= q.lws[i] /\ q.lws[i] + 2 <= q.end[i]
    BY <2>2 DEF IsHeaderLine
  <2>4. pos' \in Nat /\ pos' < Len(t) /\ pos' < last + 2 /\ q.end[0] <= pos'
    <3>1. pos + 1 <= last
      BY <1>1, <1>3, <1>8, <2>2
    <3>2. PICK l \in Nat : l = Len(t) /\ last + 2 <= l
      BY <1>4
    <3> QED BY <1>1, <1>3, <3>1, <3>2
  <2>5. SUFFICES result' = "InProgress" /\ HeaderReads(q)'
    BY <2>4 DEF Reads
  <2>6. ASSUME pos' < q.end[i], result' = "InProgress", state' = "Headers",
               key_size' \in Nat, key_size' # 0, value_size' \in Nat,
               content_length' = content_length, encoding' = encoding,
               pos' < q.colon[i] => header' = "Name",
               q.colon[i] <= pos' /\ pos' <= q.lws[i] => header' = "Lws",
               q.lws[i] < pos' /\ pos' < q.end[i] - 1 => header' = "Value",
               pos' = q.end[i] - 1 => header' = "Newline2"
        PROVE  result' = "InProgress" /\ HeaderReads(q)'
    <3>1. q.end[i - 1] < pos' /\ q.end[i - 1] <= pos' /\ pos' # q.end[i - 1]
      BY <1>1, <1>8, <2>2
    <3> QED BY <2>4, <2>6, <3>1, <1>5, <1>8 DEF HeaderReads, last
  <2>7. CASE pos = q.end[i - 1]
    <3>1. pos + 1 \in (q.end[i - 1] + 1)..(q.colon[i] - 1) /\ c = t[pos + 1]
      BY <1>1, <1>t, <2>2, <2>3, <2>7
    <3>2. c.ch \in NameChars
      BY <3>1, <2>2 DEF IsHeaderLine
    <3>3. next = "Name"
      BY <3>2, <1>8, <2>7 DEF NextHeader, NameChars, DigitChars
    <3>4. header' = "Name" /\ result' = "InProgress" /\ key_size' = key_size + 1
          /\ UNCHANGED <<value_size, content_length, encoding, state>>
      BY <3>3, <1>7, <1>8, <2>7 DEF AddHeaderChar
    <3>5. pos' < q.colon[i] /\ pos' < q.end[i]
      BY <1>1, <2>2, <2>3, <2>7
    <3>6. ~(q.colon[i] <= pos') /\ ~(q.lws[i] < pos') /\ pos' # q.end[i] - 1
      BY <3>5, <2>2, <2>3, <2>4, SMTT(30)
    <3> QED BY <3>4, <3>5, <3>6, <2>6, <1>1
  <2>8. CASE q.end[i - 1] < pos /\ pos < q.colon[i] - 1
    <3>1. pos + 1 \in (q.end[i - 1] + 1)..(q.colon[i] - 1) /\ c = t[pos + 1]
      BY <1>1, <1>t, <2>2, <2>3, <2>8
    <3>2. c.ch \in NameChars /\ header = "Name"
      BY <3>1, <1>1, <1>8, <2>2, <2>3, <2>8 DEF IsHeaderLine
    <3>3. next = "Name"
      BY <3>2 DEF NextHeader, NameChars, DigitChars
    <3>4. header' = "Name" /\ result' = "InProgress" /\ key_size' = key_size + 1
          /\ UNCHANGED <<value_size, content_length, encoding, state>>
      BY <3>2, <3>3, <1>7 DEF AddHeaderChar
    <3>5. pos' < q.colon[i] /\ pos' < q.end[i]
      BY <1>1, <2>2, <2>3, <2>8
    <3>6. ~(q.colon[i] <= pos') /\ ~(q.lws[i] < pos') /\ pos' # q.end[i] - 1
      BY <3>5, <2>2, <2>3, <2>4, SMTT(30)
    <3> QED BY <3>4, <3>5, <3>6, <2>6, <1>1
  <2>9. CASE pos = q.colon[i] - 1
    <3>1. header = "Name" /\ key_size # 0
      BY <1>1, <1>8, <2>2, <2>3, <2>9
    <3>2. c = t[q.colon[i]]
      BY <1>1, <1>t, <2>3, <2>9
    <3>3. c.ch = "colon"
      BY <3>2, <2>2 DEF IsHeaderLine
    <3>4. next = "Lws"
      BY <3>1, <3>3 DEF NextHeader
    <3>5. header' = "Lws" /\ result' = "InProgress"
          /\ UNCHANGED <<key_size, value_size, content_length, encoding, state>>
      BY <3>1, <3>4, <1>7 DEF AddHeaderChar
    <3>6. pos' = q.colon[i] /\ pos' < q.end[i]
      BY <1>1, <2>2, <2>3, <2>9
    <3>7. ~(pos' < q.colon[i]) /\ ~(q.lws[i] < pos') /\ pos' # q.end[i] - 1
      BY <3>6, <2>2, <2>3, <2>4, SMTT(30)
    <3> QED BY <3>1, <3>5, <3>6, <3>7, <2>6, <1>1
  <2>10. CASE q.colon[i] <= pos /\ pos < q.lws[i]
    <3>1. header = "Lws" /\ key_size # 0
      BY <1>1, <1>8, <2>2, <2>3, <2>10
    <3>2. pos + 1 \in (q.colon[i] + 1)..q.lws[i] /\ c = t[pos + 1]
      BY <1>1, <1>t, <2>3, <2>10
    <3>3. c.ch \in {"sp", "tab"}
      BY <3>2, <2>2 DEF IsHeaderLine
    <3>4. next = "Lws"
      BY <3>1, <3>3 DEF NextHeader
    <3>5. header' = "Lws" /\ result' = "InProgress"
          /\ UNCHANGED <<key_size, value_size, content_length, encoding, state>>
      BY <3>1, <3>4, <1>7 DEF AddHeaderChar
    <3>6. q.colon[i] <= pos' /\ pos' <= q.lws[i] /\ pos' < q.end[i]
      BY <1>1, <2>2, <2>3, <2>10
    <3>7. ~(pos' < q.colon[i]) /\ ~(q.lws[i] < pos')
      BY <3>6, <2>3, <2>4
    <3>8. pos' # q.end[i] - 1
      BY <3>6, <2>2, <2>3, <2>4
    <3> QED BY <3>1, <3>5, <3>6, <3>7, <3>8, <2>6, <1>1
  <2>11. CASE q.lws[i] <= pos /\ pos < q.end[i] - 2
    <3>1. IF pos = q.lws[i] THEN header = "Lws" ELSE header = "Value"
      BY <1>1, <1>8, <2>2, <2>3, <2>11
    <3>2. pos + 1 \in (q.lws[i] + 1)..(q.end[i] - 2) /\ c = t[pos + 1]
      BY <1>1, <1>t, <2>2, <2>3, <2>11
    <3>3. c.ch \notin Ctl /\ key_size # 0
      BY <3>2, <1>1, <1>8, <2>2, <2>3, <2>11 DEF IsHeaderLine
    <3>4. pos = q.lws[i] => c.ch # "sp"
      BY <3>2, <1>1, <2>2, <2>3, <2>11 DEF IsHeaderLine
    <3>5. next = "Value"
      BY <3>1, <3>3, <3>4 DEF NextHeader, Ctl
    <3>6. header' = "Value" /\ result' = "InProgress" /\ value_size' = value_size + 1
          /\ UNCHANGED <<key_size, content_length, encoding, state>>
      BY <3>1, <3>5, <1>7 DEF AddHeaderChar
    <3>7. q.lws[i] < pos' /\ pos' < q.end[i] - 1 /\ pos' < q.end[i]
      BY <1>1, <2>2, <2>3, <2>11
    <3>8. ~(pos' < q.colon[i]) /\ ~(pos' <= q.lws[i]) /\ pos' # q.end[i] - 1
      BY <3>7, <2>2, <2>3, <2>4, SMTT(30)
    <3> QED BY <3>3, <3>6, <3>7, <3>8, <2>6, <1>1
  <2>12. CASE pos = q.end[i] - 2
    <3>1. header \in {"Lws", "Value"} /\ key_size # 0
      BY <1>1, <1>8, <2>2, <2>3, <2>12
    <3>2. c = t[q.end[i] - 1]
      BY <1>1, <1>t, <2>2, <2>12
    <3>3. c.ch = "cr"
      BY <3>2, <2>2 DEF IsHeaderLine
    <3>4. next = "Newline2"
      BY <3>1, <3>3 DEF NextHeader
    <3>5. header' = "Newline2" /\ result' = "InProgress"
          /\ UNCHANGED <<key_size, value_size, content_length, encoding, state>>
      BY <3>1, <3>4, <1>7 DEF AddHeaderChar
    <3>6. pos' = q.end[i] - 1 /\ pos' < q.end[i]
      BY <1>1, <2>2, <2>12
    <3>7. ~(pos' < q.colon[i]) /\ ~(pos' <= q.lws[i]) /\ ~(pos' < q.end[i] - 1)
      BY <3>6, <2>2, <2>3, <2>4, SMTT(30)
    <3> QED BY <3>1, <3>5, <3>6, <3>7, <2>6, <1>1
  <2>13. CASE pos = q.end[i] - 1
    <3>1. header = "Newline2" /\ key_size # 0
      BY <1>1, <1>8, <2>2, <2>3, <2>13
    <3>2. c = t[q.end[i]]
      BY <1>1, <1>t, <2>2, <2>13
    <3>3. c.ch = "lf"
      BY <3>2, <2>2 DEF IsHeaderLine
    <3>4. next = "LineStart"
      BY <3>1, <3>3 DEF NextHeader
    <3>5. header' = "LineStart" /\ result' = "InProgress" /\ UNCHANGED state /\ AddHeader(c.n)
      BY <3>1, <3>4, <1>7 DEF AddHeaderChar
    <3>6. key_size' = 0 /\ value_size' = 0 /\ content_length' = q.len[i] /\ encoding' = q.enc[i]
      BY <3>2, <3>5, <1>8, <2>2 DEF AddHeader, IsHeaderLine, LengthKinds, EncodingKinds
    <3>7. pos' = q.end[i]
      BY <1>1, <2>2, <2>13
    <3>8. CASE i = q.n
      <4>1. last <= pos' /\ pos' # last + 1
        BY <3>7, <3>8, <2>2, <1>3 DEF last
      <4> QED BY <2>4, <3>5, <3>6, <3>8, <4>1, <1>1, <1>5 DEF HeaderReads, last
    <3>9. CASE i # q.n
      <4>1. i + 1 \in 1..q.n /\ i + 1 \in 0..q.n /\ (i + 1) - 1 = i
        BY <3>9, <1>2, <2>1
      <4>2. q.end[i + 1] \in Nat /\ IsHeaderLine(t, q, i + 1)
        BY <4>1, <1>2
      <4>3. /\ q.colon[i + 1] \in Nat /\ q.end[i] + 2 <= q.colon[i + 1]
            /\ q.lws[i + 1] \in Nat /\ q.colon[i + 1] <= q.lws[i + 1] /\ q.lws[i + 1] + 2 <= q.end[i + 1]
        BY <4>1, <4>2 DEF IsHeaderLine
      <4>4. /\ pos' < q.colon[i + 1] /\ pos' < q.end[i + 1]
            /\ ~(q.colon[i + 1] <= pos') /\ ~(q.lws[i + 1] < pos') /\ pos' # q.end[i + 1] - 1
        BY <3>7, <4>2, <4>3, <2>2
      <4>5. q.end[(i + 1) - 1] <= pos' /\ ~(q.end[(i + 1) - 1] < pos')
            /\ q.len[(i + 1) - 1] = content_length' /\ q.enc[(i + 1) - 1] = encoding'
        BY <3>6, <3>7, <4>1, <2>2
      <4> QED BY <2>4, <3>5, <3>6, <4>1, <4>4, <4>5, <1>1, <1>5 DEF HeaderReads, last
    <3> QED BY <3>8, <3>9
  <2> QED BY <1>1, <1>8, <2>2, <2>3, <2>7, <2>8, <2>9, <2>10, <2>11, <2>12, <2>13
<1>9. ASSUME last <= pos, content_length = q.len[q.n], encoding = q.enc[q.n],
             pos = last => header = "LineStart" /\ key_size = 0, pos = last + 1 => header = "Newline3"
      PROVE  Reads(t, q)'
  <2>1. CASE pos = last
    <3>1. c.ch = "cr" /\ next = "Newline3"
      <4>1. c = t[last + 1]
        BY <1>t, <1>3, <2>1
      <4> QED BY <4>1, <1>2, <1>9, <2>1 DEF NextHeader
    <3>2. header' = "Newline3" /\ result' = "InProgress"
          /\ UNCHANGED <<key_size, value_size, content_length, encoding, state>>
      BY <3>1, <1>7, <1>9, <2>1 DEF AddHeaderChar
    <3>3. pos' = last + 1 /\ pos' < last + 2 /\ last <= pos' /\ pos' # last
          /\ pos' < Len(t) /\ pos' \in Nat /\ q.end[0] <= pos'
      <4>1. PICK l \in Nat : l = Len(t) /\ last + 2 <= l
        BY <1>4
      <4> QED BY <1>1, <1>3, <4>1, <2>1
    <3>4. HeaderReads(q)'
      BY <3>2, <3>3, <1>1, <1>5, <1>9 DEF HeaderReads, last
    <3> QED BY <3>2, <3>3, <3>4 DEF Reads
  <2>2. CASE pos = last + 1
    <3>1. c.ch = "lf" /\ next = "Parsed" /\ header = "Newline3"
      <4>1. last + 2 = pos + 1 /\ last + 2 \in Nat
        BY <1>3, <2>2
      <4>2. c = t[last + 2]
        BY <4>1, <1>t
      <4> QED BY <4>2, <1>2, <1>9, <2>2 DEF NextHeader
    <3>2. BeginBody /\ UNCHANGED <<content_length, encoding>>
      BY <3>1, <1>7 DEF AddHeaderChar
    <3>3. ExpectedLength = BodyOf(q)
      BY <1>9 DEF ExpectedLength, BodyOf
    <3>4. PICK p : p = last + 2 /\ pos' = p
      BY <1>1, <1>3, <2>2
    <3> QED BY <3>2, <3>3, <3>4, <1>5, <1>9, BodyBegins DEF last
  <2> QED BY <1>1, <1>3, <1>9, <2>1, <2>2
<1> QED BY <1>8, <1>9 DEF HeaderReads, last

\* A character of a body without chunks.
LEMMA PlainBodyRead ==
  ASSUME NEW t, NEW q, IsResponse(t, q), Reads(t, q), PlainReads(q), ReadNext(t)
  PROVE  Reads(t, q)'
<1>1. /\ pos \in Nat /\ pos' = pos + 1 /\ q.enc[q.n] # Chunked
      /\ BodyChar /\ content_length = q.len[q.n] /\ encoding = q.enc[q.n] /\ body_size = BodyOf(q)
  BY DEF ReadNext, ParseChar, Reads, PlainReads, LineChar, HeaderChar, ChunkChar
<1>2. IsPlainBody(t, q) /\ q.end[q.n] \in Nat /\ BodyOf(q) \in Nat
  BY <1>1, MaxBodyAssumption, HeadBeforeEnd DEF IsResponse, IsChunkedBody, BodyOf, Lengths
<1>3. PICK p \in Nat, e \in Nat, b \in Nat : p = pos /\ e = q.end[q.n] + 2 /\ b = BodyOf(q)
  BY <1>1, <1>2
<1>4. Len(t) = e + b /\ e <= p /\ p <= e + b
  BY <1>2, <1>3 DEF IsPlainBody, PlainReads, Reads
<1>5. body_len = p - e
  BY <1>2, <1>3 DEF PlainReads
<1>6. UNCHANGED <<content_length, encoding, body_size>> /\ body_len' = body_len + 1 /\ state = "Body"
  BY <1>1 DEF BodyChar, headerVars
<1>7. p - e < b /\ p < e + b
  BY <1>1, <1>3, <1>4, <1>5, <1>6, SMTT(30) DEF PlainReads
<1>8. pos' = p + 1 /\ body_len' = p + 1 - e
  BY <1>1, <1>3, <1>5, <1>6
<1>9. body_len' = pos' - q.end[q.n] - 2 /\ q.end[q.n] + 2 <= pos'
  <2>1. PICK z \in Nat : z = q.end[q.n]
    BY <1>2
  <2>2. e = z + 2
    BY <1>3, <2>1
  <2>3. p + 1 - e = (p + 1) - z - 2 /\ z + 2 <= p + 1
    BY <2>2, <1>4
  <2> QED BY <2>1, <2>3, <1>8
<1>10. pos' \in Nat /\ pos' <= Len(t)
  <2>1. PICK l \in Nat : l = e + b
    BY <1>3
  <2>2. p + 1 <= l
    BY <2>1, <1>7
  <2> QED BY <2>1, <2>2, <1>3, <1>4, <1>8
<1>13. (p + 1 = e + b) <=> (p - e + 1 = b)
  OBVIOUS
<1>14. (p + 1 # e + b) => p + 1 - e < b
  BY <1>7
<1>15. body_len = p - e /\ body_size = b /\ body_size' = b /\ body_len' = p + 1 - e /\ pos' = p + 1 /\ Len(t) = e + b
  BY <1>1, <1>3, <1>4, <1>5, <1>6, <1>8
<1>11. CASE p + 1 = e + b
  <2>1. body_len + 1 = body_size /\ ~(body_len' < body_size') /\ pos' = Len(t)
    BY <1>15, <1>13, <1>11
  <2>2. result' = "Ok" /\ state' = "Parsed"
    BY <1>1, <2>1 DEF BodyChar
  <2>3. PlainReads(q)'
    BY <2>1, <2>2, <1>1, <1>6, <1>9 DEF PlainReads
  <2> QED BY <2>1, <2>2, <2>3, <1>10 DEF Reads
<1>12. CASE p + 1 # e + b
  <2>1. body_len + 1 # body_size /\ body_len' < body_size' /\ pos' # Len(t)
    BY <1>15, <1>13, <1>14, <1>12
  <2>2. result' = "InProgress" /\ state' = "Body"
    BY <1>1, <1>6, <2>1 DEF BodyChar
  <2>3. PlainReads(q)'
    BY <2>1, <2>2, <1>1, <1>6, <1>9 DEF PlainReads
  <2> QED BY <2>1, <2>2, <2>3, <1>10 DEF Reads
<1> QED BY <1>11, <1>12

\* The places of the chunks follow each other, and end before the end.
LEMMA SizePlace ==
  ASSUME NEW t, NEW q, IsChunkedBody(t, q), NEW j \in 1..(q.m + 1)
  PROVE  /\ IsSizeLine(t, q, j) /\ q.at[j - 1] \in Nat /\ q.size[j] \in Nat /\ Len(t) \in Nat
         /\ q.at[j - 1] < q.size[j] /\ q.size[j] + 2 <= Len(t)
         /\ q.num[j] \in 0..MaxReserve
         /\ j = q.m + 1 => q.num[j] = 0 /\ q.size[j] + 2 = Len(t)
         /\ j # q.m + 1 => /\ j \in 1..q.m /\ IsChunk(t, q, j) /\ q.num[j] \in Nat \ {0}
                           /\ q.at[j] \in Nat /\ q.at[j] = q.size[j] + q.num[j] + 4 /\ q.at[j] < Len(t)
<1> USE ResponseAssumption
<1>1. /\ q.m \in Nat /\ \A i \in 0..q.m : q.at[i] \in Nat /\ q.at[i] <= q.at[q.m]
      /\ IsSizeLine(t, q, q.m + 1) /\ q.num[q.m + 1] = 0 /\ Len(t) = q.size[q.m + 1] + 2
  BY DEF IsChunkedBody
<1>2. (q.m + 1) - 1 = q.m /\ q.m \in 0..q.m
  BY <1>1
<1>3. PICK a \in Nat, z \in Nat : a = q.at[q.m] /\ z = q.size[q.m + 1] /\ a < z
  BY <1>1, <1>2 DEF IsSizeLine
<1>4. Len(t) = z + 2 /\ z + 2 \in Nat
  BY <1>1, <1>3
<1>5. CASE j = q.m + 1
  <2>1. q.num[j] \in 0..MaxReserve
    BY <1>1, <1>5
  <2> QED BY <1>1, <1>2, <1>3, <1>4, <1>5, <2>1
<1>6. CASE j # q.m + 1
  <2>1. j \in 1..q.m /\ j \in 0..q.m
    BY <1>1, <1>6
  <2>2. IsChunk(t, q, j)
    BY <2>1 DEF IsChunkedBody
  <2>3. IsSizeLine(t, q, j) /\ q.num[j] \in 1..MaxReserve /\ q.at[j] = q.size[j] + q.num[j] + 4
    BY <2>2 DEF IsChunk
  <2>4. q.at[j - 1] \in Nat /\ q.size[j] \in Nat /\ q.at[j - 1] < q.size[j]
    BY <2>3 DEF IsSizeLine
  <2>5. q.at[j] \in Nat /\ q.at[j] <= a
    BY <1>1, <1>3, <2>1
  <2>6. PICK s \in Nat, k \in Nat : s = q.size[j] /\ k = q.num[j] /\ k # 0
    BY <2>3, <2>4
  <2>7. s + k + 4 <= a
    BY <2>3, <2>5, <2>6
  <2>8. s + 2 <= z + 2 /\ s + k + 4 < z + 2
    BY <2>7, <1>3
  <2> QED BY <1>4, <1>6, <2>1, <2>2, <2>3, <2>4, <2>5, <2>6, <2>8, SMTT(30)
<1> QED BY <1>5, <1>6

\* A digit, or the end, of a size line.
LEMMA SizeRead ==
  ASSUME NEW t, NEW q, IsResponse(t, q), Reads(t, q), IsChunkedBody(t, q), ReadNext(t),
         NEW j \in 1..(q.m + 1), SizeReads(q, j)
  PROVE  Reads(t, q)'
<1> USE ResponseAssumption
<1> DEFINE c == t[pos + 1]
<1>1. /\ pos \in Nat /\ pos' = pos + 1 /\ ChunkChar(c.ch, c.v) /\ q.enc[q.n] = Chunked /\ q.m \in Nat
      /\ state = "BodyChunk" /\ chunk_len = 0
  BY DEF ReadNext, ParseChar, SizeReads, Reads, LineChar, HeaderChar, BodyChar, IsChunkedBody
<1>2. /\ IsSizeLine(t, q, j) /\ q.at[j - 1] \in Nat /\ q.size[j] \in Nat /\ Len(t) \in Nat
      /\ q.at[j - 1] < q.size[j] /\ q.size[j] + 2 <= Len(t)
      /\ q.num[j] \in 0..MaxReserve
      /\ j = q.m + 1 => q.num[j] = 0 /\ q.size[j] + 2 = Len(t)
      /\ j # q.m + 1 => /\ j \in 1..q.m /\ IsChunk(t, q, j) /\ q.num[j] \in Nat \ {0}
                        /\ q.at[j] \in Nat /\ q.at[j] = q.size[j] + q.num[j] + 4 /\ q.at[j] < Len(t)
  BY SizePlace
<1>3. PICK p \in Nat, a \in Nat, s \in Nat, l \in Nat :
         p = pos /\ a = q.at[j - 1] /\ s = q.size[j] /\ l = Len(t)
  BY <1>1, <1>2
<1>4. a < s /\ s + 2 <= l /\ a <= p /\ p < s + 2 /\ pos' = p + 1
  BY <1>1, <1>2, <1>3 DEF SizeReads
<1>5. ChunkChar(c.ch, c.v) => \/ chunk \in {"SizeStart", "Size"} /\ SizeChar(c.ch, c.v)
                              \/ chunk = "Newline1" /\ SizeEnd(c.ch)
                              \/ chunk \notin {"SizeStart", "Size", "Newline1"}
  BY DEF ChunkChar, SizeChar, SizeEnd, ChunkData, ChunkEnd
<1>t. \A i \in Nat : i = p + 1 => c = t[i]
  BY <1>3
<1>s. /\ q.val[j][0] = 0 /\ q.val[j][s - a] = q.num[j]
      /\ \A i \in 1..(s - a) :
            /\ t[a + i].ch # "cr" /\ t[a + i].v \in 0..15
            /\ q.val[j][i] \in 0..(Wrap - 1)
            /\ q.val[j][i] = q.val[j][i - 1] * 16 + t[a + i].v
      /\ t[s + 1].ch = "cr" /\ t[s + 2].ch = "lf"
  BY <1>2, <1>3 DEF IsSizeLine
<1>r. /\ p = a => chunk = "SizeStart"
      /\ a < p /\ p <= s => chunk = "Size" /\ chunk_size = q.val[j][p - a]
      /\ p = s + 1 => chunk = "Newline1" /\ chunk_size = q.num[j]
  BY <1>3 DEF SizeReads
<1> HIDE DEF c
<1>9. ASSUME SizeReads(q, j)', pos' \in Nat, pos' < l, result' = "InProgress" PROVE Reads(t, q)'
  BY <1>1, <1>3, <1>9 DEF Reads, ChunkReads
<1>6. CASE p < s
  <2>1. PICK i \in 1..(s - a) : i = p + 1 - a
    BY <1>4, <1>6
  <2>2. a + i = p + 1 /\ i - 1 = p - a /\ a + i \in Nat
    BY <2>1, <1>4
  <2>3. c.ch # "cr" /\ c.v \in 0..15 /\ q.val[j][i] \in 0..(Wrap - 1)
        /\ q.val[j][i] = q.val[j][i - 1] * 16 + c.v
    BY <2>2, <1>s, <1>t
  <2>4. chunk \in {"SizeStart", "Size"} /\ q.val[j][i - 1] = IF chunk = "SizeStart" THEN 0 ELSE chunk_size
    <3>1. CASE p = a
      BY <3>1, <2>2, <1>r, <1>s
    <3>2. CASE p # a
      BY <3>2, <2>2, <1>r, <1>4, <1>6
    <3> QED BY <3>1, <3>2
  <2>5. SizeChar(c.ch, c.v)
    BY <1>1, <1>5, <2>4
  <2>6. /\ GoToChunk("Size") /\ chunk_len' = chunk_len
        /\ chunk_size' = (q.val[j][i - 1] * 16 + c.v) % Wrap
    BY <2>3, <2>4, <2>5 DEF SizeChar
  <2>7. \A k \in 0..(Wrap - 1) : k % Wrap = k
    OBVIOUS
  <2>8. chunk_size' = q.val[j][i]
    BY <2>3, <2>6, <2>7
  <2>9. pos' - a = i /\ ~(pos' = a) /\ a < pos' /\ pos' <= s /\ pos' # s + 1 /\ pos' \in Nat /\ pos' < s + 2
    BY <1>4, <1>6, <2>1
  <2>10. chunk_size' = q.val[j][pos' - a]
    BY <2>8, <2>9
  <2>11. result' = "InProgress" /\ chunk' = "Size" /\ state' = "BodyChunk" /\ chunk_len' = 0
    BY <1>1, <2>6 DEF GoToChunk
  <2>12. a <= pos'
    BY <1>4
  <2>13. SizeReads(q, j)'
    BY <1>3, <2>9, <2>10, <2>11, <2>12 DEF SizeReads
  <2>14. pos' < l
    BY <1>4, <1>6
  <2> QED BY <1>9, <2>9, <2>11, <2>13, <2>14
<1>7. CASE p = s
  <2>1. c.ch = "cr" /\ chunk = "Size" /\ chunk_size = q.num[j]
    BY <1>r, <1>s, <1>t, <1>4, <1>7
  <2>2. GoToChunk("Newline1") /\ chunk_size' = q.num[j] /\ chunk_len' = 0
    BY <1>1, <1>5, <2>1 DEF SizeChar
  <2>3. pos' = s + 1 /\ ~(pos' = a) /\ a <= pos' /\ ~(pos' <= s) /\ pos' \in Nat /\ pos' < s + 2 /\ pos' < l
    BY <1>4, <1>7
  <2>4. SizeReads(q, j)'
    BY <1>1, <1>3, <2>2, <2>3 DEF SizeReads, GoToChunk
  <2> QED BY <1>9, <2>2, <2>3, <2>4 DEF GoToChunk
<1>8. CASE p = s + 1
  <2>1. c.ch = "lf" /\ chunk = "Newline1" /\ chunk_size = q.num[j]
    <3>1. s + 2 = p + 1 /\ s + 2 \in Nat
      BY <1>8
    <3>2. c = t[s + 2]
      BY <3>1, <1>t
    <3> QED BY <3>2, <1>r, <1>s, <1>8
  <2>2. SizeEnd(c.ch)
    BY <1>1, <1>5, <2>1
  <2>3. pos' = s + 2 /\ pos' \in Nat
    BY <1>4, <1>8
  <2>4. CASE j = q.m + 1
    <3>1. state' = "Parsed" /\ result' = "Ok"
      BY <1>2, <2>1, <2>2, <2>4 DEF SizeEnd
    <3>2. pos' = Len(t) /\ pos' = q.size[q.m + 1] + 2
      BY <1>2, <1>3, <2>3, <2>4
    <3>3. pos' <= Len(t)
      BY <1>3, <3>2
    <3> QED BY <1>1, <2>3, <3>1, <3>2, <3>3 DEF Reads, ChunkReads
  <2>5. CASE j # q.m + 1
    <3>1. PICK n \in Nat : n = q.num[j] /\ n # 0 /\ n <= MaxReserve
      BY <1>2, <2>5
    <3>2. chunk' = "Body" /\ result' = "InProgress" /\ chunk_size' = n /\ chunk_len' = 0 /\ state' = "BodyChunk"
      BY <1>1, <2>1, <2>2, <3>1 DEF SizeEnd
    <3>3. PICK b \in Nat : b = q.at[j] /\ b = s + n + 4 /\ b < l
      BY <1>2, <1>3, <2>5, <3>1
    <3>4. pos' < b - 2 /\ pos' < b /\ pos' < l /\ pos' - s - 2 = 0
      BY <2>3, <3>1, <3>3
    <3>5. ~(pos' >= b - 2) /\ pos' # b - 2 /\ pos' # b - 1
      BY <2>3, <3>3, <3>4
    <3>6. DataReads(q, j)'
      BY <1>3, <2>3, <3>1, <3>2, <3>3, <3>4, <3>5 DEF DataReads
    <3>7. j \in 1..q.m
      BY <1>2, <2>5
    <3>8. ChunkReads(q)'
      BY <1>1, <3>6, <3>7 DEF ChunkReads
    <3>9. pos' # Len(t) /\ pos' <= Len(t)
      BY <1>3, <2>3, <3>4
    <3> QED BY <2>3, <3>2, <3>8, <3>9 DEF Reads
  <2> QED BY <2>4, <2>5
<1> QED BY <1>4, <1>6, <1>7, <1>8

\* A character of the data of a chunk, or of what ends it.
LEMMA DataRead ==
  ASSUME NEW t, NEW q, IsResponse(t, q), Reads(t, q), IsChunkedBody(t, q), ReadNext(t),
         NEW j \in 1..q.m, DataReads(q, j)
  PROVE  Reads(t, q)'
<1> DEFINE c == t[pos + 1]
<1>1. /\ pos \in Nat /\ pos' = pos + 1 /\ ChunkChar(c.ch, c.v) /\ q.enc[q.n] = Chunked /\ q.m \in Nat
      /\ state = "BodyChunk" /\ j \in 1..(q.m + 1) /\ j # q.m + 1 /\ j \in Nat
  BY DEF ReadNext, ParseChar, DataReads, Reads, LineChar, HeaderChar, BodyChar, IsChunkedBody
<1>2. /\ q.size[j] \in Nat /\ Len(t) \in Nat
      /\ j \in 1..q.m /\ IsChunk(t, q, j) /\ q.num[j] \in Nat \ {0}
      /\ q.at[j] \in Nat /\ q.at[j] = q.size[j] + q.num[j] + 4 /\ q.at[j] < Len(t)
  <2>1. \A i \in 1..(q.m + 1) : i # q.m + 1 =>
           /\ q.size[i] \in Nat /\ Len(t) \in Nat
           /\ IsChunk(t, q, i) /\ q.num[i] \in Nat \ {0}
           /\ q.at[i] \in Nat /\ q.at[i] = q.size[i] + q.num[i] + 4 /\ q.at[i] < Len(t)
    BY SizePlace
  <2> QED BY <1>1, <2>1
<1>3. PICK p \in Nat, s \in Nat, n \in Nat, b \in Nat, l \in Nat :
         p = pos /\ s = q.size[j] /\ n = q.num[j] /\ b = q.at[j] /\ l = Len(t)
  BY <1>1, <1>2
<1>4. n # 0 /\ b = s + n + 4 /\ b < l /\ s + 2 <= p /\ p < b /\ pos' = p + 1
  BY <1>1, <1>2, <1>3 DEF DataReads
<1>5. ChunkChar(c.ch, c.v) => \/ chunk = "Body" /\ ChunkData
                              \/ chunk \in {"BodyExpectNewLine", "Newline2"} /\ ChunkEnd(c.ch)
                              \/ chunk \notin {"Body", "BodyExpectNewLine", "Newline2"}
  BY DEF ChunkChar, SizeChar, SizeEnd, ChunkData, ChunkEnd
<1>t. \A i \in Nat : i = p + 1 => c = t[i]
  BY <1>3
<1>s. t[b - 1].ch = "cr" /\ t[b].ch = "lf"
  BY <1>2, <1>3 DEF IsChunk
<1>r. /\ p < b - 2 => chunk = "Body" /\ chunk_size = n /\ chunk_len = p - s - 2
      /\ p >= b - 2 => chunk_len = 0
      /\ p = b - 2 => chunk = "BodyExpectNewLine"
      /\ p = b - 1 => chunk = "Newline2"
  BY <1>3 DEF DataReads
<1> HIDE DEF c
<1>6. pos' \in Nat /\ pos' < l /\ s + 2 <= pos'
  BY <1>4
<1>7. CASE p < b - 2
  <2>1. chunk = "Body" /\ chunk_size = n /\ chunk_len = p - s - 2 /\ ChunkData
    BY <1>1, <1>5, <1>7, <1>r
  <2>2. CASE p + 1 < b - 2
    <3>1. chunk_len + 1 # chunk_size /\ chunk_len + 1 = pos' - s - 2
      BY <1>4, <2>1, <2>2
    <3>2. GoToChunk("Body") /\ chunk_len' = pos' - s - 2 /\ chunk_size' = n
      BY <2>1, <3>1 DEF ChunkData
    <3>3. pos' < b /\ ~(pos' >= b - 2) /\ pos' # b - 2 /\ pos' # b - 1
      BY <1>4, <2>2
    <3>4. DataReads(q, j)'
      BY <1>1, <1>3, <1>6, <3>2, <3>3 DEF DataReads, GoToChunk
    <3> QED BY <1>1, <1>3, <1>6, <3>2, <3>4, SMTT(30) DEF Reads, ChunkReads, GoToChunk
  <2>3. CASE p + 1 = b - 2
    <3>1. chunk_len + 1 = chunk_size
      BY <1>4, <2>1, <2>3
    <3>2. GoToChunk("BodyExpectNewLine") /\ chunk_len' = 0
      BY <2>1, <3>1 DEF ChunkData
    <3>3. pos' < b /\ ~(pos' < b - 2) /\ pos' # b - 1
      BY <1>4, <2>3
    <3>4. DataReads(q, j)'
      BY <1>1, <1>3, <1>6, <3>2, <3>3 DEF DataReads, GoToChunk
    <3> QED BY <1>1, <1>3, <1>6, <3>2, <3>4 DEF Reads, ChunkReads, GoToChunk
  <2> QED BY <1>7, <2>2, <2>3
<1>8. CASE p = b - 2
  <2>1. c.ch = "cr" /\ chunk = "BodyExpectNewLine" /\ chunk_len = 0
    <3>1. b - 1 = p + 1 /\ b - 1 \in Nat
      BY <1>4, <1>8
    <3>2. c = t[b - 1]
      BY <3>1, <1>t
    <3> QED BY <3>2, <1>r, <1>s, <1>8
  <2>2. GoToChunk("Newline2") /\ chunk_len' = 0
    BY <1>1, <1>5, <2>1 DEF ChunkEnd
  <2>3. pos' = b - 1 /\ pos' < b /\ ~(pos' < b - 2) /\ pos' # b - 2
    BY <1>4, <1>8
  <2>4. DataReads(q, j)'
    BY <1>1, <1>3, <1>6, <2>2, <2>3 DEF DataReads, GoToChunk
  <2> QED BY <1>1, <1>3, <1>6, <2>2, <2>4 DEF Reads, ChunkReads, GoToChunk
<1>9. CASE p = b - 1
  <2>1. c.ch = "lf" /\ chunk = "Newline2" /\ chunk_len = 0
    <3>1. b = p + 1
      BY <1>9
    <3>2. c = t[b]
      BY <3>1, <1>t
    <3> QED BY <3>2, <1>r, <1>s, <1>4, <1>9
  <2>2. GoToChunk("SizeStart") /\ chunk_len' = 0
    BY <1>1, <1>5, <2>1 DEF ChunkEnd
  <2>3. pos' = b
    BY <1>4, <1>9
  <2>4. PICK i \in 1..(q.m + 1) : i = j + 1
    BY <1>1
  <2>5. i - 1 = j
    BY <1>1, <2>4
  <2>6. PICK k \in Nat : k = q.size[i] /\ b < k
    <3>1. q.at[i - 1] < q.size[i] /\ q.size[i] \in Nat
      BY <2>4, SizePlace
    <3> QED BY <2>5, <3>1, <1>3
  <2>7. b <= pos' /\ pos' < k + 2 /\ ~(b < pos') /\ pos' # k + 1
    BY <2>3, <2>6
  <2>8. SizeReads(q, i)'
    BY <1>1, <1>3, <2>2, <2>3, <2>5, <2>6, <2>7 DEF SizeReads, GoToChunk
  <2> QED BY <1>1, <1>3, <1>6, <2>2, <2>4, <2>8, SMTT(30) DEF Reads, ChunkReads, GoToChunk
<1> QED BY <1>4, <1>7, <1>8, <1>9

\* A character of a chunked body.
LEMMA ChunksRead ==
  ASSUME NEW t, NEW q, IsResponse(t, q), Reads(t, q), ChunkReads(q), ReadNext(t)
  PROVE  Reads(t, q)'
<1>1. IsChunkedBody(t, q)
  BY DEF IsResponse, IsPlainBody, ChunkReads
<1>2. CASE \E j \in 1..(q.m + 1) : SizeReads(q, j)
  BY <1>1, <1>2, SizeRead
<1>3. CASE \E j \in 1..q.m : DataReads(q, j)
  BY <1>1, <1>3, DataRead
<1>4. CASE pos = q.size[q.m + 1] + 2
  BY <1>1, <1>4 DEF IsChunkedBody, Reads, ReadNext, ParseChar
<1> QED BY <1>2, <1>3, <1>4 DEF ChunkReads

\* A response whose status code is known is read character by character, and is
\* complete with its last one, whichever way its body is delimited.
THEOREM ResponseRead ==
  ASSUME NEW t, NEW q, IsResponse(t, q), Reads(t, q), ReadNext(t)
  PROVE  Reads(t, q)'
BY StatusLineRead, HeadRead, PlainBodyRead, ChunksRead DEF Reads

\* A new parser begins every response.
LEMMA ResponseAtStart ==
  ASSUME NEW t, NEW q, IsResponse(t, q), ResponseInit, pos = 0
  PROVE  Reads(t, q)
<1>1. /\ q.minor \in Nat /\ 8 <= q.minor
      /\ q.code \in Nat /\ q.minor + 2 <= q.code
      /\ q.text \in Nat /\ q.code <= q.text
  BY DEF IsResponse, IsStatusLine
<1>2. q.end[0] = q.text + 2 /\ q.end[0] <= q.end[q.n] /\ q.end[q.n] \in Nat /\ Len(t) \in Nat /\ q.end[q.n] + 2 <= Len(t)
  BY HeadBeforeEnd
<1>3. PICK e \in Nat, l \in Nat : e = q.end[q.n] /\ l = Len(t)
  BY <1>2
<1>4. 0 # l
  BY <1>2, <1>3
<1>5. LinePlace(0, q.minor, q.code, q.text)
  BY <1>1 DEF LinePlace, ResponseInit
<1>6. LineReads(q)
  BY <1>1, <1>5 DEF LineReads, ResponseInit
<1> QED BY <1>3, <1>4, <1>6 DEF Reads, ResponseInit

-----------------------------------------------------------------------------
(* The texts of the grammar, and those of PackToString, are responses as   *)
(* described above, over the positions of their characters.                *)

CharText == [ch : Chars, n : Meanings, v : 0..16]

\* A string becomes a text of its characters.
LEMMA PlainText ==
  ASSUME NEW string \in Seq(Chars)
  PROVE  /\ Plain(string) \in Seq(CharText) /\ Len(Plain(string)) = Len(string)
         /\ \A i \in 1..Len(string) : Plain(string)[i].ch = string[i]
<1>1. PICK n \in Nat : n = Len(string)
  OBVIOUS
<1>2. \A i \in 1..n : string[i] \in Chars
  BY <1>1
<1>3. \A c \in Chars : Char(c, NoLength, 16) \in CharText /\ Char(c, NoLength, 16).ch = c
  BY DEF Char, CharText, Meanings
<1>4. Plain(string) = [i \in 1..n |-> Char(string[i], NoLength, 16)]
  BY <1>1 DEF Plain
<1> HIDE DEF Plain
<1>5. Plain(string) \in [1..n -> CharText]
  BY <1>2, <1>3, <1>4
<1>6. Plain(string) \in Seq(CharText) /\ Len(Plain(string)) = n
  BY <1>1, <1>5
<1>7. \A i \in 1..n : Plain(string)[i].ch = string[i]
  BY <1>2, <1>3, <1>4
<1> QED BY <1>1, <1>6, <1>7

\* Where such a text is, a text spells the string.
LEMMA PlainSpells ==
  ASSUME NEW string \in Seq(Chars), NEW t, NEW k \in Nat, IsAtPlace(t, k, Plain(string))
  PROVE  Spells(t, k, string)
BY PlainText DEF IsAtPlace, Spells

\* As PlainText, for strings of fewer characters.
LEMMA PlainLength ==
  ASSUME NEW S, S \subseteq Chars, NEW string \in Seq(S), NEW n, n = Len(string)
  PROVE  HasLength(CharText, Plain(string), n)
<1>1. string \in Seq(Chars)
  OBVIOUS
<1> QED BY <1>1, PlainText DEF HasLength

\* The end of a line has two characters, and the last one has what the line means.
LEMMA LineEndText ==
  ASSUME NEW n \in Meanings
  PROVE  /\ HasLength(CharText, LineEnd(n), 2)
         /\ LineEnd(n)[1].ch = "cr" /\ LineEnd(n)[2].ch = "lf" /\ LineEnd(n)[2].n = n
<1>1. Char("cr", n, 16) \in CharText /\ Char("lf", n, 16) \in CharText
  BY DEF Char, CharText, Chars, Ctl
<1>2. Char("cr", n, 16).ch = "cr" /\ Char("lf", n, 16).ch = "lf" /\ Char("lf", n, 16).n = n
  BY DEF Char
<1> HIDE DEF Char
<1> QED BY <1>1, <1>2 DEF LineEnd, HasLength

\* What a text has where a line ends.
LEMMA LineEndPlace ==
  ASSUME NEW n \in Meanings, NEW t, NEW k \in Nat, IsAtPlace(t, k, LineEnd(n))
  PROVE  t[k + 1].ch = "cr" /\ t[k + 2].ch = "lf" /\ t[k + 2].n = n
BY LineEndText DEF IsAtPlace, HasLength

\* What of a status line, and of a header, fits.
FittingLine(minor, number, words) ==
    /\ minor \in Seq(DigitChars) /\ Len(minor) \in 1..(MaxMinor - 1)
    /\ number \in Seq(DigitChars) /\ Len(number) \in 1..(MaxCode + 1)
    /\ words \in Seq(Chars) /\ Len(words) <= MaxText + 1
    /\ words # <<>> => words[1] \in {"sp", "tab"}
    /\ \A i \in 2..Len(words) : words[i] \notin Ctl

FittingHeader(h) ==
    /\ h.key \in Seq(NameChars) /\ h.key # <<>>
    /\ h.blanks \in Seq({"sp", "tab"})
    /\ h.value \in Seq(Chars \ Ctl) /\ (h.value # <<>> => h.value[1] # "sp")
    /\ h.means \in Meanings

HTTP == <<"h", "t", "t", "p", "slash", "1", "dot">>

\* Where the parts of a status line are.
LEMMA StatusLinePlaces ==
  ASSUME NEW minor, NEW number, NEW words,
         NEW lm \in Nat, NEW ln \in Nat, NEW lw \in Nat,
         HasLength(Chars, minor, lm), HasLength(Chars, number, ln), HasLength(Chars, words, lw),
         NEW u \in Nat, u = 7 + lm, NEW c \in Nat, c = u + 1 + ln, NEW d \in Nat, d = c + lw,
         NEW t, IsAtPlace(t, 0, StatusLine(minor, number, words))
  PROVE  /\ HasLength(CharText, StatusLine(minor, number, words), d + 2)
         /\ Spells(t, 0, HTTP) /\ Spells(t, 7, minor) /\ t[u + 1].ch = "sp"
         /\ Spells(t, u + 1, number) /\ Spells(t, c, words)
         /\ t[d + 1].ch = "cr" /\ t[d + 2].ch = "lf"
<1> DEFINE sp == <<"sp">>
<1> DEFINE a1 == Plain(HTTP)
<1> DEFINE a2 == Plain(minor)
<1> DEFINE a3 == Plain(sp)
<1> DEFINE a4 == Plain(number)
<1> DEFINE a5 == Plain(words)
<1> DEFINE a6 == LineEnd(NoLength)
<1> DEFINE c2 == Cat(a1, a2)
<1> DEFINE c3 == Cat(c2, a3)
<1> DEFINE c4 == Cat(c3, a4)
<1> DEFINE c5 == Cat(c4, a5)
<1> DEFINE c6 == Cat(c5, a6)
<1>1. StatusLine(minor, number, words) = c6
  BY DEF StatusLine, Cat, HTTP
<1>2. /\ minor \in Seq(Chars) /\ number \in Seq(Chars) /\ words \in Seq(Chars)
      /\ lm = Len(minor) /\ ln = Len(number) /\ lw = Len(words)
  BY DEF HasLength
<1>3. HTTP \in Seq(Chars) /\ Len(HTTP) = 7 /\ sp \in Seq(Chars) /\ Len(sp) = 1 /\ sp[1] = "sp"
  BY DEF HTTP, Chars, NameChars, DigitChars, Special
<1>4. NoLength \in Meanings
  BY DEF Meanings
<1> HIDE DEF sp
<1>5. /\ HasLength(CharText, a1, 7) /\ HasLength(CharText, a2, lm) /\ HasLength(CharText, a3, 1)
      /\ HasLength(CharText, a4, ln) /\ HasLength(CharText, a5, lw) /\ HasLength(CharText, a6, 2)
  BY <1>2, <1>3, <1>4, PlainText, LineEndText DEF HasLength
<1>6. c2 = Cat(a1, a2) /\ c3 = Cat(c2, a3) /\ c4 = Cat(c3, a4) /\ c5 = Cat(c4, a5) /\ c6 = Cat(c5, a6)
  OBVIOUS
<1> HIDE DEF a1, a2, a3, a4, a5, a6, c2, c3, c4, c5, c6
<1>7. /\ HasLength(CharText, c2, u) /\ HasLength(CharText, c3, u + 1) /\ HasLength(CharText, c4, c)
      /\ HasLength(CharText, c5, d) /\ HasLength(CharText, c6, d + 2)
  <2>1. c = (u + 1) + ln
    OBVIOUS
  <2>2. HasLength(CharText, c2, u)
    BY <1>5, <1>6, CatLength
  <2>3. HasLength(CharText, c3, u + 1)
    BY <1>5, <1>6, <2>2, CatLength
  <2>4. HasLength(CharText, c4, c)
    BY <1>5, <1>6, <2>1, <2>3, CatLength
  <2>5. HasLength(CharText, c5, d)
    BY <1>5, <1>6, <2>4, CatLength
  <2>6. HasLength(CharText, c6, d + 2)
    BY <1>5, <1>6, <2>5, CatLength
  <2> QED BY <2>2, <2>3, <2>4, <2>5, <2>6
<1>8. IsAtPlace(t, 0, c5) /\ IsAtPlace(t, d, a6)
  BY <1>1, <1>5, <1>6, <1>7, LastPart
<1>9. IsAtPlace(t, 0, c4) /\ IsAtPlace(t, c, a5)
  BY <1>5, <1>6, <1>7, <1>8, LastPart
<1>10. IsAtPlace(t, 0, c3) /\ IsAtPlace(t, u + 1, a4)
  BY <1>5, <1>6, <1>7, <1>9, LastPart
<1>11. IsAtPlace(t, 0, c2) /\ IsAtPlace(t, u, a3)
  BY <1>5, <1>6, <1>7, <1>10, LastPart
<1>12. IsAtPlace(t, 0, a1) /\ IsAtPlace(t, 7, a2)
  BY <1>5, <1>6, <1>11, LastPart
<1>13. Spells(t, 0, HTTP) /\ Spells(t, 7, minor)
  BY <1>2, <1>3, <1>12, PlainSpells DEF a1, a2
<1>14. Spells(t, u + 1, number) /\ Spells(t, c, words) /\ Spells(t, u, sp)
  BY <1>2, <1>3, <1>9, <1>10, <1>11, PlainSpells DEF a3, a4, a5
<1>15. t[u + 1].ch = "sp"
  BY <1>3, <1>14 DEF Spells
<1>16. t[d + 1].ch = "cr" /\ t[d + 2].ch = "lf"
  BY <1>4, <1>8, LineEndPlace DEF a6
<1> QED BY <1>1, <1>7, <1>13, <1>14, <1>15, <1>16

\* The first line of the grammar is one as the parser reads it.
LEMMA StatusLineOfGrammar ==
  ASSUME NEW minor, NEW number, NEW words, FittingLine(minor, number, words),
         NEW t, IsAtPlace(t, 0, StatusLine(minor, number, words)),
         NEW q, q.minor = 7 + Len(minor), q.code = q.minor + 1 + Len(number), q.text = q.code + Len(words)
  PROVE  IsStatusLine(t, q) /\ HasLength(CharText, StatusLine(minor, number, words), q.text + 2)
<1>1. /\ minor \in Seq(DigitChars) /\ Len(minor) \in 1..(MaxMinor - 1)
      /\ number \in Seq(DigitChars) /\ Len(number) \in 1..(MaxCode + 1)
      /\ words \in Seq(Chars) /\ Len(words) <= MaxText + 1
      /\ words # <<>> => words[1] \in {"sp", "tab"}
      /\ \A i \in 2..Len(words) : words[i] \notin Ctl
  BY DEF FittingLine
<1>2. PICK lm \in Nat, ln \in Nat, lw \in Nat : lm = Len(minor) /\ ln = Len(number) /\ lw = Len(words)
  BY <1>1
<1>3. PICK u \in Nat, c \in Nat, d \in Nat : u = 7 + lm /\ c = u + 1 + ln /\ d = c + lw
  <2>1. 7 + lm \in Nat /\ (7 + lm) + 1 + ln \in Nat /\ ((7 + lm) + 1 + ln) + lw \in Nat
    OBVIOUS
  <2> QED BY <2>1
<1>4. q.minor = u /\ q.code = c /\ q.text = d
  BY <1>2, <1>3
<1>5. /\ HasLength(CharText, StatusLine(minor, number, words), d + 2)
      /\ Spells(t, 0, HTTP) /\ Spells(t, 7, minor) /\ t[u + 1].ch = "sp"
      /\ Spells(t, u + 1, number) /\ Spells(t, c, words)
      /\ t[d + 1].ch = "cr" /\ t[d + 2].ch = "lf"
  <2>1. HasLength(Chars, minor, lm) /\ HasLength(Chars, number, ln) /\ HasLength(Chars, words, lw)
    <3>1. DigitChars \subseteq Chars
      BY DEF Chars, NameChars
    <3> QED BY <3>1, <1>1, <1>2 DEF HasLength
  <2> QED BY <2>1, <1>3, StatusLinePlaces
<1>6. /\ t[1].ch = "h" /\ t[2].ch = "t" /\ t[3].ch = "t" /\ t[4].ch = "p" /\ t[5].ch = "slash"
      /\ t[6].ch = "1" /\ t[7].ch = "dot"
  <2>1. /\ Len(HTTP) = 7 /\ HTTP[1] = "h" /\ HTTP[2] = "t" /\ HTTP[3] = "t" /\ HTTP[4] = "p"
        /\ HTTP[5] = "slash" /\ HTTP[6] = "1" /\ HTTP[7] = "dot"
    BY DEF HTTP
  <2>2. \A i \in 1..7 : t[0 + i].ch = HTTP[i] /\ 0 + i = i
    BY <1>5, <2>1 DEF Spells
  <2> QED BY <2>1, <2>2
<1>7. \A i \in 8..u : t[i].ch \in DigitChars
  <2>1. \A i \in (7 + 1)..u : t[i].ch \in DigitChars
    BY <1>1, <1>2, <1>3, <1>5, SpelledIn
  <2> QED BY <2>1
<1>8. \A i \in (u + 2)..c : t[i].ch \in DigitChars
  <2>1. \A i \in ((u + 1) + 1)..c : t[i].ch \in DigitChars
    BY <1>1, <1>2, <1>3, <1>5, SpelledIn
  <2>2. (u + 1) + 1 = u + 2
    OBVIOUS
  <2> QED BY <2>1, <2>2
<1>9. \A i \in 1..lw : t[c + i].ch = words[i]
  BY <1>2, <1>5 DEF Spells
<1>10. c < d => t[c + 1].ch \in {"sp", "tab"}
  <2>1. c < d => 1 \in 1..lw
    BY <1>3
  <2>2. 1 \in 1..lw => words # <<>> /\ t[c + 1].ch = words[1]
    BY <1>1, <1>2, <1>9
  <2> QED BY <2>1, <2>2, <1>1
<1>11. \A i \in (c + 2)..d : t[i].ch \notin Ctl
  <2> TAKE i \in (c + 2)..d
  <2>1. i - c \in 2..lw /\ i - c \in 1..lw /\ c + (i - c) = i
    BY <1>3
  <2> QED BY <2>1, <1>1, <1>2, <1>9
<1>12. /\ 8 <= u /\ u < 7 + MaxMinor /\ u + 2 <= c /\ c <= u + 2 + MaxCode
       /\ c <= d /\ d <= c + 1 + MaxText
  BY <1>1, <1>2, <1>3, ResponseAssumption, SMTT(30)
<1>13. IsStatusLine(t, q)
  BY <1>4, <1>5, <1>6, <1>7, <1>8, <1>10, <1>11, <1>12 DEF IsStatusLine
<1> QED BY <1>4, <1>5, <1>13

\* Where the parts of a header line are, which begins after the first k characters.
LEMMA HeaderLinePlaces ==
  ASSUME NEW h, h.means \in Meanings, NEW t, NEW k \in Nat, IsAtPlace(t, k, LineText(h)),
         NEW lk \in Nat, NEW lb \in Nat, NEW lv \in Nat,
         HasLength(Chars, h.key, lk), HasLength(Chars, h.blanks, lb), HasLength(Chars, h.value, lv),
         NEW c \in Nat, c = k + lk, NEW b \in Nat, b = c + 1 + lb, NEW d \in Nat, d = b + lv
  PROVE  /\ HasLength(CharText, LineText(h), lk + 1 + lb + lv + 2)
         /\ Spells(t, k, h.key) /\ t[c + 1].ch = "colon" /\ Spells(t, c + 1, h.blanks)
         /\ Spells(t, b, h.value)
         /\ t[d + 1].ch = "cr" /\ t[d + 2].ch = "lf" /\ t[d + 2].n = h.means
<1> DEFINE colon == <<"colon">>
<1> DEFINE a1 == Plain(h.key)
<1> DEFINE a2 == Plain(colon)
<1> DEFINE a3 == Plain(h.blanks)
<1> DEFINE a4 == Plain(h.value)
<1> DEFINE a5 == LineEnd(h.means)
<1> DEFINE c2 == Cat(a1, a2)
<1> DEFINE c3 == Cat(c2, a3)
<1> DEFINE c4 == Cat(c3, a4)
<1> DEFINE c5 == Cat(c4, a5)
<1>1. LineText(h) = c5
  BY DEF LineText, Cat
<1>2. /\ h.key \in Seq(Chars) /\ h.blanks \in Seq(Chars) /\ h.value \in Seq(Chars)
      /\ lk = Len(h.key) /\ lb = Len(h.blanks) /\ lv = Len(h.value)
  BY DEF HasLength
<1>3. colon \in Seq(Chars) /\ Len(colon) = 1 /\ colon[1] = "colon"
  BY DEF Chars, Special
<1> HIDE DEF colon
<1>5. /\ HasLength(CharText, a1, lk) /\ HasLength(CharText, a2, 1) /\ HasLength(CharText, a3, lb)
      /\ HasLength(CharText, a4, lv) /\ HasLength(CharText, a5, 2)
  BY <1>2, <1>3, PlainText, LineEndText DEF HasLength
<1>6. c2 = Cat(a1, a2) /\ c3 = Cat(c2, a3) /\ c4 = Cat(c3, a4) /\ c5 = Cat(c4, a5)
  OBVIOUS
<1> HIDE DEF a1, a2, a3, a4, a5, c2, c3, c4, c5
<1>7. PICK x \in Nat, y \in Nat, z \in Nat : x = lk + 1 /\ y = x + lb /\ z = y + lv
  <2>1. lk + 1 \in Nat /\ (lk + 1) + lb \in Nat /\ ((lk + 1) + lb) + lv \in Nat
    OBVIOUS
  <2> QED BY <2>1
<1>8. c + 1 = k + x /\ b = k + y /\ d = k + z /\ z + 2 = lk + 1 + lb + lv + 2
  BY <1>7
<1>9. /\ HasLength(CharText, c2, x) /\ HasLength(CharText, c3, y) /\ HasLength(CharText, c4, z)
      /\ HasLength(CharText, c5, z + 2)
  <2>1. HasLength(CharText, c2, x)
    BY <1>5, <1>6, <1>7, CatLength
  <2>2. HasLength(CharText, c3, y)
    BY <1>5, <1>6, <1>7, <2>1, CatLength
  <2>3. HasLength(CharText, c4, z)
    BY <1>5, <1>6, <1>7, <2>2, CatLength
  <2>4. HasLength(CharText, c5, z + 2)
    BY <1>5, <1>6, <2>3, CatLength
  <2> QED BY <2>1, <2>2, <2>3, <2>4
<1>11. IsAtPlace(t, k, c4) /\ IsAtPlace(t, d, a5)
  BY <1>1, <1>5, <1>6, <1>8, <1>9, LastPart
<1>12. IsAtPlace(t, k, c3) /\ IsAtPlace(t, b, a4)
  BY <1>5, <1>6, <1>8, <1>9, <1>11, LastPart
<1>13. IsAtPlace(t, k, c2) /\ IsAtPlace(t, c + 1, a3)
  BY <1>5, <1>6, <1>8, <1>9, <1>12, LastPart
<1>14. IsAtPlace(t, k, a1) /\ IsAtPlace(t, c, a2)
  BY <1>5, <1>6, <1>13, LastPart
<1>15. Spells(t, k, h.key) /\ Spells(t, c + 1, h.blanks) /\ Spells(t, b, h.value) /\ Spells(t, c, colon)
  <2>1. Spells(t, k, h.key) /\ Spells(t, c, colon)
    BY <1>2, <1>3, <1>14, PlainSpells DEF a1, a2
  <2>2. Spells(t, c + 1, h.blanks)
    BY <1>2, <1>13, PlainSpells DEF a3
  <2>3. Spells(t, b, h.value)
    BY <1>2, <1>12, PlainSpells DEF a4
  <2> QED BY <2>1, <2>2, <2>3
<1>16. t[c + 1].ch = "colon"
  BY <1>3, <1>15 DEF Spells
<1>17. t[d + 1].ch = "cr" /\ t[d + 2].ch = "lf" /\ t[d + 2].n = h.means
  BY <1>11, LineEndPlace DEF a5
<1> QED BY <1>1, <1>8, <1>9, <1>15, <1>16, <1>17

\* The length of a header line.
LEMMA LineLength ==
  ASSUME NEW h, FittingHeader(h)
  PROVE  \E lk \in Nat, lb \in Nat, lv \in Nat :
            /\ lk = Len(h.key) /\ lb = Len(h.blanks) /\ lv = Len(h.value)
            /\ HasLength(CharText, LineText(h), lk + 1 + lb + lv + 2)
<1>1. /\ h.key \in Seq(NameChars) /\ h.blanks \in Seq({"sp", "tab"}) /\ h.value \in Seq(Chars \ Ctl)
      /\ h.means \in Meanings
  BY DEF FittingHeader
<1>2. NameChars \subseteq Chars /\ {"sp", "tab"} \subseteq Chars
  BY DEF NameChars, Chars, Special
<1>3. PICK lk \in Nat, lb \in Nat, lv \in Nat :
         HasLength(Chars, h.key, lk) /\ HasLength(Chars, h.blanks, lb) /\ HasLength(Chars, h.value, lv)
  BY <1>1, <1>2 DEF HasLength
<1>4. PICK c \in Nat, b \in Nat, d \in Nat : c = 0 + lk /\ b = c + 1 + lb /\ d = b + lv
  <2>1. 0 + lk \in Nat /\ (0 + lk) + 1 + lb \in Nat /\ ((0 + lk) + 1 + lb) + lv \in Nat
    OBVIOUS
  <2> QED BY <2>1
<1>5. PICK t : t = LineText(h)
  OBVIOUS
<1>6. IsAtPlace(t, 0, LineText(h))
  BY <1>5 DEF IsAtPlace
<1>7. HasLength(CharText, LineText(h), lk + 1 + lb + lv + 2)
  BY <1>1, <1>3, <1>4, <1>6, HeaderLinePlaces
<1>8. lk = Len(h.key) /\ lb = Len(h.blanks) /\ lv = Len(h.value)
  BY <1>3 DEF HasLength
<1> QED BY <1>7, <1>8

\* A header line of the grammar is one as the parser reads it.
LEMMA HeaderLineOfGrammar ==
  ASSUME NEW h, FittingHeader(h), NEW t, NEW k \in Nat, IsAtPlace(t, k, LineText(h)),
         NEW q, NEW i, q.end[i - 1] = k,
         q.colon[i] = k + Len(h.key) + 1, q.lws[i] = q.colon[i] + Len(h.blanks),
         q.end[i] = q.lws[i] + Len(h.value) + 2,
         q.len[i] = IF q.len[i - 1] = NoLength /\ h.means \in LengthKinds THEN h.means ELSE q.len[i - 1],
         q.enc[i] = IF q.enc[i - 1] = NoLength /\ h.means \in EncodingKinds THEN h.means ELSE q.enc[i - 1]
  PROVE  IsHeaderLine(t, q, i)
<1>1. /\ h.key \in Seq(NameChars) /\ h.key # <<>> /\ h.blanks \in Seq({"sp", "tab"})
      /\ h.value \in Seq(Chars \ Ctl) /\ (h.value # <<>> => h.value[1] # "sp") /\ h.means \in Meanings
  BY DEF FittingHeader
<1>2. PICK lk \in Nat, lb \in Nat, lv \in Nat :
         lk = Len(h.key) /\ lb = Len(h.blanks) /\ lv = Len(h.value)
  BY <1>1
<1>3. lk # 0
  BY <1>1, <1>2
<1>4. HasLength(Chars, h.key, lk) /\ HasLength(Chars, h.blanks, lb) /\ HasLength(Chars, h.value, lv)
  <2>1. NameChars \subseteq Chars /\ {"sp", "tab"} \subseteq Chars
    BY DEF NameChars, Chars, Special
  <2> QED BY <2>1, <1>1, <1>2, SMTT(30) DEF HasLength
<1>5. PICK c \in Nat, b \in Nat, d \in Nat : c = k + lk /\ b = c + 1 + lb /\ d = b + lv
  <2>1. k + lk \in Nat /\ (k + lk) + 1 + lb \in Nat /\ ((k + lk) + 1 + lb) + lv \in Nat
    OBVIOUS
  <2> QED BY <2>1
<1>6. q.colon[i] = c + 1 /\ q.lws[i] = b /\ q.end[i] = d + 2
  BY <1>2, <1>5
<1>7. /\ Spells(t, k, h.key) /\ t[c + 1].ch = "colon" /\ Spells(t, c + 1, h.blanks)
      /\ Spells(t, b, h.value)
      /\ t[d + 1].ch = "cr" /\ t[d + 2].ch = "lf" /\ t[d + 2].n = h.means
  BY <1>1, <1>4, <1>5, HeaderLinePlaces
<1>8. \A j \in (k + 1)..c : t[j].ch \in NameChars
  BY <1>1, <1>2, <1>5, <1>7, SpelledIn
<1>9. \A j \in ((c + 1) + 1)..b : t[j].ch \in {"sp", "tab"}
  <2> DEFINE S == {"sp", "tab"}
  <2>1. h.blanks \in Seq(S) /\ Spells(t, c + 1, h.blanks) /\ b = (c + 1) + Len(h.blanks) /\ c + 1 \in Nat
    BY <1>1, <1>2, <1>5, <1>7
  <2> HIDE DEF S
  <2>2. \A j \in ((c + 1) + 1)..b : t[j].ch \in S
    BY <2>1, SpelledIn
  <2> QED BY <2>2 DEF S
<1>10. \A j \in (b + 1)..d : t[j].ch \notin Ctl
  <2> DEFINE S == Chars \ Ctl
  <2>1. h.value \in Seq(S) /\ Spells(t, b, h.value) /\ d = b + Len(h.value)
    BY <1>1, <1>2, <1>5, <1>7
  <2> HIDE DEF S
  <2>2. \A j \in (b + 1)..d : t[j].ch \in S
    BY <2>1, SpelledIn
  <2> QED BY <2>2 DEF S
<1>11. b + 1 < d + 1 => t[b + 1].ch # "sp"
  <2>1. b + 1 < d + 1 => 1 \in 1..lv
    BY <1>5
  <2>2. 1 \in 1..lv => h.value # <<>> /\ t[b + 1].ch = h.value[1]
    BY <1>1, <1>2, <1>7 DEF Spells
  <2> QED BY <2>1, <2>2, <1>1
<1>12. (c + 1) - 1 = c /\ (d + 2) - 2 = d /\ (d + 2) - 1 = d + 1
       /\ k + 2 <= c + 1 /\ c + 1 <= b /\ b + 2 <= d + 2
  BY <1>3, <1>5
<1>14. PICK colon, lws, end, begin : colon = q.colon[i] /\ lws = q.lws[i] /\ end = q.end[i] /\ begin = q.end[i - 1]
  OBVIOUS
<1>15. colon = c + 1 /\ lws = b /\ end = d + 2 /\ begin = k
  BY <1>6, <1>14
<1>16. /\ colon \in Nat /\ begin + 2 <= colon
       /\ lws \in Nat /\ colon <= lws /\ lws + 2 <= end
  BY <1>12, <1>15
<1>17. /\ \A j \in (begin + 1)..(colon - 1) : t[j].ch \in NameChars
       /\ t[colon].ch = "colon"
       /\ \A j \in (colon + 1)..lws : t[j].ch \in {"sp", "tab"}
       /\ \A j \in (lws + 1)..(end - 2) : t[j].ch \notin Ctl
  BY <1>7, <1>8, <1>9, <1>10, <1>12, <1>15
<1>18. /\ lws + 1 < end - 1 => t[lws + 1].ch # "sp"
       /\ t[end - 1].ch = "cr" /\ t[end].ch = "lf" /\ t[end].n = h.means
  BY <1>7, <1>11, <1>12, <1>15
<1> QED BY <1>14, <1>16, <1>17, <1>18 DEF IsHeaderLine

\* The first header of a kind is the one that counts.
LEMMA FirstCounts ==
  ASSUME NEW kinds, NoLength \notin kinds, NEW n \in Nat, NEW headers, DOMAIN headers = 1..n,
         NEW f, f[0] = NoLength,
         \A i \in 1..n : f[i] = IF f[i - 1] = NoLength /\ headers[i].means \in kinds
                                THEN headers[i].means ELSE f[i - 1]
  PROVE  FirstOf(headers, kinds) = f[n]
<1> DEFINE Silent(i) == \A j \in 1..i : headers[j].means \notin kinds
<1> DEFINE P(i) == \/ Silent(i) /\ f[i] = NoLength
                   \/ \E k \in 1..i : /\ headers[k].means \in kinds /\ f[i] = headers[k].means
                                      /\ Silent(k - 1)
<1> DEFINE D == {i \in Nat : i <= n => P(i)}
<1>1. 0 \in D
  OBVIOUS
<1>2. ASSUME NEW i \in Nat, i \in D PROVE i + 1 \in D
  <2> SUFFICES ASSUME i + 1 <= n PROVE P(i + 1)
    <3> HIDE DEF P
    <3> QED OBVIOUS
  <2>0. P(i)
    <3> HIDE DEF P
    <3>1. i <= n
      OBVIOUS
    <3> QED BY <3>1, <1>2
  <2>1. i <= n /\ i + 1 \in 1..n /\ (i + 1) - 1 = i /\ i + 1 \in 1..(i + 1)
    OBVIOUS
  <2>2. f[i + 1] = IF f[i] = NoLength /\ headers[i + 1].means \in kinds
                   THEN headers[i + 1].means ELSE f[i]
    BY <2>1
  <2>3. Silent(i) /\ headers[i + 1].means \notin kinds => Silent(i + 1)
    <3>1. \A j \in 1..(i + 1) : j \in 1..i \/ j = i + 1
      OBVIOUS
    <3> QED BY <3>1
  <2> HIDE DEF Silent
  <2>4. CASE Silent(i) /\ f[i] = NoLength
    BY <2>1, <2>2, <2>3, <2>4
  <2>5. CASE ~(Silent(i) /\ f[i] = NoLength)
    <3>1. PICK k \in 1..i : headers[k].means \in kinds /\ f[i] = headers[k].means /\ Silent(k - 1)
      BY <2>0, <2>5
    <3>2. k \in 1..(i + 1) /\ f[i + 1] = headers[k].means
      BY <2>2, <3>1
    <3> QED BY <3>1, <3>2
  <2> QED BY <2>4, <2>5
<1>3. \/ Silent(n) /\ f[n] = NoLength
      \/ \E k \in 1..n : headers[k].means \in kinds /\ f[n] = headers[k].means /\ Silent(k - 1)
  <2>1. n \in D
    <3> HIDE DEF D
    <3> QED BY <1>1, <1>2, NatSet
  <2>2. P(n)
    <3> HIDE DEF P
    <3> QED BY <2>1
  <2> QED BY <2>2
<1> DEFINE said == {i \in DOMAIN headers : headers[i].means \in kinds}
<1>5. CASE Silent(n) /\ f[n] = NoLength
  <2>1. said = {}
    BY <1>5
  <2> QED BY <1>5, <2>1 DEF FirstOf
<1>6. ASSUME NEW k \in 1..n, headers[k].means \in kinds, f[n] = headers[k].means, Silent(k - 1)
      PROVE  FirstOf(headers, kinds) = f[n]
  <2>1. k \in said /\ \A j \in said : k <= j
    <3>1. k \in said
      BY <1>6
    <3>2. ASSUME NEW j \in said, ~(k <= j) PROVE FALSE
      <4>1. j \in 1..(k - 1)
        BY <3>2
      <4> QED BY <4>1, <1>6
    <3> QED BY <3>1, <3>2
  <2>2. said \subseteq Nat /\ said # {}
    <3>1. said \subseteq 1..n
      OBVIOUS
    <3> QED BY <3>1, <2>1
  <2> HIDE DEF said
  <2>3. Min(said) = k
    <3>1. \A x \in said : (\A y \in said : x <= y) => x = k
      BY <2>1, <2>2
    <3> QED BY <2>1, <3>1 DEF Min
  <2>4. FirstOf(headers, kinds) = IF said = {} THEN NoLength ELSE headers[Min(said)].means
    BY DEF FirstOf, said
  <2> QED BY <1>6, <2>2, <2>3, <2>4
<1> HIDE DEF Silent
<1> QED BY <1>3, <1>5, <1>6

\* What no header says is of neither kind.
LEMMA KindsOfHeaders == NoLength \notin LengthKinds /\ NoLength \notin EncodingKinds /\ Chunked \notin LengthKinds
BY MaxBodyAssumption DEF NoLength, LengthKinds, EncodingKinds, Lengths, InvalidLength, Chunked, OtherEncoding

\* What the first headers of a list say of the body.
Running(f, kinds, headers, n) ==
    /\ f[0] = NoLength
    /\ \A i \in 1..n : f[i] = IF f[i - 1] = NoLength /\ headers[i].means \in kinds
                              THEN headers[i].means ELSE f[i - 1]

Meaningful(headers, n) == \A i \in 1..n : headers[i].means \in Meanings

\* The running value that the parser keeps of a kind ends as the first header of it.
LEMMA RunningFirst ==
  ASSUME NEW kinds, NoLength \notin kinds, NEW n \in Nat, NEW headers, DOMAIN headers = 1..n,
         Meaningful(headers, n)
  PROVE  \E f : Running(f, kinds, headers, n) /\ FirstOf(headers, kinds) = f[n]
<1> DEFINE step == [i \in 1..n |-> [x \in Meanings |-> IF x = NoLength /\ headers[i].means \in kinds
                                                      THEN headers[i].means ELSE x]]
<1>1. step \in [1..n -> [Meanings -> Meanings]] /\ NoLength \in Meanings
  BY DEF Meanings, Meaningful
<1>2. PICK f \in [0..n -> Meanings] : Recurs(f, n, NoLength, step)
  <2> HIDE DEF step
  <2> QED BY <1>1, Recursion
<1>3. \A i \in 1..n : i - 1 \in 0..n
  OBVIOUS
<1>4. \A i \in 1..n : f[i] = step[i][f[i - 1]] /\ f[i - 1] \in Meanings
  BY <1>2, <1>3 DEF Recurs
<1>5. /\ f[0] = NoLength
      /\ \A i \in 1..n : f[i] = IF f[i - 1] = NoLength /\ headers[i].means \in kinds
                                THEN headers[i].means ELSE f[i - 1]
  BY <1>2, <1>4 DEF Recurs
<1>6. FirstOf(headers, kinds) = f[n]
  BY <1>5, FirstCounts
<1> QED BY <1>5, <1>6 DEF Running

\* A description of a head may be given places of chunks as well.
LEMMA HeadWithChunks ==
  ASSUME NEW t, NEW r, IsStatusLine(t, r), IsHead(t, r),
         NEW q, q.minor = r.minor, q.code = r.code, q.text = r.text, q.n = r.n, q.colon = r.colon,
         q.lws = r.lws, q.end = r.end, q.len = r.len, q.enc = r.enc
  PROVE  IsStatusLine(t, q) /\ IsHead(t, q)
<1>1. IsStatusLine(t, q)
  BY DEF IsStatusLine
<1>2. \A i : IsHeaderLine(t, q, i) <=> IsHeaderLine(t, r, i)
  BY DEF IsHeaderLine
<1>3. IsHead(t, q)
  BY <1>2 DEF IsHead
<1> QED BY <1>1, <1>3

FittingHeaders(headers, n) == \A i \in 1..n : FittingHeader(headers[i])

\* What q describes is a head that says what the headers say, with the body after it.
HeadAndBody(t, q, headers, body, l) ==
    /\ IsStatusLine(t, q) /\ IsHead(t, q)
    /\ q.len[q.n] = FirstOf(headers, LengthKinds)
    /\ q.enc[q.n] = FirstOf(headers, EncodingKinds)
    /\ IsAtPlace(t, q.end[q.n] + 2, body)
    /\ Len(t) = q.end[q.n] + 2 + l

\* Every text of a status line, headers that fit and a body begins with a head.
LEMMA HeadOfGrammar ==
  ASSUME NEW minor, NEW number, NEW words, FittingLine(minor, number, words),
         NEW n \in Nat, NEW S, NEW headers \in [1..n -> S],
         FittingHeaders(headers, n), Len(Section(headers)) <= MaxHeaders,
         NEW body, NEW l \in Nat, HasLength(CharText, body, l),
         NEW t, t = StatusLine(minor, number, words) \o Section(headers) \o body
  PROVE  \E q : HeadAndBody(t, q, headers, body, l)
<1>h. \A i \in 1..n : FittingHeader(headers[i])
  BY DEF FittingHeaders
<1>d. DOMAIN headers = 1..n /\ Len(headers) = n
  OBVIOUS
<1> DEFINE lines == [i \in 1..n |-> LineText(headers[i])]
<1>4. lines \in [1..n -> Seq(CharText)]
  <2>1. \A i \in 1..n : LineText(headers[i]) \in Seq(CharText)
    BY <1>h, LineLength DEF HasLength
  <2> QED BY <2>1
<1>5. lines \in Seq(Seq(CharText)) /\ Len(lines) = n
  BY <1>4
<1>6. Section(headers) = Cat(FlattenSeq(lines), LineEnd(NoLength))
  BY <1>d DEF Section, Cat
<1>7. PICK part \in [0..n -> Seq(CharText)] :
         /\ part[0] = <<>>
         /\ \A i \in 1..n : part[i] = Cat(part[i - 1], lines[i])
         /\ FlattenSeq(lines) = part[n]
  <2>1. \E part \in [0..Len(lines) -> Seq(CharText)] :
            /\ part[0] = <<>>
            /\ \A i \in 1..Len(lines) : part[i] = Cat(part[i - 1], lines[i])
            /\ FlattenSeq(lines) = part[Len(lines)]
    BY <1>5, FlattenParts
  <2> QED BY <2>1, <1>5
<1>8. \A i \in 1..n : lines[i] = LineText(headers[i])
  OBVIOUS
<1> HIDE DEF lines
<1>m. Meaningful(headers, n)
  BY <1>h DEF FittingHeader, Meaningful
<1>9. PICK len : Running(len, LengthKinds, headers, n) /\ FirstOf(headers, LengthKinds) = len[n]
  BY <1>d, <1>m, KindsOfHeaders, RunningFirst
<1>e. PICK enc : Running(enc, EncodingKinds, headers, n) /\ FirstOf(headers, EncodingKinds) = enc[n]
  BY <1>d, <1>m, KindsOfHeaders, RunningFirst
\* The places.
<1>10. PICK lm \in Nat, ln \in Nat, lw \in Nat : lm = Len(minor) /\ ln = Len(number) /\ lw = Len(words)
  BY DEF FittingLine
<1>11. PICK u \in Nat, c \in Nat, v \in Nat : u = 7 + lm /\ c = u + 1 + ln /\ v = c + lw
  <2>1. 7 + lm \in Nat /\ (7 + lm) + 1 + ln \in Nat /\ ((7 + lm) + 1 + ln) + lw \in Nat
    OBVIOUS
  <2> QED BY <2>1
<1> DEFINE end == [i \in 0..n |-> (v + 2) + Len(part[i])]
<1> DEFINE colon == [i \in 1..n |-> end[i - 1] + Len(headers[i].key) + 1]
<1> DEFINE lws == [i \in 1..n |-> colon[i] + Len(headers[i].blanks)]
<1> DEFINE q == [minor |-> u, code |-> c, text |-> v, n |-> n, end |-> end, colon |-> colon,
                lws |-> lws, len |-> len, enc |-> enc]
<1>12. /\ q.minor = u /\ q.code = c /\ q.text = v /\ q.n = n /\ q.end = end /\ q.colon = colon
       /\ q.lws = lws /\ q.len = len /\ q.enc = enc
  OBVIOUS
<1>13. \A i \in 0..n : end[i] = (v + 2) + Len(part[i]) /\ end[i] \in Nat
  OBVIOUS
<1>14. \A i \in 1..n : /\ colon[i] = end[i - 1] + Len(headers[i].key) + 1
                       /\ lws[i] = colon[i] + Len(headers[i].blanks)
  OBVIOUS
<1> HIDE DEF q, end, colon, lws
\* The parts of the text.
<1> DEFINE first == StatusLine(minor, number, words)
<1>p. q.minor = 7 + Len(minor) /\ q.code = q.minor + 1 + Len(number) /\ q.text = q.code + Len(words)
  BY <1>10, <1>11, <1>12
<1>15. HasLength(CharText, first, v + 2)
  <2>1. PICK s : s = first
    OBVIOUS
  <2>2. IsAtPlace(s, 0, StatusLine(minor, number, words))
    BY <2>1 DEF IsAtPlace
  <2> HIDE DEF first
  <2>5. HasLength(CharText, StatusLine(minor, number, words), q.text + 2)
    BY <2>2, <1>p, StatusLineOfGrammar
  <2> QED BY <2>5, <1>12 DEF first
<1>16. PICK p \in Nat, s \in Nat : /\ HasLength(CharText, part[n], p) /\ HasLength(CharText, Section(headers), s)
                                 /\ s = p + 2 /\ s <= MaxHeaders /\ HasLength(CharText, LineEnd(NoLength), 2)
  <2>1. PICK p \in Nat : HasLength(CharText, part[n], p)
    BY <1>7 DEF HasLength
  <2>2. HasLength(CharText, LineEnd(NoLength), 2)
    BY LineEndText DEF Meanings
  <2>3. HasLength(CharText, Section(headers), p + 2)
    BY <1>6, <1>7, <2>1, <2>2, CatLength
  <2>4. p + 2 <= MaxHeaders
    BY <2>3 DEF HasLength
  <2> QED BY <2>1, <2>2, <2>3, <2>4
<1>18. /\ IsAtPlace(t, 0, first) /\ IsAtPlace(t, v + 2, Section(headers))
       /\ IsAtPlace(t, (v + 2) + s, body) /\ HasLength(CharText, t, (v + 2) + s + l)
  <2> DEFINE head == Cat(first, Section(headers))
  <2>1. t = Cat(head, body)
    BY DEF Cat
  <2>2. HasLength(CharText, head, (v + 2) + s)
    BY <1>15, <1>16, CatLength
  <2>3. IsAtPlace(t, 0, Cat(head, body))
    BY <2>1 DEF IsAtPlace
  <2>4. head = Cat(first, Section(headers))
    OBVIOUS
  <2> HIDE DEF head, first
  <2>5. HasLength(CharText, t, ((v + 2) + s) + l)
    BY <2>1, <2>2, CatLength
  <2>6. IsAtPlace(t, 0, head) /\ IsAtPlace(t, (v + 2) + s, body)
    BY <2>2, <2>3, LastPart
  <2>7. IsAtPlace(t, 0, first) /\ IsAtPlace(t, v + 2, Section(headers))
    BY <2>4, <2>6, <1>15, <1>16, LastPart
  <2> QED BY <2>5, <2>6, <2>7
<1>19. IsStatusLine(t, q)
  <2>1. IsAtPlace(t, 0, StatusLine(minor, number, words))
    BY <1>18
  <2> HIDE DEF first
  <2> QED BY <2>1, <1>p, StatusLineOfGrammar
<1>20. IsAtPlace(t, v + 2, part[n]) /\ IsAtPlace(t, (v + 2) + p, LineEnd(NoLength))
  <2>1. Section(headers) = Cat(part[n], LineEnd(NoLength))
    BY <1>6, <1>7
  <2>2. IsAtPlace(t, v + 2, Cat(part[n], LineEnd(NoLength)))
    BY <2>1, <1>18
  <2> QED BY <2>2, <1>16, LastPart
<1>21. ASSUME NEW i \in 1..n PROVE IsHeaderLine(t, q, i)
  <2>1. i - 1 \in 0..n /\ i \in 0..n
    OBVIOUS
  <2>2. IsAtPlace(t, (v + 2) + Len(part[i - 1]), lines[i])
    <3>1. \A j \in 1..n : part[j] = Cat(part[j - 1], lines[j])
      BY <1>7
    <3>2. v + 2 \in Nat
      OBVIOUS
    <3>3. lines \in [1..n -> Seq(CharText)] /\ part \in [0..n -> Seq(CharText)] /\ IsAtPlace(t, v + 2, part[n])
      BY <1>4, <1>7, <1>20
    <3> QED BY <3>1, <3>2, <3>3, FlattenPlaces
  <2>3. PICK k \in Nat : k = end[i - 1]
    BY <2>1, <1>13
  <2>h. PICK h : h = headers[i]
    OBVIOUS
  <2>f. FittingHeader(h)
    BY <2>h, <1>h
  <2>4. IsAtPlace(t, k, LineText(h))
    BY <2>1, <2>2, <2>3, <2>h, <1>8, <1>13
  <2>5. q.end[i - 1] = k /\ q.colon[i] = k + Len(h.key) + 1 /\ q.lws[i] = q.colon[i] + Len(h.blanks)
    BY <2>3, <2>h, <1>12, <1>14
  <2>e. /\ q.len[i] = IF q.len[i - 1] = NoLength /\ h.means \in LengthKinds THEN h.means ELSE q.len[i - 1]
        /\ q.enc[i] = IF q.enc[i - 1] = NoLength /\ h.means \in EncodingKinds THEN h.means ELSE q.enc[i - 1]
    BY <2>h, <1>9, <1>e, <1>12 DEF Running
  <2>6. q.end[i] = q.lws[i] + Len(h.value) + 2
    <3>1. PICK lk \in Nat, lb \in Nat, lz \in Nat :
             /\ lk = Len(h.key) /\ lb = Len(h.blanks) /\ lz = Len(h.value)
             /\ HasLength(CharText, LineText(h), lk + 1 + lb + lz + 2)
      BY <2>f, LineLength
    <3>4. PICK x \in Nat : HasLength(CharText, part[i - 1], x)
      <4>1. part[i - 1] \in Seq(CharText)
        BY <2>1
      <4>2. Len(part[i - 1]) \in Nat
        BY <4>1
      <4> QED BY <4>1, <4>2 DEF HasLength
    <3>5. HasLength(CharText, part[i], x + (lk + 1 + lb + lz + 2))
      <4>1. part[i] = Cat(part[i - 1], LineText(h))
        BY <1>7, <1>8, <2>h
      <4>2. PICK y \in Nat : y = lk + 1 + lb + lz + 2
        OBVIOUS
      <4>3. HasLength(CharText, LineText(h), y)
        BY <3>1, <4>2
      <4>4. HasLength(CharText, Cat(part[i - 1], LineText(h)), x + y)
        BY <3>4, <4>3, CatLength
      <4> QED BY <4>1, <4>2, <4>4
    <3>6. k = (v + 2) + x /\ q.end[i] = (v + 2) + (x + (lk + 1 + lb + lz + 2))
      <4>1. Len(part[i - 1]) = x /\ Len(part[i]) = x + (lk + 1 + lb + lz + 2)
        BY <3>4, <3>5 DEF HasLength
      <4> QED BY <4>1, <2>1, <2>3, <1>12, <1>13
    <3>7. q.colon[i] = k + lk + 1 /\ q.lws[i] = (k + lk + 1) + lb
      BY <2>5, <3>1
    <3>8. (v + 2) + (x + (lk + 1 + lb + lz + 2)) = ((((v + 2) + x) + lk + 1) + lb) + lz + 2
      OBVIOUS
    <3> QED BY <3>1, <3>6, <3>7, <3>8
  <2> QED BY <2>f, <2>4, <2>5, <2>e, <2>6, HeaderLineOfGrammar
<1>22. IsHead(t, q)
  <2>1. end[0] = v + 2 /\ end[n] = (v + 2) + p
    BY <1>7, <1>13, <1>16 DEF HasLength
  <2>2. \A i \in 0..n : end[i] \in Nat /\ end[i] <= end[n]
    <3>1. \A i \in 0..n : Len(part[i]) <= Len(part[n])
      BY <1>4, <1>7, PartsGrow
    <3> QED BY <3>1, <1>13
  <2>3. t[end[n] + 1].ch = "cr" /\ t[end[n] + 2].ch = "lf"
    <3>1. PICK k \in Nat : k = (v + 2) + p
      OBVIOUS
    <3>2. IsAtPlace(t, k, LineEnd(NoLength)) /\ NoLength \in Meanings
      BY <3>1, <1>20 DEF Meanings
    <3>3. t[k + 1].ch = "cr" /\ t[k + 2].ch = "lf"
      <4>1. k \in Nat
        OBVIOUS
      <4> QED BY ONLY <4>1, <3>2, LineEndPlace, SMTT(30)
    <3> QED BY <3>1, <3>3, <2>1
  <2>4. end[n] + 2 - end[0] <= MaxHeaders
    BY <1>16, <2>1
  <2>5. q.end[0] = q.text + 2 /\ q.len[0] = NoLength /\ q.enc[0] = NoLength /\ q.n = n
    BY <1>9, <1>e, <1>12, <2>1 DEF Running
  <2>6. \A i \in 0..q.n : q.end[i] \in Nat /\ q.end[i] <= q.end[q.n]
    BY <1>12, <2>2
  <2>7. t[q.end[q.n] + 1].ch = "cr" /\ t[q.end[q.n] + 2].ch = "lf" /\ q.end[q.n] + 2 - q.end[0] <= MaxHeaders
    BY <1>12, <2>3, <2>4
  <2> QED BY <1>21, <2>5, <2>6, <2>7 DEF IsHead
<1>23. q.end[q.n] + 2 = (v + 2) + s
  <2>1. Len(part[n]) = p /\ n \in 0..n
    BY <1>16 DEF HasLength
  <2>2. end[n] = (v + 2) + p
    BY <2>1, <1>13
  <2> QED BY <2>2, <1>12, <1>16
<1>24. IsAtPlace(t, q.end[q.n] + 2, body) /\ Len(t) = q.end[q.n] + 2 + l
  BY <1>18, <1>23 DEF HasLength
<1>25. q.len[q.n] = FirstOf(headers, LengthKinds) /\ q.enc[q.n] = FirstOf(headers, EncodingKinds)
  BY <1>9, <1>e, <1>12
<1> QED BY <1>19, <1>22, <1>24, <1>25 DEF HeadAndBody

\* What Shifted computes, one digit at a time.
LEMMA ShiftedRecursion ==
  ASSUME NEW n \in Nat
  PROVE  /\ Shifted(n)[0] = n
         /\ \A j \in 1..MaxDigits : Shifted(n)[j] = Shifted(n)[j - 1] \div 16
         /\ \A j \in 0..MaxDigits : Shifted(n)[j] \in 0..n
<1> DEFINE Def(f) == f = [j \in 0..MaxDigits |-> IF j = 0 THEN n ELSE f[j - 1] \div 16]
<1> DEFINE step == [j \in 1..MaxDigits |-> [x \in Nat |-> x \div 16]]
<1> DEFINE shifted == CHOOSE f : Def(f)
<1>1. MaxDigits \in Nat /\ \A j \in 1..MaxDigits : j - 1 \in 0..MaxDigits /\ j \in 0..MaxDigits
  BY GrammarAssumption
<1>2. step \in [1..MaxDigits -> [Nat -> Nat]]
  OBVIOUS
<1>3. PICK g \in [0..MaxDigits -> Nat] : Recurs(g, MaxDigits, n, step)
  <2> HIDE DEF step
  <2> QED BY <1>1, <1>2, Recursion
<1>4. \A j \in 1..MaxDigits : g[j] = g[j - 1] \div 16
  BY <1>1, <1>3 DEF Recurs
<1>5. Def(g)
  BY <1>1, <1>3, <1>4 DEF Recurs
<1>6. Def(shifted)
  <2> HIDE DEF Def
  <2> QED BY <1>5
<1>7. Shifted(n) = shifted
  BY DEF Shifted
<1> HIDE DEF shifted
<1>8. shifted[0] = n /\ \A j \in 1..MaxDigits : shifted[j] = shifted[j - 1] \div 16
  BY <1>1, <1>6
<1> DEFINE D == {j \in Nat : j <= MaxDigits => shifted[j] \in 0..n}
<1>9. 0 \in D
  BY <1>8
<1>10. ASSUME NEW j \in Nat, j \in D PROVE j + 1 \in D
  <2> SUFFICES ASSUME j + 1 <= MaxDigits PROVE shifted[j + 1] \in 0..n
    OBVIOUS
  <2>1. j + 1 \in 1..MaxDigits /\ (j + 1) - 1 = j /\ shifted[j] \in 0..n
    BY <1>1, <1>10
  <2>2. PICK x \in 0..n : x = shifted[j]
    BY <2>1
  <2>3. shifted[j + 1] = x \div 16
    BY <1>8, <2>1, <2>2
  <2>4. x \div 16 \in 0..n
    BY Z3
  <2> QED BY <2>3, <2>4
<1>11. Nat \subseteq D
  <2> HIDE DEF D
  <2> QED BY <1>9, <1>10, NatSet
<1>12. \A j \in 0..MaxDigits : shifted[j] \in 0..n
  BY <1>1, <1>11
<1> QED BY <1>7, <1>8, <1>12

\* The digits of a size line, each with its value.
LEMMA DigitText ==
  ASSUME NEW n \in Nat, NEW k \in 1..MaxDigits
  PROVE  /\ HasLength(CharText, Hexadecimal(n, k), k)
         /\ \A i \in 1..k : /\ Hexadecimal(n, k)[i].ch # "cr"
                            /\ Hexadecimal(n, k)[i].v = Shifted(n)[k - i] % 16
                            /\ Shifted(n)[k - i] % 16 \in 0..15
<1>1. MaxDigits \in Nat /\ k \in Nat
  BY GrammarAssumption
<1>2. \A i \in 1..k : k - i \in 0..MaxDigits
  BY <1>1
<1>3. \A i \in 1..k : Shifted(n)[k - i] \in 0..n
  BY <1>2, ShiftedRecursion
<1>4. \A x \in Nat : x % 16 \in 0..15
  BY Z3
<1>5. \A i \in 1..k : Shifted(n)[k - i] % 16 \in 0..15
  <2> TAKE i \in 1..k
  <2>1. Shifted(n)[k - i] \in Nat
    BY <1>3
  <2> QED BY <2>1, <1>4
<1>6. \A d \in 0..15 : /\ Char(DigitClass(d), NoLength, d) \in CharText
                       /\ Char(DigitClass(d), NoLength, d).ch # "cr"
                       /\ Char(DigitClass(d), NoLength, d).v = d
  <2> TAKE d \in 0..15
  <2>1. DigitClass(d) \in {"0", "1", "digit", "hex"}
    BY DEF DigitClass
  <2>2. DigitClass(d) \in Chars /\ DigitClass(d) # "cr"
    BY <2>1 DEF Chars, NameChars, DigitChars
  <2> QED BY <2>2 DEF Char, CharText, Meanings
<1>7. Hexadecimal(n, k) = [i \in 1..k |-> Char(DigitClass(Shifted(n)[k - i] % 16), NoLength, Shifted(n)[k - i] % 16)]
  BY DEF Hexadecimal
<1> HIDE DEF Hexadecimal, Char
<1>8. Hexadecimal(n, k) \in [1..k -> CharText]
  BY <1>5, <1>6, <1>7
<1>9. HasLength(CharText, Hexadecimal(n, k), k)
  BY <1>1, <1>8 DEF HasLength
<1> QED BY <1>5, <1>6, <1>7, <1>9

\* A size line of k digits has k + 2 characters.
LEMMA SizeLineText ==
  ASSUME NEW n \in Nat, NEW k \in 1..MaxDigits
  PROVE  HasLength(CharText, SizeLine(n, k), k + 2)
<1>1. k \in Nat
  BY GrammarAssumption
<1>2. HasLength(CharText, Hexadecimal(n, k), k) /\ HasLength(CharText, LineEnd(NoLength), 2)
  BY DigitText, LineEndText DEF Meanings
<1>3. SizeLine(n, k) = Cat(Hexadecimal(n, k), LineEnd(NoLength))
  BY DEF SizeLine, Cat
<1> QED BY <1>1, <1>2, <1>3, CatLength

\* At j, a size line of k digits that starts after a says n.
SizeAt(q, j, a, n, k) ==
    /\ q.at[j - 1] = a /\ q.size[j] = a + k /\ q.num[j] = n
    /\ \A i \in 0..k : q.val[j][i] = Shifted(n)[k - i]

\* What the parser makes of the digits of n is n.
LEMMA SizeLineOfGrammar ==
  ASSUME NEW n \in Nat, n < Wrap, NEW k \in 1..MaxDigits, Shifted(n)[k] = 0,
         NEW t, NEW a \in Nat, IsAtPlace(t, a, SizeLine(n, k)),
         NEW q, NEW j, SizeAt(q, j, a, n, k)
  PROVE  IsSizeLine(t, q, j)
<1>1. k \in Nat /\ k # 0 /\ MaxDigits \in Nat /\ k <= MaxDigits
  BY GrammarAssumption
<1>2. IsAtPlace(t, a, Hexadecimal(n, k)) /\ IsAtPlace(t, a + k, LineEnd(NoLength))
  <2>1. HasLength(CharText, Hexadecimal(n, k), k) /\ HasLength(CharText, LineEnd(NoLength), 2)
    BY DigitText, LineEndText DEF Meanings
  <2>2. IsAtPlace(t, a, Cat(Hexadecimal(n, k), LineEnd(NoLength)))
    BY DEF SizeLine, Cat
  <2> QED BY <1>1, <2>1, <2>2, LastPart
<1>3. PICK s \in Nat : s = a + k
  BY <1>1
<1>4. t[s + 1].ch = "cr" /\ t[s + 2].ch = "lf"
  <2>1. IsAtPlace(t, s, LineEnd(NoLength)) /\ NoLength \in Meanings
    BY <1>2, <1>3 DEF Meanings
  <2>2. s \in Nat
    OBVIOUS
  <2> QED BY ONLY <2>1, <2>2, LineEndPlace
<1>5. \A i \in 1..k : /\ t[a + i].ch # "cr" /\ t[a + i].v = Shifted(n)[k - i] % 16 /\ t[a + i].v \in 0..15
  <2>1. Len(Hexadecimal(n, k)) = k
    BY DigitText DEF HasLength
  <2>2. \A i \in 1..k : t[a + i] = Hexadecimal(n, k)[i]
    BY <1>2, <2>1 DEF IsAtPlace
  <2>3. \A i \in 1..k : /\ Hexadecimal(n, k)[i].ch # "cr"
                        /\ Hexadecimal(n, k)[i].v = Shifted(n)[k - i] % 16
                        /\ Shifted(n)[k - i] % 16 \in 0..15
    BY DigitText
  <2> HIDE DEF Hexadecimal
  <2> QED BY ONLY <2>2, <2>3
<1>6. \A i \in 0..k : Shifted(n)[k - i] \in 0..n
  <2>1. \A i \in 0..k : k - i \in 0..MaxDigits
    BY <1>1
  <2> QED BY <2>1, ShiftedRecursion
<1>7. ASSUME NEW i \in 1..k
      PROVE  q.val[j][i] \in 0..(Wrap - 1) /\ q.val[j][i] = q.val[j][i - 1] * 16 + t[a + i].v
  <2>1. i \in 0..k /\ i - 1 \in 0..k /\ k - (i - 1) = (k - i) + 1
    BY <1>1
  <2>2. (k - i) + 1 \in 1..MaxDigits /\ ((k - i) + 1) - 1 = k - i
    BY <1>1
  <2>3. PICK x \in Nat : x = Shifted(n)[k - i] /\ x <= n
    BY <2>1, <1>6
  <2>4. Shifted(n)[(k - i) + 1] = x \div 16
    BY <2>2, <2>3, ShiftedRecursion
  <2>5. PICK d, r : d = x \div 16 /\ r = x % 16
    OBVIOUS
  <2>7. q.val[j][i] = x /\ q.val[j][i - 1] = d /\ t[a + i].v = r
    BY <2>1, <2>3, <2>4, <2>5, <1>5 DEF SizeAt
  <2>8. x = d * 16 + r
    <3>1. x % 16 = x - 16 * (x \div 16) /\ x % 16 \in Nat
      BY ONLY x \in Nat, Z3
    <3>2. x \div 16 \in Nat
      BY ONLY x \in Nat
    <3>3. d \in Nat /\ r \in Nat /\ r = x - 16 * d
      BY ONLY <3>1, <3>2, <2>5, Zenon
    <3> QED BY ONLY x \in Nat, <3>3
  <2>6. x \in 0..(Wrap - 1)
    BY <2>3, ResponseAssumption
  <2> QED BY ONLY <2>6, <2>7, <2>8
<1>8. q.val[j][0] = 0 /\ q.val[j][k] = n
  <2>1. k - 0 = k /\ k - k = 0 /\ 0 \in 0..k /\ k \in 0..k
    BY <1>1
  <2> QED BY <2>1, ShiftedRecursion DEF SizeAt
<1>9. s - a = k /\ a < s
  BY <1>1, <1>3
<1>10. q.at[j - 1] = a /\ q.size[j] = s /\ q.num[j] = n
  BY <1>3 DEF SizeAt
<1> QED BY <1>4, <1>5, <1>7, <1>8, <1>9, <1>10 DEF IsSizeLine

\* Where the parts of a chunk are.
LEMMA ChunkPlaces ==
  ASSUME NEW c \in Chunks, NEW k \in Nat, k = c.digits, NEW n \in Nat, n = Len(c.data),
         NEW t, NEW a \in Nat, IsAtPlace(t, a, ChunkText(c)),
         NEW s \in Nat, s = a + k, NEW e \in Nat, e = s + 2 + n
  PROVE  /\ HasLength(CharText, ChunkText(c), k + 2 + n + 2)
         /\ IsAtPlace(t, a, SizeLine(n, k)) /\ IsAtPlace(t, e, LineEnd(NoLength))
<1> DEFINE a1 == SizeLine(n, k)
<1> DEFINE a2 == Plain(c.data)
<1> DEFINE a3 == LineEnd(NoLength)
<1> DEFINE c2 == Cat(a1, a2)
<1> DEFINE c3 == Cat(c2, a3)
<1>1. ChunkText(c) = c3
  BY DEF ChunkText, Cat
<1>2. k \in 1..MaxDigits /\ c.data \in Seq(Chars)
  BY GrammarAssumption DEF Chunks
<1>w. PICK w \in Nat : w = k + 2
  OBVIOUS
<1>3. HasLength(CharText, a1, w) /\ HasLength(CharText, a2, n) /\ HasLength(CharText, a3, 2)
  <2>1. HasLength(CharText, a1, w)
    BY <1>2, <1>w, SizeLineText
  <2>2. HasLength(CharText, a2, n)
    BY <1>2, PlainText DEF HasLength
  <2>3. HasLength(CharText, a3, 2)
    BY LineEndText DEF Meanings
  <2> QED BY <2>1, <2>2, <2>3
<1>4. c2 = Cat(a1, a2) /\ c3 = Cat(c2, a3)
  OBVIOUS
<1> HIDE DEF a1, a2, a3, c2, c3
<1>5. PICK x \in Nat : x = w + n
  OBVIOUS
<1>6. HasLength(CharText, c2, x)
  BY <1>3, <1>4, <1>5, CatLength
<1>7. HasLength(CharText, c3, x + 2)
  BY <1>3, <1>4, <1>6, CatLength
<1>8. e = a + x /\ x + 2 = k + 2 + n + 2
  <2>1. e = (a + k) + 2 + n /\ x = (k + 2) + n /\ a \in Nat /\ k \in Nat /\ n \in Nat
    BY <1>5, <1>w
  <2>2. (a + k) + 2 + n = a + ((k + 2) + n)
    BY ONLY <2>1
  <2>3. ((k + 2) + n) + 2 = k + 2 + n + 2
    OBVIOUS
  <2> QED BY <2>1, <2>2, <2>3, Zenon
<1>9. IsAtPlace(t, a, c2) /\ IsAtPlace(t, e, a3)
  <2>1. IsAtPlace(t, a, Cat(c2, a3))
    BY <1>1, <1>4
  <2>2. IsAtPlace(t, a, c2) /\ IsAtPlace(t, a + x, a3)
    BY <2>1, <1>3, <1>6, LastPart
  <2> QED BY <2>2, <1>8
<1>10. IsAtPlace(t, a, a1)
  <2>1. PICK f : f = a + w
    OBVIOUS
  <2> QED BY <2>1, <1>3, <1>4, <1>9, LastPart
<1> QED BY <1>1, <1>7, <1>8, <1>9, <1>10 DEF a1, a3

\* The length of a chunk's text.
LEMMA ChunkLength ==
  ASSUME NEW c \in Chunks
  PROVE  \E k \in Nat, n \in Nat : /\ k = c.digits /\ n = Len(c.data)
                                   /\ k \in 1..MaxDigits /\ n \in 1..MaxReserve /\ n < Wrap
                                   /\ Shifted(n)[k] = 0
                                   /\ HasLength(CharText, ChunkText(c), k + 2 + n + 2)
<1>1. /\ c.digits \in 1..MaxDigits /\ c.data \in Payloads /\ Shifted(Len(c.data))[c.digits] = 0
  BY DEF Chunks
<1>2. c.data \in Seq(Chars) /\ Len(c.data) \in 1..MaxReserve /\ Len(c.data) < Wrap /\ MaxDigits \in Nat
  BY <1>1, GrammarAssumption
<1>3. PICK k \in Nat, n \in Nat : k = c.digits /\ n = Len(c.data)
  BY <1>1, <1>2
<1>4. PICK s \in Nat, e \in Nat : s = 0 + k /\ e = s + 2 + n
  <2>1. 0 + k \in Nat /\ (0 + k) + 2 + n \in Nat
    OBVIOUS
  <2> QED BY <2>1
<1>5. PICK t : t = ChunkText(c)
  OBVIOUS
<1>6. IsAtPlace(t, 0, ChunkText(c))
  BY <1>5 DEF IsAtPlace
<1>7. HasLength(CharText, ChunkText(c), k + 2 + n + 2)
  BY <1>3, <1>4, <1>6, ChunkPlaces
<1> QED BY <1>1, <1>2, <1>3, <1>7

\* A chunked body, put together chunk by chunk.
LEMMA ChunkedBodyParts ==
  ASSUME NEW m \in Nat, NEW chunks \in [1..m -> Chunks], NEW k \in 1..MaxDigits
  PROVE  \E part \in [0..m -> Seq(CharText)] :
            /\ part[0] = <<>>
            /\ \A j \in 1..m : part[j] = Cat(part[j - 1], ChunkText(chunks[j]))
            /\ ChunkedBody(chunks, k) = Cat(part[m], SizeLine(0, k))
<1> DEFINE texts == [j \in 1..m |-> ChunkText(chunks[j])]
<1>1. Len(chunks) = m
  OBVIOUS
<1>2. texts \in [1..m -> Seq(CharText)]
  <2>1. \A c \in Chunks : ChunkText(c) \in Seq(CharText)
    BY ChunkLength DEF HasLength
  <2> QED BY <2>1
<1>3. texts \in Seq(Seq(CharText)) /\ Len(texts) = m
  BY <1>2
<1>4. ChunkedBody(chunks, k) = Cat(FlattenSeq(texts), SizeLine(0, k))
  BY <1>1 DEF ChunkedBody, Cat
<1>5. \A j \in 1..m : texts[j] = ChunkText(chunks[j])
  OBVIOUS
<1> HIDE DEF texts
<1>6. \E part \in [0..Len(texts) -> Seq(CharText)] :
          /\ part[0] = <<>>
          /\ \A i \in 1..Len(texts) : part[i] = Cat(part[i - 1], texts[i])
          /\ FlattenSeq(texts) = part[Len(texts)]
  BY <1>3, FlattenParts
<1> QED BY <1>3, <1>4, <1>5, <1>6

\* A chunked body is a text.
LEMMA ChunkedBodyText ==
  ASSUME NEW m \in Nat, NEW chunks \in [1..m -> Chunks], NEW k \in 1..MaxDigits
  PROVE  \E l \in Nat : HasLength(CharText, ChunkedBody(chunks, k), l)
<1>1. PICK part \in [0..m -> Seq(CharText)] : ChunkedBody(chunks, k) = Cat(part[m], SizeLine(0, k))
  BY ChunkedBodyParts
<1>2. PICK p \in Nat : HasLength(CharText, part[m], p)
  BY DEF HasLength
<1>3. k + 2 \in Nat /\ HasLength(CharText, SizeLine(0, k), k + 2)
  BY SizeLineText, GrammarAssumption
<1>4. PICK l \in Nat, x \in Nat : x = k + 2 /\ l = p + x
  BY <1>3
<1>5. HasLength(CharText, Cat(part[m], SizeLine(0, k)), l)
  BY <1>2, <1>3, <1>4, CatLength
<1> QED BY <1>1, <1>5

\* A head that announces chunks, with a chunked body after it, is a response.
LEMMA ChunkedBodyOfGrammar ==
  ASSUME NEW t, NEW r, IsStatusLine(t, r), IsHead(t, r), r.enc[r.n] = Chunked,
         NEW m \in Nat, NEW chunks \in [1..m -> Chunks], NEW k \in 1..MaxDigits,
         IsAtPlace(t, r.end[r.n] + 2, ChunkedBody(chunks, k)),
         NEW l \in Nat, HasLength(CharText, ChunkedBody(chunks, k), l),
         Len(t) = r.end[r.n] + 2 + l
  PROVE  \E q : IsResponse(t, q)
<1>1. r.n \in Nat /\ r.end[r.n] \in Nat
  BY DEF IsHead
<1>2. PICK e \in Nat : e = r.end[r.n] + 2
  BY <1>1
<1>3. PICK part \in [0..m -> Seq(CharText)] :
         /\ part[0] = <<>>
         /\ \A j \in 1..m : part[j] = Cat(part[j - 1], ChunkText(chunks[j]))
         /\ ChunkedBody(chunks, k) = Cat(part[m], SizeLine(0, k))
  BY ChunkedBodyParts
<1> DEFINE dig == [j \in 1..(m + 1) |-> IF j = m + 1 THEN k ELSE chunks[j].digits]
<1> DEFINE num == [j \in 1..(m + 1) |-> IF j = m + 1 THEN 0 ELSE Len(chunks[j].data)]
<1> DEFINE at == [j \in 0..m |-> e + Len(part[j])]
<1> DEFINE size == [j \in 1..(m + 1) |-> at[j - 1] + dig[j]]
<1> DEFINE val == [j \in 1..(m + 1) |-> [i \in 0..dig[j] |-> Shifted(num[j])[dig[j] - i]]]
<1> DEFINE q == [minor |-> r.minor, code |-> r.code, text |-> r.text, n |-> r.n, colon |-> r.colon,
                lws |-> r.lws, end |-> r.end, len |-> r.len, enc |-> r.enc,
                m |-> m, at |-> at, size |-> size, num |-> num, val |-> val]
<1>4. /\ q.minor = r.minor /\ q.code = r.code /\ q.text = r.text /\ q.n = r.n /\ q.colon = r.colon
      /\ q.lws = r.lws /\ q.end = r.end /\ q.len = r.len /\ q.enc = r.enc
      /\ q.m = m /\ q.at = at /\ q.size = size /\ q.num = num /\ q.val = val
  OBVIOUS
<1>5. \A j \in 1..(m + 1) : size[j] = at[j - 1] + dig[j]
                            /\ \A i \in 0..dig[j] : val[j][i] = Shifted(num[j])[dig[j] - i]
  OBVIOUS
<1>6. \A j \in 0..m : at[j] = e + Len(part[j]) /\ at[j] \in Nat
  OBVIOUS
<1>7. dig[m + 1] = k /\ num[m + 1] = 0
  OBVIOUS
<1>8. \A j \in 1..m : dig[j] = chunks[j].digits /\ num[j] = Len(chunks[j].data)
  OBVIOUS
<1> HIDE DEF q, val, size, at, num, dig
<1>9. IsStatusLine(t, q) /\ IsHead(t, q)
  BY <1>4, HeadWithChunks
<1>10. PICK p \in Nat : HasLength(CharText, part[m], p)
  BY DEF HasLength
<1>11. HasLength(CharText, SizeLine(0, k), k + 2) /\ k \in Nat /\ k + 2 \in Nat
  BY SizeLineText, GrammarAssumption
<1>12. IsAtPlace(t, e, part[m]) /\ IsAtPlace(t, e + p, SizeLine(0, k))
  <2>1. IsAtPlace(t, e, Cat(part[m], SizeLine(0, k)))
    BY <1>2, <1>3
  <2> QED BY <2>1, <1>10, <1>11, LastPart
<1>13. at[m] = e + p /\ at[0] = e
  <2>1. Len(part[m]) = p /\ Len(part[0]) = 0 /\ m \in 0..m /\ 0 \in 0..m
    BY <1>3, <1>10 DEF HasLength
  <2> QED BY <2>1, <1>2, <1>6
<1>14. l = p + (k + 2)
  <2>1. PICK x \in Nat : x = k + 2
    BY <1>11
  <2>2. HasLength(CharText, Cat(part[m], SizeLine(0, k)), p + x)
    BY <2>1, <1>10, <1>11, CatLength
  <2> QED BY <2>1, <2>2, <1>3 DEF HasLength
<1>15. \A j \in 0..m : q.at[j] \in Nat /\ q.at[j] <= q.at[m]
  <2> DEFINE texts == [j \in 1..m |-> ChunkText(chunks[j])]
  <2>1. texts \in [1..m -> Seq(CharText)]
    <3>1. \A c \in Chunks : ChunkText(c) \in Seq(CharText)
      BY ChunkLength DEF HasLength
    <3> QED BY <3>1
  <2>2. \A j \in 1..m : part[j] = Cat(part[j - 1], texts[j])
    BY <1>3
  <2> HIDE DEF texts
  <2>3. \A j \in 0..m : Len(part[j]) <= Len(part[m])
    BY <2>1, <2>2, PartsGrow
  <2>4. \A j \in 0..m : Len(part[j]) \in Nat /\ at[j] = e + Len(part[j])
    <3> TAKE j \in 0..m
    <3>1. part[j] \in Seq(CharText)
      OBVIOUS
    <3>2. Len(part[j]) \in Nat
      BY <3>1
    <3> QED BY <3>2, <1>6
  <2> QED BY <2>3, <2>4, <1>4
<1>16. ASSUME NEW j \in 1..m PROVE IsChunk(t, q, j)
  <2>1. j - 1 \in 0..m /\ j \in 0..m /\ j \in 1..(m + 1)
    OBVIOUS
  <2>2. PICK c \in Chunks : c = chunks[j]
    OBVIOUS
  <2>3. PICK d \in Nat, n \in Nat : /\ d = c.digits /\ n = Len(c.data)
                                    /\ d \in 1..MaxDigits /\ n \in 1..MaxReserve /\ n < Wrap
                                    /\ Shifted(n)[d] = 0
                                    /\ HasLength(CharText, ChunkText(c), d + 2 + n + 2)
    BY ChunkLength
  <2>4. PICK a \in Nat : a = at[j - 1]
    BY <2>1, <1>6
  <2>5. IsAtPlace(t, a, ChunkText(c))
    <3> DEFINE texts == [i \in 1..m |-> ChunkText(chunks[i])]
    <3>1. texts \in [1..m -> Seq(CharText)]
      <4>1. \A x \in Chunks : ChunkText(x) \in Seq(CharText)
        BY ChunkLength DEF HasLength
      <4> QED BY <4>1
    <3>2. \A i \in 1..m : part[i] = Cat(part[i - 1], texts[i])
      BY <1>3
    <3>3. texts[j] = ChunkText(c)
      BY <2>2
    <3> HIDE DEF texts
    <3>4. IsAtPlace(t, e + Len(part[j - 1]), texts[j])
      BY <3>1, <3>2, <1>12, FlattenPlaces
    <3> QED BY <3>3, <3>4, <2>1, <2>4, <1>6
  <2>6. PICK s \in Nat, f \in Nat : s = a + d /\ f = s + 2 + n
    <3>1. a + d \in Nat /\ (a + d) + 2 + n \in Nat
      OBVIOUS
    <3> QED BY <3>1
  <2>7. IsAtPlace(t, a, SizeLine(n, d)) /\ IsAtPlace(t, f, LineEnd(NoLength))
    BY <2>3, <2>5, <2>6, ChunkPlaces
  <2>8. SizeAt(q, j, a, n, d)
    <3>1. dig[j] = d /\ num[j] = n
      BY <2>2, <2>3, <1>8
    <3> QED BY <3>1, <2>1, <2>4, <1>4, <1>5 DEF SizeAt
  <2>9. IsSizeLine(t, q, j)
    <3>1. n \in Nat /\ n < Wrap /\ d \in 1..MaxDigits /\ Shifted(n)[d] = 0 /\ a \in Nat
      BY <2>3
    <3> QED BY ONLY <3>1, <2>7, <2>8, SizeLineOfGrammar
  <2>10. q.at[j] = f + 2
    <3>1. PICK x \in Nat : HasLength(CharText, part[j - 1], x)
      <4>1. part[j - 1] \in Seq(CharText)
        BY <2>1
      <4>2. Len(part[j - 1]) \in Nat
        BY <4>1
      <4> QED BY <4>1, <4>2 DEF HasLength
    <3>2. PICK y \in Nat : y = d + 2 + n + 2
      OBVIOUS
    <3>3. HasLength(CharText, part[j], x + y)
      <4>1. part[j] = Cat(part[j - 1], ChunkText(c))
        BY <1>3, <2>2
      <4>2. HasLength(CharText, ChunkText(c), y)
        BY <2>3, <3>2
      <4>3. HasLength(CharText, Cat(part[j - 1], ChunkText(c)), x + y)
        BY <3>1, <4>2, CatLength
      <4> QED BY <4>1, <4>3
    <3>4. a = e + x /\ q.at[j] = e + (x + y)
      <4>1. Len(part[j - 1]) = x /\ Len(part[j]) = x + y
        BY <3>1, <3>3 DEF HasLength
      <4> QED BY <4>1, <2>1, <2>4, <1>4, <1>6
    <3>5. e + (x + y) = (((e + x) + d) + 2 + n) + 2
      BY <3>2
    <3> QED BY <3>4, <3>5, <2>6
  <2>11. t[f + 1].ch = "cr" /\ t[f + 2].ch = "lf"
    <3>1. f \in Nat /\ NoLength \in Meanings
      BY DEF Meanings
    <3> QED BY ONLY <3>1, <2>7, LineEndPlace
  <2>12. (f + 2) - 1 = f + 1 /\ f + 2 = s + n + 4
    BY <2>6
  <2>13. q.num[j] \in 1..MaxReserve /\ q.at[j] = q.size[j] + q.num[j] + 4
    <3>1. q.num[j] = n /\ q.size[j] = s
      BY <2>6, <2>8 DEF SizeAt
    <3> QED BY <3>1, <2>3, <2>10, <2>12
  <2>14. t[q.at[j] - 1].ch = "cr" /\ t[q.at[j]].ch = "lf"
    BY <2>10, <2>11, <2>12
  <2> QED BY <2>9, <2>13, <2>14 DEF IsChunk
<1>17. IsSizeLine(t, q, m + 1) /\ q.num[m + 1] = 0 /\ Len(t) = q.size[m + 1] + 2
  <2>1. m + 1 \in 1..(m + 1) /\ (m + 1) - 1 = m /\ m \in 0..m
    OBVIOUS
  <2>2. PICK a \in Nat : a = at[m] /\ a = e + p
    BY <2>1, <1>6, <1>13
  <2>3. SizeAt(q, m + 1, a, 0, k)
    <3>1. dig[m + 1] = k /\ num[m + 1] = 0
      BY <1>7
    <3>2. q.at[(m + 1) - 1] = a /\ q.num[m + 1] = 0
      BY <3>1, <2>1, <2>2, <1>4
    <3>3. q.size[m + 1] = a + k
      <4>1. size[m + 1] = at[(m + 1) - 1] + dig[m + 1]
        BY <2>1, <1>5
      <4> QED BY <4>1, <3>1, <3>2, <1>4
    <3>4. \A i \in 0..k : q.val[m + 1][i] = Shifted(0)[k - i]
      <4>1. \A i \in 0..dig[m + 1] : val[m + 1][i] = Shifted(num[m + 1])[dig[m + 1] - i]
        BY <2>1, <1>5
      <4> QED BY <4>1, <3>1, <1>4
    <3> QED BY <3>2, <3>3, <3>4 DEF SizeAt
  <2>4. 0 \in Nat /\ 0 < Wrap /\ Shifted(0)[k] = 0
    <3>1. k \in 0..MaxDigits
      BY GrammarAssumption
    <3>2. Shifted(0)[k] \in 0..0
      BY <3>1, ShiftedRecursion
    <3> QED BY <3>2, ResponseAssumption
  <2>5. IsAtPlace(t, a, SizeLine(0, k)) /\ a \in Nat /\ k \in 1..MaxDigits
    BY <2>2, <1>12
  <2>6. IsSizeLine(t, q, m + 1)
    BY ONLY <2>3, <2>4, <2>5, SizeLineOfGrammar
  <2>7. Len(t) = (a + k) + 2
    <3>1. Len(t) = e + l /\ k \in Nat
      BY <1>2, <1>11
    <3>2. e + l = ((e + p) + k) + 2
      BY <1>11, <1>14
    <3> QED BY <3>1, <3>2, <2>2
  <2>8. q.num[m + 1] = 0 /\ q.size[m + 1] = a + k
    BY <2>3 DEF SizeAt
  <2> QED BY <2>6, <2>7, <2>8
<1>18. q.at[0] = q.end[q.n] + 2 /\ q.enc[q.n] = Chunked /\ q.m = m
  BY <1>2, <1>4, <1>13
<1>19. IsChunkedBody(t, q)
  BY <1>15, <1>16, <1>17, <1>18 DEF IsChunkedBody
<1> QED BY <1>9, <1>19 DEF IsResponse

\* A body without chunks is as long as the first Content-Length says.
LEMMA PlainBodyOfGrammar ==
  ASSUME NEW t, NEW r, IsStatusLine(t, r), IsHead(t, r), r.enc[r.n] # Chunked,
         Len(t) = r.end[r.n] + 2 + BodyOf(r)
  PROVE  IsResponse(t, r)
BY DEF IsResponse, IsPlainBody

\* Every text of the grammar is a response.
LEMMA TextIsResponse ==
  ASSUME NEW t \in Texts
  PROVE  \E q : IsResponse(t, q)
<1>1. PICK headers \in Fitting : t \in Responses(headers)
  BY DEF Texts
<1>2. PICK n \in Nat : headers \in [1..n -> HeaderLines]
  BY GrammarAssumption DEF Fitting
<1>3. Len(Section(headers)) <= MaxHeaders
  BY DEF Fitting
<1>4. PICK minor \in Minors, number \in Numbers, words \in StatusTexts, body \in Bodies(headers) :
         t = StatusLine(minor, number, words) \o Section(headers) \o body
  BY <1>1 DEF Responses
<1>5. FittingLine(minor, number, words)
  BY GrammarAssumption DEF FittingLine
<1>6. FittingHeaders(headers, n)
  <2>1. ASSUME NEW h \in HeaderLines PROVE FittingHeader(h)
    <3>1. h.key \in Keys /\ h.blanks \in Blanks /\ h.value \in Values /\ h.means \in Announced
      BY DEF HeaderLines
    <3> QED BY <3>1, GrammarAssumption DEF FittingHeader
  <2> QED BY <1>2, <2>1 DEF FittingHeaders
<1>7. CASE FirstOf(headers, EncodingKinds) = Chunked
  <2>1. PICK chunks \in UNION {[1..j -> Chunks] : j \in 0..MaxChunks}, k \in 1..MaxDigits :
           body = ChunkedBody(chunks, k)
    BY <1>7, <1>4 DEF Bodies
  <2>2. PICK m \in Nat : chunks \in [1..m -> Chunks]
    BY GrammarAssumption
  <2>3. PICK l \in Nat : HasLength(CharText, ChunkedBody(chunks, k), l)
    BY <2>2, ChunkedBodyText
  <2>4. PICK r : HeadAndBody(t, r, headers, body, l)
    BY <1>2, <1>3, <1>4, <1>5, <1>6, <2>1, <2>3, HeadOfGrammar
  <2> QED BY <1>7, <2>1, <2>2, <2>3, <2>4, ChunkedBodyOfGrammar DEF HeadAndBody
<1>8. CASE FirstOf(headers, EncodingKinds) # Chunked
  <2>1. PICK string \in [1..LengthOf(headers) -> BodyChars] : body = Plain(string)
    BY <1>8, <1>4 DEF Bodies
  <2>2. PICK l \in Nat : l = LengthOf(headers)
    BY MaxBodyAssumption DEF LengthOf, Lengths
  <2>3. HasLength(CharText, body, l)
    <3>1. string \in Seq(BodyChars) /\ l = Len(string)
      BY <2>1, <2>2
    <3> QED BY <2>1, <3>1, GrammarAssumption, PlainLength
  <2>r. PICK r : HeadAndBody(t, r, headers, body, l)
    BY <1>2, <1>3, <1>4, <1>5, <1>6, <2>3, HeadOfGrammar
  <2>4. /\ IsStatusLine(t, r) /\ IsHead(t, r)
        /\ r.len[r.n] = FirstOf(headers, LengthKinds)
        /\ r.enc[r.n] = FirstOf(headers, EncodingKinds)
        /\ Len(t) = r.end[r.n] + 2 + l
    BY <2>r DEF HeadAndBody
  <2>5. BodyOf(r) = l
    BY <2>2, <2>4 DEF BodyOf, LengthOf
  <2> QED BY <1>8, <2>4, <2>5, PlainBodyOfGrammar
<1> QED BY <1>7, <1>8

-----------------------------------------------------------------------------
(***************************************************************************)
(* So is what PackToString makes of the server's responses.                *)
(***************************************************************************)

\* What HandleRequest and StockResponse make has the length of its body.
LEMMA ReplyMade ==
  ASSUME NEW rep \in Replies
  PROVE  /\ rep.status \in StatusCodes /\ rep.msg.body \in Nat
         /\ rep.msg.length = IF rep.msg.body = 0 THEN Absent ELSE rep.msg.body
<1> DEFINE Made(r) == /\ r.status \in StatusCodes /\ r.msg.body \in Nat
                      /\ r.msg.length = IF r.msg.body = 0 THEN Absent ELSE r.msg.body
<1>1. ASSUME NEW status \in StatusCodes, NEW size \in Nat PROVE Made(Response(status, size))
  BY DEF Response, NewResponse, SetResponseBody, LabelBody, Message
<1>2. ASSUME NEW keep \in BOOLEAN, NEW size \in 0..(MaxBody + 1)
      PROVE  Made(HandleRequest([keep_alive |-> keep], "file", size))
  <2>1. "Ok" \in StatusCodes /\ size \in Nat
    BY MaxBodyAssumption DEF StatusCodes, StatusNumber
  <2>2. Made(Response("Ok", size))
    BY <2>1, <1>1
  <2>3. PICK r : r = Response("Ok", size)
    OBVIOUS
  <2>4. HandleRequest([keep_alive |-> keep], "file", size) = Announce([keep_alive |-> keep], r)
    BY <2>3 DEF HandleRequest
  <2>5. /\ [r EXCEPT !.msg.connection = "keep-alive"].status = r.status
        /\ [r EXCEPT !.msg.connection = "keep-alive"].msg.body = r.msg.body
        /\ [r EXCEPT !.msg.connection = "keep-alive"].msg.length = r.msg.length
    BY <2>3 DEF Response, NewResponse, SetResponseBody, LabelBody, Message
  <2> QED BY <2>2, <2>3, <2>4, <2>5 DEF Announce
<1>3. ASSUME NEW status \in StatusCodes PROVE Made(StockResponse(status))
  BY <1>1 DEF StockResponse, HtmlSize
<1> HIDE DEF Made
<1>4. Made(rep)
  <2>1. CASE rep \in {StockResponse(status) : status \in StatusCodes}
    BY <2>1, <1>3
  <2>2. CASE rep \in {HandleRequest([keep_alive |-> keep], "file", size) :
                        keep \in BOOLEAN, size \in 0..(MaxBody + 1)}
    <3>1. PICK keep \in BOOLEAN, size \in 0..(MaxBody + 1) :
             rep = HandleRequest([keep_alive |-> keep], "file", size)
      BY <2>2
    <3>2. Made(HandleRequest([keep_alive |-> keep], "file", size))
      BY <1>2
    <3> QED BY <3>1, <3>2, Zenon
  <2> QED BY <2>1, <2>2 DEF Replies
<1> QED BY <1>4 DEF Made

\* A number of a status has three digits, and the client knows it.
LEMMA StatusRead ==
  ASSUME NEW status \in StatusCodes
  PROVE  /\ Number(StatusNumber[status]) \in Seq(DigitChars) /\ Len(Number(StatusNumber[status])) = 3
         /\ GetStatusCodeFromUnsigned(StatusNumber[status]) # "Unknown"
<1>1. PICK n \in 0..999 : n = StatusNumber[status]
  <2>1. StatusNumber[status] \in 0..999
    BY SMTT(30) DEF StatusCodes, StatusNumber
  <2> QED BY <2>1
<1>2. \A d \in 0..9 : DigitClass(d) \in DigitChars
  BY DEF DigitClass, DigitChars
<1>3. n \div 100 \in 0..9 /\ (n \div 10) % 10 \in 0..9 /\ n % 10 \in 0..9
  BY ONLY n \in 0..999, Z3
<1>4. DigitClass(n \div 100) \in DigitChars /\ DigitClass((n \div 10) % 10) \in DigitChars /\ DigitClass(n % 10) \in DigitChars
  BY <1>2, <1>3, Zenon
<1>5. PICK a \in DigitChars, b \in DigitChars, c \in DigitChars :
         a = DigitClass(n \div 100) /\ b = DigitClass((n \div 10) % 10) /\ c = DigitClass(n % 10)
  BY <1>4, Zenon
<1>6. Number(n) = <<a, b, c>>
  BY <1>5, Zenon DEF Number
<1>7. <<a, b, c>> \in Seq(DigitChars) /\ Len(<<a, b, c>>) = 3
  OBVIOUS
<1>8. GetStatusCodeFromUnsigned(n) \in StatusCodes
  BY <1>1, Zenon DEF GetStatusCodeFromUnsigned
<1>9. "Unknown" \notin StatusCodes
  BY DEF StatusCodes, StatusNumber
<1> QED BY <1>1, <1>6, <1>7, <1>8, <1>9

\* The first line of a packed response fits.
LEMMA PackedLine ==
  ASSUME NEW status \in StatusCodes
  PROVE  FittingLine(<<"1">>, Number(StatusNumber[status]), <<"sp", "print", "sp", "print">>)
<1>1. <<"1">> \in Seq(DigitChars) /\ Len(<<"1">>) \in 1..(MaxMinor - 1)
  BY ResponseAssumption DEF DigitChars
<1>2. 3 \in 1..(MaxCode + 1) /\ 4 <= MaxText + 1
  BY PackedAssumption, ResponseAssumption
<1>3. PICK words : words = <<"sp", "print", "sp", "print">>
  OBVIOUS
<1>4. words \in Seq(Chars) /\ Len(words) = 4 /\ words[1] = "sp"
  BY <1>3 DEF Chars, NameChars, Special
<1>5. \A i \in 2..4 : words[i] \notin Ctl
  BY <1>3 DEF Ctl
<1>6. FittingLine(<<"1">>, Number(StatusNumber[status]), words)
  BY <1>1, <1>2, <1>4, <1>5, StatusRead DEF FittingLine
<1> QED BY <1>3, <1>6

\* The headers of a list that SetToSeqs makes.
LEMMA ListedOnce ==
  ASSUME NEW S, IsFiniteSet(S), Cardinality(S) <= 3, NEW headers \in SetToSeqs(S)
  PROVE  \E n \in 0..3 : headers \in [1..n -> S] /\ \A h \in S : \E i \in 1..n : headers[i] = h
<1>1. PICK n \in 0..3 : n = Cardinality(S)
  BY FS_CardinalityType
<1>2. headers \in [1..n -> S] /\ \A i, j \in 1..n : i # j => headers[i] # headers[j]
  BY <1>1 DEF SetToSeqs
<1>3. headers \in Injection(1..n, S)
  BY <1>2 DEF Injection, IsInjective
<1>4. Cardinality(1..n) = n
  <2>1. Cardinality(1..n) = IF 1 > n THEN 0 ELSE n - 1 + 1
    BY FS_Interval
  <2> QED BY <2>1
<1>5. headers \in Surjection(1..n, S)
  BY <1>1, <1>3, <1>4, FS_Injection
<1> QED BY <1>2, <1>5 DEF Surjection

\* Of headers that agree on what they say, any one may be the first.
LEMMA AgreedOn ==
  ASSUME NEW n \in Nat, NEW headers, DOMAIN headers = 1..n, NEW kinds, NEW v,
         \A i \in 1..n : headers[i].means \in kinds => headers[i].means = v
  PROVE  FirstOf(headers, kinds) = IF \E i \in 1..n : headers[i].means \in kinds THEN v ELSE NoLength
<1> DEFINE said == {i \in DOMAIN headers : headers[i].means \in kinds}
<1>1. FirstOf(headers, kinds) = IF said = {} THEN NoLength ELSE headers[Min(said)].means
  BY DEF FirstOf
<1>2. CASE said # {}
  <2>1. said \subseteq Nat
    OBVIOUS
  <2> HIDE DEF said
  <2>2. IsWellFoundedOn(OpToRel(<, Nat), Nat)
    BY NatLessThanWellFounded
  <2>3. PICK x \in said : \A y \in said : ~(<<y, x>> \in OpToRel(<, Nat))
    BY <1>2, <2>1, <2>2, WFMin
  <2>4. \A y \in said : x <= y
    <3> TAKE y \in said
    <3>1. ~(y < x)
      BY <2>1, <2>3 DEF OpToRel
    <3> QED BY <3>1, <2>1
  <2>5. Min(said) \in said
    BY <2>4 DEF Min
  <2> QED BY <1>1, <1>2, <2>5 DEF said
<1>3. CASE said = {}
  BY <1>1, <1>3
<1> QED BY <1>2, <1>3

IsPackedHeader(h) == \E name \in {"t", "print", "p"}, n \in Meanings : h = PackedHeader(name, n)

\* A packed header fits and is a line of six characters.
LEMMA PackedHeaderFits ==
  ASSUME NEW h, IsPackedHeader(h)
  PROVE  FittingHeader(h) /\ HasLength(CharText, LineText(h), 6)
<1>1. PICK name \in {"t", "print", "p"}, n \in Meanings : h = PackedHeader(name, n)
  BY DEF IsPackedHeader
<1>2. h.key = <<name>> /\ h.blanks = <<"sp">> /\ h.value = <<"print">> /\ h.means = n
  BY <1>1 DEF PackedHeader
<1>3. name \in NameChars /\ "print" \in Chars \ Ctl
  BY DEF NameChars, Chars, Ctl
<1>4. FittingHeader(h)
  BY <1>2, <1>3 DEF FittingHeader
<1>5. Len(h.key) = 1 /\ Len(h.blanks) = 1 /\ Len(h.value) = 1
  BY <1>2
<1>6. PICK lk \in Nat, lb \in Nat, lv \in Nat :
         /\ lk = Len(h.key) /\ lb = Len(h.blanks) /\ lv = Len(h.value)
         /\ HasLength(CharText, LineText(h), lk + 1 + lb + lv + 2)
  BY <1>4, LineLength
<1>7. lk + 1 + lb + lv + 2 = 6
  BY <1>5, <1>6
<1> QED BY <1>4, <1>6, <1>7

\* Three of them fit the section.
LEMMA PackedSectionFits ==
  ASSUME NEW n \in 0..3, NEW headers, DOMAIN headers = 1..n, Len(headers) = n,
         \A i \in 1..n : IsPackedHeader(headers[i])
  PROVE  Len(Section(headers)) <= MaxHeaders
<1> DEFINE lines == [i \in 1..n |-> LineText(headers[i])]
<1>1. \A i \in 1..n : HasLength(CharText, LineText(headers[i]), 6)
  BY PackedHeaderFits
<1>2. lines \in [1..n -> Seq(CharText)] /\ n \in Nat
  BY <1>1 DEF HasLength
<1>3. lines \in Seq(Seq(CharText)) /\ Len(lines) = n
  BY <1>2
<1>4. Section(headers) = Cat(FlattenSeq(lines), LineEnd(NoLength))
  BY DEF Section, Cat
<1>5. \A i \in 1..n : HasLength(CharText, lines[i], 6)
  BY <1>1
<1> HIDE DEF lines
<1>6. PICK part \in [0..n -> Seq(CharText)] :
         /\ part[0] = <<>>
         /\ \A i \in 1..n : part[i] = Cat(part[i - 1], lines[i])
         /\ FlattenSeq(lines) = part[n]
  <2>1. \E part \in [0..Len(lines) -> Seq(CharText)] :
            /\ part[0] = <<>>
            /\ \A i \in 1..Len(lines) : part[i] = Cat(part[i - 1], lines[i])
            /\ FlattenSeq(lines) = part[Len(lines)]
    BY <1>3, FlattenParts
  <2> QED BY <2>1, <1>3
<1>7. HasLength(CharText, part[0], 0)
  BY <1>6 DEF HasLength
<1>8. ASSUME NEW i \in 1..n, NEW l \in Nat, HasLength(CharText, part[i - 1], l)
      PROVE  HasLength(CharText, part[i], l + 6)
  <2>1. part[i] = Cat(part[i - 1], lines[i]) /\ HasLength(CharText, lines[i], 6)
    BY <1>5, <1>6
  <2>2. HasLength(CharText, Cat(part[i - 1], lines[i]), l + 6)
    BY <1>8, <2>1, CatLength
  <2> QED BY <2>1, <2>2
<1>9. \E p \in 0..18 : HasLength(CharText, part[n], p)
  <2>1. n >= 1 => HasLength(CharText, part[1], 6)
    <3>1. n >= 1 => 1 \in 1..n /\ 1 - 1 = 0 /\ 0 + 6 = 6
      OBVIOUS
    <3> QED BY <3>1, <1>7, <1>8
  <2>2. n >= 2 => HasLength(CharText, part[2], 12)
    <3>1. n >= 2 => 2 \in 1..n /\ 2 - 1 = 1 /\ 6 + 6 = 12 /\ n >= 1
      OBVIOUS
    <3> QED BY <2>1, <3>1, <1>8
  <2>3. n >= 3 => HasLength(CharText, part[3], 18)
    <3>1. n >= 3 => 3 \in 1..n /\ 3 - 1 = 2 /\ 12 + 6 = 18 /\ n >= 2
      OBVIOUS
    <3> QED BY <2>2, <3>1, <1>8
  <2>4. n = 0 \/ n = 1 \/ n = 2 \/ n = 3
    OBVIOUS
  <2> QED BY <2>1, <2>2, <2>3, <2>4, <1>7, SMTT(30)
<1>10. PICK p \in 0..18 : HasLength(CharText, part[n], p)
  BY <1>9
<1>11. HasLength(CharText, LineEnd(NoLength), 2)
  BY LineEndText DEF Meanings
<1>12. HasLength(CharText, Section(headers), p + 2)
  BY <1>4, <1>6, <1>10, <1>11, CatLength, SMTT(30)
<1>13. Len(Section(headers)) = p + 2
  BY <1>12 DEF HasLength
<1> QED BY <1>13, PackedAssumption, ResponseAssumption

\* The headers of a packed response, and what they say of its body.
LEMMA PackedHeadersOfReply ==
  ASSUME NEW rep \in Replies, rep.msg.body \in Lengths, NEW headers \in PackedHeaders(rep.msg)
  PROVE  \E n \in 0..3 :
            /\ headers \in [1..n -> Range(headers)] /\ Len(headers) = n
            /\ \A i \in 1..n : IsPackedHeader(headers[i])
            /\ FirstOf(headers, EncodingKinds) = NoLength
            /\ FirstOf(headers, LengthKinds) = IF rep.msg.body = 0 THEN NoLength ELSE rep.msg.body
<1> DEFINE plain1 == PackedHeader("t", NoLength)
<1> DEFINE plain2 == PackedHeader("print", NoLength)
<1> DEFINE long == PackedHeader("p", rep.msg.body)
<1> DEFINE S == {plain1} \cup (IF rep.msg.connection = "absent" THEN {} ELSE {plain2})
                         \cup (IF rep.msg.body = 0 THEN {} ELSE {long})
<1>1. headers \in SetToSeqs(S)
  <2>1. rep.msg.length = Absent <=> rep.msg.body = 0
    BY ReplyMade, MaxBodyAssumption DEF Lengths, Absent
  <2>2. rep.msg.body # 0 => LengthRead(rep.msg.length) = rep.msg.body
    BY ReplyMade DEF LengthRead
  <2> QED BY <2>1, <2>2 DEF PackedHeaders
<1>2. /\ plain1.means = NoLength /\ plain2.means = NoLength /\ long.means = rep.msg.body
      /\ IsPackedHeader(plain1) /\ IsPackedHeader(plain2) /\ IsPackedHeader(long)
  BY DEF IsPackedHeader, PackedHeader, Meanings
<1> HIDE DEF plain1, plain2, long
<1>3. IsFiniteSet(S) /\ Cardinality(S) <= 3
  <2> DEFINE T == ({plain1} \cup {plain2}) \cup {long}
  <2>1. IsFiniteSet({plain1}) /\ Cardinality({plain1}) = 1
    BY FS_Singleton
  <2>2. IsFiniteSet({plain1} \cup {plain2}) /\ Cardinality({plain1} \cup {plain2}) \in {1, 2}
    BY <2>1, FS_AddElement
  <2>3. IsFiniteSet(T) /\ Cardinality(T) \in {1, 2, 3}
    BY <2>2, FS_AddElement, SMTT(30)
  <2>4. S \in SUBSET T
    OBVIOUS
  <2> HIDE DEF S, T
  <2>5. IsFiniteSet(S) /\ Cardinality(S) <= Cardinality(T)
    BY <2>3, <2>4, FS_Subset
  <2>6. Cardinality(S) \in Nat
    BY <2>5, FS_CardinalityType
  <2> QED BY <2>3, <2>5, <2>6
<1>4. /\ \A h \in S : IsPackedHeader(h) /\ (h.means = NoLength \/ (rep.msg.body # 0 /\ h.means = rep.msg.body))
      /\ rep.msg.body # 0 => long \in S
  BY <1>2
<1> HIDE DEF S
<1>5. PICK n \in 0..3 : headers \in [1..n -> S] /\ \A h \in S : \E i \in 1..n : headers[i] = h
  BY <1>1, <1>3, ListedOnce
<1>6. n \in Nat /\ DOMAIN headers = 1..n
  BY <1>5
<1>7. \A i \in 1..n : /\ IsPackedHeader(headers[i])
                      /\ headers[i].means = NoLength \/ (rep.msg.body # 0 /\ headers[i].means = rep.msg.body)
  BY <1>4, <1>5
<1>8. rep.msg.body \notin EncodingKinds /\ rep.msg.body \in LengthKinds
  BY MaxBodyAssumption DEF Lengths, LengthKinds, EncodingKinds, Chunked, OtherEncoding
<1>9. FirstOf(headers, EncodingKinds) = NoLength
  <2>1. \A i \in 1..n : headers[i].means \notin EncodingKinds
    BY <1>7, <1>8, KindsOfHeaders
  <2> QED BY <2>1, <1>6, AgreedOn
<1>10. FirstOf(headers, LengthKinds) = IF rep.msg.body = 0 THEN NoLength ELSE rep.msg.body
  <2>1. \A i \in 1..n : headers[i].means \in LengthKinds => rep.msg.body # 0 /\ headers[i].means = rep.msg.body
    BY <1>7, KindsOfHeaders
  <2>2. rep.msg.body # 0 => \E i \in 1..n : headers[i].means \in LengthKinds
    BY <1>2, <1>4, <1>5, <1>8
  <2>3. FirstOf(headers, LengthKinds) =
           IF \E i \in 1..n : headers[i].means \in LengthKinds THEN rep.msg.body ELSE NoLength
    BY <2>1, <1>6, AgreedOn
  <2> QED BY <2>1, <2>2, <2>3
<1>11. headers \in [1..n -> Range(headers)] /\ Len(headers) = n
  BY <1>5, <1>6 DEF Range
<1> QED BY <1>7, <1>9, <1>10, <1>11

\* What the server sends is a response, and says how long its body is.
LEMMA PackedIsResponse ==
  ASSUME NEW rep \in Replies, rep.msg.body \in Lengths, NEW t \in PackToString(rep)
  PROVE  \E q : IsResponse(t, q) /\ q.enc[q.n] # Chunked /\ BodyOf(q) = rep.msg.body
<1> DEFINE number == Number(StatusNumber[rep.status])
<1> DEFINE body == Plain([i \in 1..rep.msg.body |-> "high"])
<1>1. PICK headers \in PackedHeaders(rep.msg) :
         t = StatusLine(<<"1">>, number, <<"sp", "print", "sp", "print">>) \o Section(headers) \o body
  BY DEF PackToString
<1>2. PICK l \in Nat : l = rep.msg.body
  BY ReplyMade
<1>3. HasLength(CharText, body, l)
  <2>1. PICK string : string = [i \in 1..rep.msg.body |-> "high"]
    OBVIOUS
  <2>2. string \in Seq(Chars) /\ l = Len(string)
    BY <2>1, <1>2 DEF Chars
  <2>3. HasLength(CharText, Plain(string), l)
    BY <2>2, PlainLength
  <2> QED BY <2>1, <2>3
<1>4. FittingLine(<<"1">>, number, <<"sp", "print", "sp", "print">>)
  BY ReplyMade, PackedLine
<1> HIDE DEF number, body
<1>5. PICK n \in 0..3 :
         /\ headers \in [1..n -> Range(headers)] /\ Len(headers) = n
         /\ \A i \in 1..n : IsPackedHeader(headers[i])
         /\ FirstOf(headers, EncodingKinds) = NoLength
         /\ FirstOf(headers, LengthKinds) = IF rep.msg.body = 0 THEN NoLength ELSE rep.msg.body
  BY PackedHeadersOfReply
<1>6. n \in Nat /\ DOMAIN headers = 1..n /\ Len(headers) = n
  BY <1>5
<1>7. Len(Section(headers)) <= MaxHeaders
  BY <1>5, <1>6, PackedSectionFits
<1>8. FittingHeaders(headers, n)
  BY <1>5, PackedHeaderFits DEF FittingHeaders
<1>9. PICK q : HeadAndBody(t, q, headers, body, l)
  BY <1>1, <1>3, <1>4, <1>5, <1>6, <1>7, <1>8, HeadOfGrammar
<1>10. /\ IsStatusLine(t, q) /\ IsHead(t, q) /\ q.enc[q.n] = NoLength
       /\ q.len[q.n] = IF l = 0 THEN NoLength ELSE l
       /\ Len(t) = q.end[q.n] + 2 + l
  BY <1>2, <1>5, <1>9 DEF HeadAndBody
<1>11. q.enc[q.n] # Chunked
  BY <1>10 DEF NoLength, Chunked
<1>12. BodyOf(q) = l
  BY <1>2, <1>10, MaxBodyAssumption DEF BodyOf, NoLength, Lengths
<1> QED BY <1>2, <1>10, <1>11, <1>12, PlainBodyOfGrammar

-----------------------------------------------------------------------------
(***************************************************************************)
(* The two together: the invariant of the modes that have a text.          *)
(***************************************************************************)

\* In the modes that have a text, the parser has read its first pos characters.
ResponseIsRead ==
    mode = "text" \/ (mode = "packed" /\ reply.msg.body \in Lengths) =>
        /\ CodeRead = "known"
        /\ \E q : /\ IsResponse(text, q) /\ Reads(text, q)
                  /\ mode = "packed" => q.enc[q.n] # Chunked /\ BodyOf(q) = reply.msg.body

\* Each character keeps it so, by ResponseRead.
LEMMA ResponseStaysRead == ResponseIsRead /\ [GrammarNext]_grammarVars => ResponseIsRead'
<1> SUFFICES ASSUME ResponseIsRead, [GrammarNext]_grammarVars,
                    mode' = "text" \/ (mode' = "packed" /\ reply'.msg.body \in Lengths)
             PROVE  ResponseIsRead'
  BY DEF ResponseIsRead
<1>1. mode' = mode /\ text' = text /\ reply' = reply
  BY DEF GrammarNext, grammarVars
<1>2. PICK t, rep : t = text /\ rep = reply
  OBVIOUS
<1>3. CodeRead = "known"
  BY <1>1 DEF ResponseIsRead
<1>4. PICK q : /\ IsResponse(t, q) /\ Reads(t, q)
               /\ mode = "packed" => q.enc[q.n] # Chunked /\ BodyOf(q) = rep.msg.body
  BY <1>1, <1>2 DEF ResponseIsRead
<1>5. Reads(t, q)'
  <2>1. CASE UNCHANGED grammarVars
    <3>1. /\ UNCHANGED <<state, result, pos>> /\ UNCHANGED lineVars /\ UNCHANGED headerVars
          /\ UNCHANGED bodyVars /\ UNCHANGED chunkVars
      BY <2>1 DEF grammarVars, responseVars
    <3>2. LineReads(q) => LineReads(q)'
      BY <3>1 DEF lineVars, headerVars, bodyVars, chunkVars, LineReads, LinePlace
    <3>3. HeaderReads(q) => HeaderReads(q)'
      BY <3>1 DEF lineVars, headerVars, bodyVars, chunkVars, HeaderReads
    <3>4. PlainReads(q) => PlainReads(q)'
      BY <3>1 DEF headerVars, bodyVars, PlainReads
    <3>5. \A j : SizeReads(q, j) => SizeReads(q, j)'
      BY <3>1 DEF chunkVars, SizeReads
    <3>6. \A j : DataReads(q, j) => DataReads(q, j)'
      BY <3>1 DEF chunkVars, DataReads
    <3>7. ChunkReads(q) => ChunkReads(q)'
      BY <3>1, <3>5, <3>6 DEF ChunkReads
    <3> QED BY <1>4, <3>1, <3>2, <3>3, <3>4, <3>7 DEF Reads
  <2>2. CASE GrammarNext
    <3>1. pos' = pos + 1 /\ ParseChar(text[pos'].ch, CodeRead, text[pos'].n, text[pos'].v)
      BY <1>1, <2>2 DEF GrammarNext
    <3>2. ReadNext(t)
      BY <3>1, <1>2, <1>3 DEF ReadNext
    <3> QED BY <1>4, <3>2, ResponseRead
  <2> QED BY <2>1, <2>2
<1>6. CodeRead' = "known"
  BY <1>1, <1>3 DEF CodeRead
<1>7. text' = t /\ reply' = rep
  BY <1>1, <1>2
<1> QED BY <1>1, <1>4, <1>5, <1>6, <1>7 DEF ResponseIsRead

\* It holds of a new parser and either kind of text.
LEMMA ResponseReadAtInit == GrammarInit => ResponseIsRead
<1> SUFFICES ASSUME GrammarInit PROVE ResponseIsRead
  OBVIOUS
<1>1. ResponseInit /\ pos = 0
  BY DEF GrammarInit
<1>2. CASE mode = "text"
  <2>1. text \in Texts /\ reply = StockResponse("Ok")
    BY <1>2 DEF GrammarInit
  <2>2. PICK q : IsResponse(text, q)
    BY <2>1, TextIsResponse
  <2>3. reply.status \in StatusCodes
    <3>1. reply.status = "Ok"
      BY <2>1 DEF StockResponse, Response
    <3> QED BY <3>1 DEF StatusCodes, StatusNumber
  <2>4. CodeRead = "known"
    BY <2>3, StatusRead DEF CodeRead
  <2>5. Reads(text, q)
    BY <1>1, <2>2, ResponseAtStart
  <2> QED BY <1>2, <2>2, <2>4, <2>5 DEF ResponseIsRead
<1>3. CASE mode = "packed" /\ reply.msg.body \in Lengths
  <2>1. reply \in Replies /\ text \in PackToString(reply)
    BY <1>3 DEF GrammarInit
  <2>2. PICK q : IsResponse(text, q) /\ q.enc[q.n] # Chunked /\ BodyOf(q) = reply.msg.body
    BY <1>3, <2>1, PackedIsResponse
  <2>3. CodeRead = "known"
    BY <2>1, ReplyMade, StatusRead DEF CodeRead
  <2>4. Reads(text, q)
    BY <1>1, <2>2, ResponseAtStart
  <2> QED BY <2>2, <2>3, <2>4 DEF ResponseIsRead
<1> QED BY <1>2, <1>3 DEF ResponseIsRead

\* Every text of the grammar that fits the buffers is accepted, with its last
\* character and not before, whatever the sizes of the buffers, its first line,
\* headers and body, with chunks or without.
THEOREM ResponseAcceptsGrammarCorrect == GrammarSpec => []ResponseAcceptsGrammar
<1>1. ResponseIsRead => ResponseAcceptsGrammar
  BY DEF ResponseIsRead, Reads, ResponseAcceptsGrammar
<1> QED BY <1>1, ResponseReadAtInit, ResponseStaysRead, PTL DEF GrammarSpec

\* Every response that HandleRequest or StockResponse makes and PackToString packs
\* reaches the client's handler with its last character and not before, and with
\* the body and the length that it was made with.
THEOREM ResponseAsSentCorrect == GrammarSpec => []ResponseAsSent
<1> DEFINE Sent == mode = "packed" => reply \in Replies
<1>1. GrammarInit => Sent
  BY DEF GrammarInit
<1>2. Sent /\ [GrammarNext]_grammarVars => Sent'
  BY DEF GrammarNext, grammarVars
<1>3. ResponseIsRead /\ Sent => ResponseAsSent
  <2> SUFFICES ASSUME ResponseIsRead, Sent, mode = "packed", reply.msg.body \in Lengths
               PROVE  /\ result # "Error"
                      /\ result = "Ok" <=> pos = Len(text)
                      /\ result = "Ok" => PopHttpResponse.body = reply.msg.body
                                          /\ PopHttpResponse.length = reply.msg.length
    BY DEF ResponseAsSent
  <2>1. PICK q : IsResponse(text, q) /\ Reads(text, q) /\ q.enc[q.n] # Chunked /\ BodyOf(q) = reply.msg.body
    BY DEF ResponseIsRead
  <2>2. result # "Error" /\ (result = "Ok" <=> pos = Len(text))
    BY <2>1 DEF Reads
  <2>3. ASSUME pos = Len(text) PROVE body_len = reply.msg.body
    <3>1. /\ q.n \in Nat /\ q.end[0] \in Nat /\ q.end[q.n] \in Nat
          /\ q.end[0] = q.text + 2 /\ q.end[0] <= q.end[q.n]
          /\ Len(text) \in Nat /\ q.end[q.n] + 2 <= Len(text)
      BY <2>1, HeadBeforeEnd
    <3>2. PICK e \in Nat, b \in Nat, p \in Nat : e = q.end[q.n] /\ b = q.end[0] /\ p = pos
      BY <2>3, <3>1
    <3>3. b <= e /\ e + 2 <= p
      BY <2>3, <3>1, <3>2
    <3>4. ~(p < b) /\ ~(p < e + 2)
      BY ONLY <3>3, b \in Nat, e \in Nat, p \in Nat
    <3>5. ~LineReads(q) /\ ~HeaderReads(q) /\ ~ChunkReads(q)
      BY <2>1, <3>1, <3>2, <3>4 DEF LineReads, HeaderReads, ChunkReads
    <3>6. PlainReads(q)
      BY <2>1, <3>5 DEF Reads
    <3>7. body_len = p - e - 2
      BY <3>2, <3>6 DEF PlainReads
    <3>8. p = e + 2 + BodyOf(q)
      BY <2>1, <2>3, <3>2 DEF IsResponse, IsPlainBody, IsChunkedBody
    <3>9. BodyOf(q) \in Nat
      BY MaxBodyAssumption DEF BodyOf, Lengths
    <3> QED BY <2>1, <3>7, <3>8, <3>9
  <2>4. PopHttpResponse.body = body_len /\ PopHttpResponse.length = IF body_len = 0 THEN Absent ELSE body_len
    BY DEF PopHttpResponse, NewResponse, SetResponseBody, LabelBody, Message
  <2>5. reply.msg.length = IF reply.msg.body = 0 THEN Absent ELSE reply.msg.body
    BY ReplyMade
  <2> QED BY <2>2, <2>3, <2>4, <2>5
<1> HIDE DEF Sent
<1> QED BY <1>1, <1>2, <1>3, ResponseReadAtInit, ResponseStaysRead, PTL DEF GrammarSpec
=============================================================================
