--------------------------- MODULE ExchangeProofs ---------------------------
(***************************************************************************)
(* Whatever a peer sends, and however its bytes are cut into reads, the    *)
(* callback of the server gets one HttpRequest for each request sent, with *)
(* its method, the length of its body and its keep-alive flag: for scripts *)
(* of any length, bodies of any size and any buffers that hold one head.   *)
(* And every URI of a path leads the server's handler to that path.        *)
(***************************************************************************)
EXTENDS MCExchange, RequestParserProofs, SequenceLemmas, SequenceTheorems

CharText == [ch : Chars, length : Lengths \cup {NoLength, InvalidLength}, connection : ConnectionValues]
Characters == [char : CharText, at : Nat, method : Methods]
Requests == [method : Methods \ {"Unknown"}, msg : Messages]

CharsOf(text) == [i \in DOMAIN text |-> text[i].char]

\* What a request looks like on the wire.
IsText(text, req) ==
    /\ text \in Seq(Characters)
    /\ \A i \in 1..Len(text) :
           /\ text[i].at = i /\ text[i].method = req.method
           /\ text[i].char.connection \in {"absent", req.msg.connection}
    /\ \/ req.msg.connection = "absent"
       \/ \E i \in 1..Len(text) : text[i].char.connection = req.msg.connection
    /\ \E q : IsRequest(CharsOf(text), req.method, q) /\ BodyOf(req.method, q) = req.msg.body

-----------------------------------------------------------------------------
(* The texts of PackToString are requests of the parser's grammar.         *)

LEMMA TwoParts ==
  ASSUME NEW a \in Seq(CharText), NEW b \in Seq(CharText)
  PROVE  /\ Cat(a, b) \in Seq(CharText)
         /\ Len(Cat(a, b)) = Len(a) + Len(b)
         /\ \A i \in 1..Len(a) : Cat(a, b)[i] = a[i]
         /\ \A i \in 1..Len(b) : Cat(a, b)[Len(a) + i] = b[i]
BY DEF Cat

LEMMA PlainText ==
  ASSUME NEW n \in Nat, NEW chars \in [1..n -> Chars]
  PROVE  /\ Plain(chars) \in Seq(CharText)
         /\ Len(Plain(chars)) = n
         /\ \A i \in 1..n : Plain(chars)[i] = [ch |-> chars[i], length |-> NoLength, connection |-> "absent"]
         /\ \A i \in 1..n : Plain(chars)[i].ch = chars[i] /\ Plain(chars)[i].connection = "absent"
<1>1. Len(chars) = n
  OBVIOUS
<1>2. \A i \in 1..n : [ch |-> chars[i], length |-> NoLength, connection |-> "absent"] \in CharText
  BY DEF CharText, ConnectionValues
<1>3. Plain(chars) \in [1..n -> CharText]
  BY <1>1, <1>2 DEF Plain
<1> QED BY <1>1, <1>3, SeqDef DEF Plain

\* The places where the parts of a text with n headers end.
Shape(t, n) ==
    [word |-> 1, uri |-> 3, minor |-> 12, n |-> n,
     end |-> [i \in 0..2 |-> 14 + 6 * i],
     colon |-> [i \in 1..2 |-> 10 + 6 * i],
     lws |-> [i \in 1..2 |-> 11 + 6 * i],
     len |-> [i \in 0..2 |-> IF i = 0 THEN NoLength
                             ELSE IF i = 1 \/ t[20].length # NoLength THEN t[20].length
                             ELSE t[26].length]]

\* A header line at the place k of a text.
LineAt(t, k, length, value) ==
    /\ t[k + 1].ch = "print" /\ t[k + 2].ch = "colon" /\ t[k + 3].ch = "sp"
    /\ t[k + 4].ch = "print" /\ t[k + 5].ch = "cr" /\ t[k + 6].ch = "lf"
    /\ t[k + 6].length = length
    /\ \A i \in (k + 1)..(k + 5) : t[i].connection = "absent"
    /\ t[k + 6].connection = value

LEMMA HeaderLineText ==
  ASSUME NEW length \in Lengths \cup {NoLength, InvalidLength}, NEW value \in ConnectionValues
  PROVE  /\ HeaderLine(length, value) \in Seq(CharText)
         /\ Len(HeaderLine(length, value)) = 6
         /\ LineAt(HeaderLine(length, value), 0, length, value)
<1> DEFINE chars == <<"print", "colon", "sp", "print", "cr">>
<1> DEFINE final == <<[ch |-> "lf", length |-> length, connection |-> value]>>
<1>1. chars \in [1..5 -> Chars]
  BY DEF Chars, Letters, DigitChars, Ctl, Special
<1>2. /\ Plain(chars) \in Seq(CharText) /\ Len(Plain(chars)) = 5
      /\ \A i \in 1..5 : Plain(chars)[i] = [ch |-> chars[i], length |-> NoLength, connection |-> "absent"]
  <2> HIDE DEF chars
  <2> QED BY <1>1, PlainText
<1>3. [ch |-> "lf", length |-> length, connection |-> value] \in CharText
  BY DEF CharText, Chars, Ctl
<1>4. final \in Seq(CharText) /\ Len(final) = 1 /\ final[1] = [ch |-> "lf", length |-> length, connection |-> value]
  BY <1>3
<1>5. HeaderLine(length, value) = Plain(chars) \o final
  BY DEF HeaderLine
<1> DEFINE l == Plain(chars) \o final
<1>6. /\ l \in Seq(CharText) /\ Len(l) = 6
      /\ \A i \in 1..5 : l[i] = Plain(chars)[i]
      /\ l[6] = final[1]
  <2> HIDE DEF chars, final
  <2> DEFINE p == Plain(chars)
  <2>1. p \in Seq(CharText) /\ Len(p) = 5 /\ final \in Seq(CharText) /\ Len(final) = 1
    BY <1>2, <1>4
  <2> HIDE DEF p
  <2>2. PICK a \in Seq(CharText), b \in Seq(CharText) : a = p /\ b = final
    BY <2>1
  <2>3. /\ Cat(a, b) \in Seq(CharText) /\ Len(Cat(a, b)) = Len(a) + Len(b)
        /\ \A i \in 1..Len(a) : Cat(a, b)[i] = a[i]
        /\ \A i \in 1..Len(b) : Cat(a, b)[Len(a) + i] = b[i]
    BY TwoParts
  <2>4. Len(a) = 5 /\ Len(b) = 1 /\ Cat(a, b) = p \o final
    BY <2>1, <2>2 DEF Cat
  <2>5. Cat(a, b)[6] = b[1] /\ Len(Cat(a, b)) = 6 /\ \A i \in 1..5 : Cat(a, b)[i] = a[i]
    BY <2>3, <2>4, SMTT(30)
  <2> QED BY <2>2, <2>3, <2>4, <2>5 DEF p
<1>7. \A i \in 1..5 : l[i] = [ch |-> chars[i], length |-> NoLength, connection |-> "absent"]
  <2> HIDE DEF l
  <2> QED BY <1>2, <1>6
<1>8. l[6] = [ch |-> "lf", length |-> length, connection |-> value]
  <2> HIDE DEF l
  <2> QED BY <1>4, <1>6
<1>9. LineAt(l, 0, length, value)
  <2> HIDE DEF l
  <2>1. /\ l[1].ch = "print" /\ l[2].ch = "colon" /\ l[3].ch = "sp" /\ l[4].ch = "print" /\ l[5].ch = "cr"
        /\ \A i \in 1..5 : l[i].connection = "absent"
    BY <1>7
  <2> QED BY <2>1, <1>8 DEF LineAt
<1> HIDE DEF l
<1> QED BY <1>5, <1>6, <1>9 DEF l

\* The headers of a message are n lines from the place k on: none, one that has
\* the length or the connection, or both in either order.
HasLines(t, k, n, msg) ==
    \/ n = 0 /\ msg.length = NoLength /\ msg.connection = "absent"
    \/ n = 1 /\ LineAt(t, k, msg.length, msg.connection)
    \/ n = 2 /\ LineAt(t, k, msg.length, "absent") /\ LineAt(t, k + 6, NoLength, msg.connection)
    \/ n = 2 /\ LineAt(t, k, NoLength, msg.connection) /\ LineAt(t, k + 6, msg.length, "absent")

IsHeaders(hs, n, msg) ==
    /\ n \in 0..2 /\ hs \in Seq(CharText) /\ Len(hs) = 6 * n
    /\ HasLines(hs, 0, n, msg)

LEMMA TwoLines ==
  ASSUME NEW a \in Seq(CharText), NEW b \in Seq(CharText), Len(a) = 6, Len(b) = 6,
         NEW la, NEW va, NEW lb, NEW vb, LineAt(a, 0, la, va), LineAt(b, 0, lb, vb)
  PROVE  /\ a \o b \in Seq(CharText) /\ Len(a \o b) = 12
         /\ LineAt(a \o b, 0, la, va) /\ LineAt(a \o b, 6, lb, vb)
<1> DEFINE c == a \o b
<1>1. /\ c \in Seq(CharText) /\ Len(c) = 12
      /\ \A i \in 1..6 : c[i] = a[i]
      /\ \A i \in 1..6 : c[6 + i] = b[i]
  <2>1. PICK m \in Nat, n \in Nat : m = 6 /\ n = 6
    OBVIOUS
  <2>2. Len(a) = m /\ Len(b) = n
    BY <2>1
  <2>3. /\ c \in Seq(CharText) /\ Len(c) = m + n
        /\ \A i \in 1..m : c[i] = a[i]
        /\ \A i \in 1..n : c[m + i] = b[i]
    BY <2>2, SMTT(30)
  <2> QED BY <2>1, <2>3
<1> HIDE DEF c
<1>2. LineAt(c, 0, la, va)
  BY <1>1 DEF LineAt
<1>3. LineAt(c, 6, lb, vb)
  <2>1. \A i \in 7..11 : c[i] = b[i - 6] /\ i - 6 \in 1..5
    BY <1>1
  <2>2. /\ c[7] = b[1] /\ c[8] = b[2] /\ c[9] = b[3] /\ c[10] = b[4] /\ c[11] = b[5] /\ c[12] = b[6]
    BY <1>1
  <2> QED BY <2>1, <2>2 DEF LineAt
<1> QED BY <1>1, <1>2, <1>3 DEF c

LEMMA HeadersText ==
  ASSUME NEW msg \in Messages, NEW hs \in PackedHeaders(msg)
  PROVE  \E n \in 0..2 : IsHeaders(hs, n, msg)
<1> DEFINE l == HeaderLine(msg.length, "absent")
<1> DEFINE v == HeaderLine(NoLength, msg.connection)
<1>1. msg.length \in Lengths \cup {NoLength, InvalidLength} /\ msg.connection \in ConnectionValues
      /\ "absent" \in ConnectionValues /\ Absent = NoLength
  BY DEF Messages, Absent, NoLength, ConnectionValues
<1>2. l \in Seq(CharText) /\ Len(l) = 6 /\ LineAt(l, 0, msg.length, "absent")
  BY <1>1, HeaderLineText
<1>3. v \in Seq(CharText) /\ Len(v) = 6 /\ LineAt(v, 0, NoLength, msg.connection)
  BY <1>1, HeaderLineText
<1>4. <<>> \in Seq(CharText) /\ Len(<<>>) = 0
  OBVIOUS
<1>5. /\ l \o <<>> = l /\ <<>> \o l = l /\ v \o <<>> = v /\ <<>> \o v = v
      /\ <<>> \o <<>> = <<>>
  <2> HIDE DEF l, v
  <2> QED BY <1>2, <1>3, <1>4, ConcatEmptySeq
<1>6. hs \in {(IF msg.length = NoLength THEN <<>> ELSE l) \o (IF msg.connection = "absent" THEN <<>> ELSE v),
              (IF msg.connection = "absent" THEN <<>> ELSE v) \o (IF msg.length = NoLength THEN <<>> ELSE l)}
  BY <1>1 DEF PackedHeaders
<1> HIDE DEF l, v
<1>7. CASE msg.length = NoLength /\ msg.connection = "absent"
  <2>1. hs = <<>>
    BY <1>5, <1>6, <1>7
  <2>2. 0 \in 0..2 /\ Len(<<>>) = 6 * 0
    OBVIOUS
  <2> QED BY <2>1, <2>2, <1>4, <1>7 DEF IsHeaders, HasLines
<1>8. CASE msg.length = NoLength /\ msg.connection # "absent"
  <2>1. hs = v
    BY <1>5, <1>6, <1>8
  <2> QED BY <2>1, <1>3, <1>8 DEF IsHeaders, HasLines
<1>9. CASE msg.length # NoLength /\ msg.connection = "absent"
  <2>1. hs = l
    BY <1>5, <1>6, <1>9
  <2> QED BY <2>1, <1>2, <1>9 DEF IsHeaders, HasLines
<1>10. CASE msg.length # NoLength /\ msg.connection # "absent"
  <2>1. hs = l \o v \/ hs = v \o l
    BY <1>6, <1>10
  <2>2. CASE hs = l \o v
    <3>1. hs \in Seq(CharText) /\ Len(hs) = 12
          /\ LineAt(hs, 0, msg.length, "absent") /\ LineAt(hs, 6, NoLength, msg.connection)
      BY <1>2, <1>3, <2>2, TwoLines
    <3> QED BY <3>1 DEF IsHeaders, HasLines
  <2>3. CASE hs = v \o l
    <3>1. hs \in Seq(CharText) /\ Len(hs) = 12
          /\ LineAt(hs, 0, NoLength, msg.connection) /\ LineAt(hs, 6, msg.length, "absent")
      BY <1>2, <1>3, <2>3, TwoLines
    <3> QED BY <3>1 DEF IsHeaders, HasLines
  <2> QED BY <2>1, <2>2, <2>3
<1> QED BY <1>7, <1>8, <1>9, <1>10

\* The parts of a packed request with n headers, each at its place.
IsPacked(t, n, req) ==
    /\ n \in 0..2 /\ t \in Seq(CharText) /\ Len(t) = 16 + 6 * n + req.msg.body
    /\ t[1].ch = "letter" /\ t[2].ch = "sp" /\ t[3].ch = "slash" /\ t[4].ch = "sp"
    /\ t[5].ch = "h" /\ t[6].ch = "t" /\ t[7].ch = "t" /\ t[8].ch = "p" /\ t[9].ch = "slash"
    /\ t[10].ch = "1" /\ t[11].ch = "dot" /\ t[12].ch = "1" /\ t[13].ch = "cr" /\ t[14].ch = "lf"
    /\ \A i \in 1..14 : t[i].connection = "absent"
    /\ HasLines(t, 14, n, req.msg)
    /\ t[6 * n + 15].ch = "cr" /\ t[6 * n + 16].ch = "lf"
    /\ \A i \in (6 * n + 15)..Len(t) : t[i].connection = "absent"

\* Concatenation of texts.
LEMMA ThreeParts ==
  ASSUME NEW a \in Seq(CharText), NEW b \in Seq(CharText), NEW c \in Seq(CharText)
  PROVE  LET t == Cat(Cat(a, b), c) IN
         /\ t \in Seq(CharText) /\ Len(t) = Len(a) + Len(b) + Len(c)
         /\ \A i \in 1..Len(a) : t[i] = a[i]
         /\ \A i \in 1..Len(b) : t[Len(a) + i] = b[i]
         /\ \A i \in 1..Len(c) : t[Len(a) + Len(b) + i] = c[i]
<1> DEFINE ab == Cat(a, b)
<1> DEFINE t == Cat(ab, c)
<1>1. /\ ab \in Seq(CharText) /\ Len(ab) = Len(a) + Len(b)
      /\ \A i \in 1..Len(a) : ab[i] = a[i]
      /\ \A i \in 1..Len(b) : ab[Len(a) + i] = b[i]
  BY TwoParts
<1> HIDE DEF ab
<1>2. /\ t \in Seq(CharText) /\ Len(t) = Len(ab) + Len(c)
      /\ \A i \in 1..Len(ab) : t[i] = ab[i]
      /\ \A i \in 1..Len(c) : t[Len(ab) + i] = c[i]
  BY <1>1, TwoParts
<1> HIDE DEF t
<1>3. Len(a) \in Nat /\ Len(b) \in Nat
  OBVIOUS
<1>4. \A i \in 1..Len(a) : t[i] = a[i]
  BY <1>1, <1>2, <1>3
<1>5. \A i \in 1..Len(b) : t[Len(a) + i] = b[i]
  BY <1>1, <1>2, <1>3
<1> QED BY <1>1, <1>2, <1>4, <1>5 DEF t, ab

LEMMA LineMoved ==
  ASSUME NEW t, NEW hs, NEW n \in 0..2, \A i \in 1..(6 * n) : t[14 + i] = hs[i],
         NEW length, NEW value, NEW k \in {0, 6}, k + 6 <= 6 * n, LineAt(hs, k, length, value)
  PROVE  LineAt(t, 14 + k, length, value)
<1>1. \A j \in 1..6 : t[(14 + k) + j] = hs[k + j]
  BY DEF LineAt
<1>2. \A i \in ((14 + k) + 1)..((14 + k) + 5) : t[i] = hs[i - 14] /\ i - 14 \in (k + 1)..(k + 5)
  <2> TAKE i \in ((14 + k) + 1)..((14 + k) + 5)
  <2>1. i - 14 \in 1..(6 * n) /\ i = 14 + (i - 14)
    OBVIOUS
  <2> QED BY <2>1
<1> QED BY <1>1, <1>2 DEF LineAt

LEMMA Packed ==
  ASSUME NEW req \in Requests, NEW hs \in PackedHeaders(req.msg)
  PROVE  \E n \in 0..2 :
            IsPacked(FirstLine \o hs \o Plain(<<"cr", "lf">>) \o
                     Plain([i \in 1..req.msg.body |-> "letter"]), n, req)
<1>1. req.msg \in Messages /\ req.msg.body \in Nat
  BY DEF Requests, Messages
<1>2. PICK n \in 0..2 : IsHeaders(hs, n, req.msg)
  BY <1>1, HeadersText
<1> DEFINE first == <<"letter", "sp", "slash", "sp", "h", "t", "t", "p", "slash", "1", "dot", "1", "cr", "lf">>
<1> DEFINE e == <<"cr", "lf">>
<1> DEFINE b == [i \in 1..req.msg.body |-> "letter"]
<1> DEFINE t == FirstLine \o hs \o Plain(e) \o Plain(b)
<1>3. PICK l1 \in Nat, l2 \in Nat, l3 \in Nat, l4 \in Nat : l1 = 14 /\ l2 = 6 * n /\ l3 = 2 /\ l4 = req.msg.body
  <2>1. 6 * n \in Nat
    OBVIOUS
  <2> QED BY <1>1, <2>1
<1>4. first \in [1..l1 -> Chars] /\ e \in [1..l3 -> Chars] /\ b \in [1..l4 -> Chars]
  BY <1>3 DEF Chars, Letters, DigitChars, Ctl, Special
<1>5. /\ FirstLine \in Seq(CharText) /\ Len(FirstLine) = l1
      /\ \A i \in 1..l1 : FirstLine[i].ch = first[i] /\ FirstLine[i].connection = "absent"
  <2>1. FirstLine = Plain(first)
    BY DEF FirstLine
  <2> HIDE DEF first
  <2> QED BY <1>4, <2>1, PlainText
<1>6. /\ Plain(e) \in Seq(CharText) /\ Len(Plain(e)) = l3
      /\ \A i \in 1..l3 : Plain(e)[i].ch = e[i] /\ Plain(e)[i].connection = "absent"
  <2> HIDE DEF e
  <2> QED BY <1>4, PlainText
<1>7. /\ Plain(b) \in Seq(CharText) /\ Len(Plain(b)) = l4
      /\ \A i \in 1..l4 : Plain(b)[i].connection = "absent"
  <2> HIDE DEF b
  <2> QED BY <1>4, PlainText
<1>8. hs \in Seq(CharText) /\ Len(hs) = l2
  BY <1>2, <1>3 DEF IsHeaders
<1>9. /\ t \in Seq(CharText) /\ Len(t) = l1 + l2 + l3 + l4
      /\ \A i \in 1..l1 : t[i] = FirstLine[i]
      /\ \A i \in 1..l2 : t[l1 + i] = hs[i]
      /\ \A i \in 1..l3 : t[l1 + l2 + i] = Plain(e)[i]
      /\ \A i \in 1..l4 : t[l1 + l2 + l3 + i] = Plain(b)[i]
  <2> DEFINE E == Plain(e)
  <2> DEFINE B == Plain(b)
  <2> DEFINE head == Cat(Cat(FirstLine, hs), E)
  <2>1. t = Cat(head, B) /\ E \in Seq(CharText) /\ B \in Seq(CharText)
        /\ Len(E) = l3 /\ Len(B) = l4
    BY <1>6, <1>7 DEF Cat
  <2> HIDE DEF t, E, B
  <2>2. /\ head \in Seq(CharText) /\ Len(head) = Len(FirstLine) + Len(hs) + Len(E)
        /\ \A i \in 1..Len(FirstLine) : head[i] = FirstLine[i]
        /\ \A i \in 1..Len(hs) : head[Len(FirstLine) + i] = hs[i]
        /\ \A i \in 1..Len(E) : head[Len(FirstLine) + Len(hs) + i] = E[i]
    BY <1>5, <1>8, <2>1, ThreeParts
  <2> HIDE DEF head
  <2>3. /\ t \in Seq(CharText) /\ Len(t) = Len(head) + Len(B)
        /\ \A i \in 1..Len(head) : t[i] = head[i]
        /\ \A i \in 1..Len(B) : t[Len(head) + i] = B[i]
    BY <2>1, <2>2, TwoParts
  <2>4. Len(head) = l1 + l2 + l3
    BY <2>1, <2>2, <1>5, <1>8
  <2>5. \A i \in 1..l1 : t[i] = FirstLine[i]
    BY <2>2, <2>3, <2>4, <1>5
  <2>6. \A i \in 1..l2 : t[l1 + i] = hs[i]
    <3> TAKE i \in 1..l2
    <3>1. l1 + i \in 1..(l1 + l2 + l3)
      OBVIOUS
    <3>2. t[l1 + i] = head[l1 + i]
      BY <3>1, <2>3, <2>4
    <3>3. head[l1 + i] = hs[i]
      BY <2>2, <1>5, <1>8
    <3> QED BY <3>2, <3>3
  <2>7. \A i \in 1..l3 : t[l1 + l2 + i] = E[i]
    BY <2>1, <2>2, <2>3, <2>4, <1>5, <1>8, SMTT(30)
  <2> QED BY <2>1, <2>3, <2>4, <2>5, <2>6, <2>7 DEF E, B
<1> HIDE DEF t, b
<1>10. \A i \in (6 * n + 15)..Len(t) : t[i].connection = "absent"
  <2> SUFFICES ASSUME NEW i \in (l1 + l2 + 1)..(l1 + l2 + l3 + l4) PROVE t[i].connection = "absent"
    BY <1>3, <1>9
  <2>1. CASE i <= l1 + l2 + l3
    <3>1. i - (l1 + l2) \in 1..l3 /\ i = l1 + l2 + (i - (l1 + l2))
      BY <2>1
    <3> QED BY <3>1, <1>6, <1>9
  <2>2. CASE i > l1 + l2 + l3
    <3>1. i - (l1 + l2 + l3) \in 1..l4 /\ i = l1 + l2 + l3 + (i - (l1 + l2 + l3))
      BY <2>2
    <3>2. PICK j \in 1..l4 : i = l1 + l2 + l3 + j
      BY <3>1
    <3>3. t[i] = Plain(b)[j] /\ Plain(b)[j].connection = "absent"
      BY <3>2, <1>7, <1>9
    <3> QED BY <3>3
  <2> QED BY <2>1, <2>2
<1>11. t[6 * n + 15].ch = "cr" /\ t[6 * n + 16].ch = "lf"
  <2>1. 6 * n + 15 = l1 + l2 + 1 /\ 6 * n + 16 = l1 + l2 + 2 /\ 1 \in 1..l3 /\ 2 \in 1..l3
    BY <1>3
  <2>2. t[l1 + l2 + 1].ch = e[1] /\ t[l1 + l2 + 2].ch = e[2]
    BY <2>1, <1>6, <1>9
  <2> QED BY <2>1, <2>2
<1>12. /\ t[1].ch = "letter" /\ t[2].ch = "sp" /\ t[3].ch = "slash" /\ t[4].ch = "sp"
       /\ t[5].ch = "h" /\ t[6].ch = "t" /\ t[7].ch = "t" /\ t[8].ch = "p" /\ t[9].ch = "slash"
       /\ t[10].ch = "1" /\ t[11].ch = "dot" /\ t[12].ch = "1" /\ t[13].ch = "cr" /\ t[14].ch = "lf"
  <2>1. \A i \in 1..14 : t[i].ch = first[i]
    <3> HIDE DEF first
    <3> QED BY <1>3, <1>5, <1>9
  <2> QED BY <2>1
<1>13. \A i \in 1..14 : t[i].connection = "absent"
  BY <1>3, <1>5, <1>9
<1>14. \A i \in 1..(6 * n) : t[14 + i] = hs[i]
  BY <1>3, <1>9
<1>15. ASSUME NEW l, NEW v, LineAt(hs, 0, l, v), n # 0 PROVE LineAt(t, 14, l, v)
  <2>1. LineAt(t, 14 + 0, l, v)
    <3>1. 0 + 6 <= 6 * n
      BY <1>15
    <3> QED BY <1>14, <1>15, <3>1, LineMoved
  <2> QED BY <2>1
<1>16. ASSUME NEW l, NEW v, LineAt(hs, 6, l, v), n = 2 PROVE LineAt(t, 20, l, v)
  <2>1. LineAt(t, 14 + 6, l, v)
    <3>1. 6 + 6 <= 6 * n
      BY <1>16
    <3> QED BY <1>14, <1>16, <3>1, LineMoved
  <2> QED BY <2>1
<1>17. HasLines(t, 14, n, req.msg)
  <2>1. HasLines(hs, 0, n, req.msg) /\ 0 + 6 = 6 /\ 14 + 6 = 20
    BY <1>2 DEF IsHeaders
  <2> QED BY <2>1, <1>15, <1>16 DEF HasLines
<1>18. Len(t) = 16 + 6 * n + req.msg.body /\ t \in Seq(CharText)
  BY <1>3, <1>9
<1> HIDE DEF first, e
<1>19. IsPacked(t, n, req)
  BY <1>10, <1>11, <1>12, <1>13, <1>17, <1>18 DEF IsPacked
<1> QED BY <1>19 DEF t, e, b

\* A packed request is in the grammar of the parser, and its length is that of
\* the message.
LEMMA PackedIsRequest ==
  ASSUME NEW req \in Requests, NEW n, NEW t, IsPacked(t, n, req)
  PROVE  /\ Framed(req) => IsRequest(t, req.method, Shape(t, n))
         /\ Framed(req) => BodyOf(req.method, Shape(t, n)) = req.msg.body
<1> DEFINE q == Shape(t, n)
<1>1. /\ n \in 0..2 /\ n \in Nat
      /\ q.word = 1 /\ q.uri = 3 /\ q.minor = 12 /\ q.n = n
      /\ \A i \in 0..2 : q.end[i] = 14 + 6 * i
      /\ \A i \in 1..2 : q.colon[i] = 10 + 6 * i /\ q.lws[i] = 11 + 6 * i
  BY DEF Shape, IsPacked
<1>2. /\ q.len[0] = NoLength /\ q.len[1] = t[20].length
      /\ q.len[2] = IF q.len[1] = NoLength THEN t[26].length ELSE q.len[1]
  BY DEF Shape
<1>3. /\ req.method \in Methods \ {"Unknown"} /\ req.msg.body \in Nat
      /\ Len(t) = 16 + 6 * n + req.msg.body
  BY DEF Requests, Messages, IsPacked
<1> HIDE DEF q
<1>4. IsFirstLine(t, q)
  <2>1. /\ t[1].ch = "letter" /\ t[2].ch = "sp" /\ t[3].ch = "slash" /\ t[4].ch = "sp"
        /\ t[5].ch = "h" /\ t[6].ch = "t" /\ t[7].ch = "t" /\ t[8].ch = "p" /\ t[9].ch = "slash"
        /\ t[10].ch = "1" /\ t[11].ch = "dot" /\ t[12].ch = "1" /\ t[13].ch = "cr" /\ t[14].ch = "lf"
    BY DEF IsPacked
  <2>2. /\ 1 <= MaxMethod /\ 3 <= 2 + MaxUri /\ 12 < 11 + MaxMinor
    BY ParserAssumption
  <2>3. /\ \A i \in 1..1 : t[i].ch \in Letters
        /\ \A i \in 3..3 : t[i].ch \notin Ctl \cup {"sp"}
        /\ \A i \in 12..12 : t[i].ch \in DigitChars
    BY <2>1 DEF Letters, Ctl, DigitChars
  <2> QED BY <1>1, <2>1, <2>2, <2>3 DEF IsFirstLine
<1>l. HasLines(t, 14, n, req.msg) /\ 14 + 6 = 20
  BY DEF IsPacked
<1>5. n = 0 => req.msg.length = NoLength
  BY <1>l DEF HasLines
<1>6. n = 0 \/ \E l, v : LineAt(t, 14, l, v)
  BY <1>1, <1>l DEF HasLines
<1>7. n # 2 \/ \E l, v : LineAt(t, 20, l, v)
  BY <1>1, <1>l DEF HasLines
<1>8. ASSUME NEW i \in 1..n PROVE IsHeaderLine(t, q, i)
  <2>1. CASE i = 1
    <3>1. PICK l, v : LineAt(t, 14, l, v)
      BY <1>6, <1>8
    <3>2. q.end[0] = 14 /\ q.end[1] = 20 /\ q.colon[1] = 16 /\ q.lws[1] = 17
      BY <1>1
    <3>3. /\ t[15].ch = "print" /\ t[16].ch = "colon" /\ t[17].ch = "sp" /\ t[18].ch = "print"
          /\ t[19].ch = "cr" /\ t[20].ch = "lf"
      BY <3>1 DEF LineAt
    <3>4. /\ \A j \in 15..15 : t[j].ch \in NameChars
          /\ \A j \in 17..17 : t[j].ch \in {"sp", "tab"}
          /\ \A j \in 18..18 : t[j].ch \notin Ctl
      BY <3>3 DEF NameChars, Chars, Ctl, Special
    <3>5. q.len[1] = IF q.len[0] = NoLength THEN t[20].length ELSE q.len[0]
      BY <1>2
    <3>6. IsHeaderLine(t, q, 1)
      BY <3>2, <3>3, <3>4, <3>5 DEF IsHeaderLine
    <3> QED BY <2>1, <3>6
  <2>2. CASE i = 2
    <3>1. PICK l, v : LineAt(t, 20, l, v)
      BY <1>1, <1>7, <1>8, <2>2
    <3>2. q.end[1] = 20 /\ q.end[2] = 26 /\ q.colon[2] = 22 /\ q.lws[2] = 23
      BY <1>1
    <3>3. /\ t[21].ch = "print" /\ t[22].ch = "colon" /\ t[23].ch = "sp" /\ t[24].ch = "print"
          /\ t[25].ch = "cr" /\ t[26].ch = "lf"
      BY <3>1 DEF LineAt
    <3>4. /\ \A j \in 21..21 : t[j].ch \in NameChars
          /\ \A j \in 23..23 : t[j].ch \in {"sp", "tab"}
          /\ \A j \in 24..24 : t[j].ch \notin Ctl
      BY <3>3 DEF NameChars, Chars, Ctl, Special
    <3>5. q.len[2] = IF q.len[1] = NoLength THEN t[26].length ELSE q.len[1]
      BY <1>2
    <3>6. IsHeaderLine(t, q, 2)
      BY <3>2, <3>3, <3>4, <3>5 DEF IsHeaderLine
    <3> QED BY <2>2, <3>6
  <2> QED BY <1>1, <1>8, <2>1, <2>2
<1>9. IsHead(t, q)
  <2>1. \A i \in 0..q.n : q.end[i] \in Nat /\ q.end[i] <= q.end[q.n]
    BY <1>1
  <2>2. q.end[0] = q.minor + 2 /\ q.end[q.n] = 14 + 6 * n
    BY <1>1
  <2>3. t[q.end[q.n] + 1].ch = "cr" /\ t[q.end[q.n] + 2].ch = "lf"
    <3>1. t[6 * n + 15].ch = "cr" /\ t[6 * n + 16].ch = "lf"
      BY DEF IsPacked
    <3>2. q.end[q.n] + 1 = 6 * n + 15 /\ q.end[q.n] + 2 = 6 * n + 16
      BY <1>1, <2>2
    <3> QED BY <3>1, <3>2
  <2>4. q.end[q.n] + 2 - q.end[0] <= MaxHeaders
    BY <1>1, <2>2, ExchangeAssumption, ParserAssumption
  <2> QED BY <1>1, <1>2, <1>8, <2>1, <2>2, <2>3, <2>4 DEF IsHead
<1>10. q.len[q.n] = req.msg.length
  <2>1. CASE n = 0
    BY <1>1, <1>2, <1>5, <2>1
  <2>2. CASE n = 1
    <3>1. LineAt(t, 14, req.msg.length, req.msg.connection)
      BY <1>l, <2>2 DEF HasLines
    <3>2. t[20].length = req.msg.length
      BY <3>1 DEF LineAt
    <3> QED BY <1>1, <1>2, <2>2, <3>2
  <2>3. CASE n = 2
    <3>1. \/ LineAt(t, 14, req.msg.length, "absent") /\ LineAt(t, 20, NoLength, req.msg.connection)
          \/ LineAt(t, 14, NoLength, req.msg.connection) /\ LineAt(t, 20, req.msg.length, "absent")
      BY <1>l, <2>3 DEF HasLines
    <3>2. \/ t[20].length = req.msg.length /\ t[26].length = NoLength
          \/ t[20].length = NoLength /\ t[26].length = req.msg.length
      BY <3>1 DEF LineAt
    <3> QED BY <1>1, <1>2, <2>3, <3>2
  <2> QED BY <1>1, <2>1, <2>2, <2>3
<1>11. Framed(req) => BodyOf(req.method, q) = req.msg.body
  BY <1>10 DEF Framed, BodyOf
<1>12. Framed(req) => IsRequest(t, req.method, q)
  <2>1. Framed(req) => Len(t) = q.end[q.n] + 2 + BodyOf(req.method, q)
    BY <1>1, <1>3, <1>11
  <2> QED BY <1>3, <1>4, <1>9, <2>1 DEF IsRequest
<1> QED BY <1>11, <1>12 DEF q

LEMMA PackedConnection ==
  ASSUME NEW req \in Requests, NEW n, NEW t, IsPacked(t, n, req)
  PROVE  /\ \A i \in 1..Len(t) : t[i].connection \in {"absent", req.msg.connection}
         /\ \/ req.msg.connection = "absent"
            \/ \E i \in 1..Len(t) : t[i].connection = req.msg.connection
<1>1. /\ n \in 0..2 /\ Len(t) = 16 + 6 * n + req.msg.body /\ req.msg.body \in Nat
      /\ \A i \in 1..14 : t[i].connection = "absent"
      /\ \A i \in (6 * n + 15)..Len(t) : t[i].connection = "absent"
  BY DEF IsPacked, Requests, Messages
<1>l. HasLines(t, 14, n, req.msg) /\ 14 + 6 = 20
  BY DEF IsPacked
<1>b. PICK L \in Nat : L = Len(t) /\ L >= 16 + 6 * n
  BY <1>1, SMTT(30)
<1>2. CASE n = 0
  <2>1. \A i \in 1..Len(t) : i \in 1..14 \/ i \in (6 * n + 15)..Len(t)
    BY <1>b, <1>2
  <2>2. req.msg.connection = "absent"
    BY <1>2, <1>l DEF HasLines
  <2> QED BY <1>1, <2>1, <2>2
<1>3. CASE n = 1
  <2>1. LineAt(t, 14, req.msg.length, req.msg.connection)
    BY <1>3, <1>l DEF HasLines
  <2>2. /\ \A i \in 15..19 : t[i].connection = "absent"
        /\ t[20].connection = req.msg.connection
    BY <2>1 DEF LineAt
  <2>3. 20 \in 1..Len(t)
    BY <1>b, <1>3
  <2>4. \A i \in 1..Len(t) : i \in 1..14 \/ i \in 15..19 \/ i = 20 \/ i \in (6 * n + 15)..Len(t)
    BY <1>b, <1>3
  <2> QED BY <1>1, <2>2, <2>3, <2>4
<1>4. CASE n = 2
  <2>1. \/ LineAt(t, 14, req.msg.length, "absent") /\ LineAt(t, 20, NoLength, req.msg.connection)
        \/ LineAt(t, 14, NoLength, req.msg.connection) /\ LineAt(t, 20, req.msg.length, "absent")
    BY <1>4, <1>l DEF HasLines
  <2>2. /\ \A i \in 15..19 : t[i].connection = "absent"
        /\ \A i \in 21..25 : t[i].connection = "absent"
        /\ {t[20].connection, t[26].connection} = {"absent", req.msg.connection}
    <3>1. CASE LineAt(t, 14, req.msg.length, "absent") /\ LineAt(t, 20, NoLength, req.msg.connection)
      BY <3>1 DEF LineAt
    <3>2. CASE LineAt(t, 14, NoLength, req.msg.connection) /\ LineAt(t, 20, req.msg.length, "absent")
      BY <3>2 DEF LineAt
    <3> QED BY <2>1, <3>1, <3>2
  <2>3. 20 \in 1..Len(t) /\ 26 \in 1..Len(t)
    BY <1>b, <1>4
  <2>4. \A i \in 1..Len(t) : i \in 1..14 \/ i \in 15..19 \/ i = 20 \/ i \in 21..25 \/ i = 26
                              \/ i \in (6 * n + 15)..Len(t)
    BY <1>b, <1>4
  <2> QED BY <1>1, <2>2, <2>3, <2>4
<1> QED BY <1>1, <1>2, <1>3, <1>4

\* PackToString makes such texts, and of a framed request one that the parser
\* accepts.
LEMMA PackedText ==
  ASSUME NEW req \in Requests, NEW text \in PackToString(req)
  PROVE  /\ text \in Seq(Characters) /\ text # <<>>
         /\ Framed(req) => IsText(text, req)
<1>1. PICK hs \in PackedHeaders(req.msg) :
          text = LET chars == FirstLine \o hs \o Plain(<<"cr", "lf">>) \o
                              Plain([i \in 1..req.msg.body |-> "letter"])
                 IN [i \in 1..Len(chars) |-> [char |-> chars[i], at |-> i, method |-> req.method]]
  BY DEF PackToString
<1> DEFINE t == FirstLine \o hs \o Plain(<<"cr", "lf">>) \o
                Plain([i \in 1..req.msg.body |-> "letter"])
<1>2. PICK n \in 0..2 : IsPacked(t, n, req)
  BY Packed
<1>3. text = [i \in 1..Len(t) |-> [char |-> t[i], at |-> i, method |-> req.method]]
  BY <1>1
<1> HIDE DEF t
<1>4. t \in Seq(CharText) /\ Len(t) = 16 + 6 * n + req.msg.body
  BY <1>2 DEF IsPacked
<1>5. Len(t) \in Nat /\ Len(t) # 0 /\ t \in [1..Len(t) -> CharText]
  BY <1>4 DEF Requests, Messages
<1>6. req.method \in Methods
  BY DEF Requests
<1>7. text \in [1..Len(t) -> Characters]
  BY <1>3, <1>5, <1>6 DEF Characters
<1>8. text \in Seq(Characters) /\ Len(text) = Len(t)
  BY <1>5, <1>7, SeqDef
<1>9. CharsOf(text) = t
  BY <1>3, <1>5 DEF CharsOf
<1>10. \A i \in 1..Len(text) : text[i].char = t[i] /\ text[i].at = i /\ text[i].method = req.method
  BY <1>3, <1>8
<1>11. ASSUME Framed(req) PROVE IsText(text, req)
  <2>1. /\ \A i \in 1..Len(text) : text[i].char.connection \in {"absent", req.msg.connection}
        /\ \/ req.msg.connection = "absent"
           \/ \E i \in 1..Len(text) : text[i].char.connection = req.msg.connection
    BY <1>2, <1>8, <1>10, PackedConnection
  <2>2. \E q : IsRequest(CharsOf(text), req.method, q) /\ BodyOf(req.method, q) = req.msg.body
    BY <1>2, <1>9, <1>11, PackedIsRequest
  <2> QED BY <1>8, <1>10, <2>1, <2>2 DEF IsText
<1>12. text # <<>>
  BY <1>5, <1>8
<1> QED BY <1>8, <1>11, <1>12

-----------------------------------------------------------------------------
(* Types.                                                                  *)

AnyMessage == [length : Int, connection : ConnectionValues, body : Nat, keep_alive : BOOLEAN]
AnyResponse == [status : StatusCodes, msg : AnyMessage]
Handed == [method : Methods, msg : AnyMessage]
Phases == {"receiving", "answering", "sending", "sent", "over"}

ExchangeTypeOK ==
    /\ script \in Seq(Requests) /\ pipelining \in BOOLEAN /\ sent \in 0..Len(script)
    /\ stream \in Seq(Characters) /\ buffer \in Seq(Characters) /\ dropped \in Nat
    /\ phase \in Phases
    /\ connection \in ConnectionValues
    /\ handed \in Seq(Handed)
    /\ phase = "answering" => handed # <<>>
    /\ response \in AnyResponse
    /\ keep \in BOOLEAN /\ received \in Nat /\ cut \in BOOLEAN

\* A step of the exchange is a step of the parser or leaves it alone, so what is
\* proved about the parser holds of the one of the connection.
LEMMA ExchangeRunsParser ==
  ASSUME ExchangeTypeOK, [ExchangeNext]_exchangeVars
  PROVE  [ParserNext]_parserVars
<1>1. CASE ParseNext
  <2> DEFINE c == Head(buffer)
  <2>1. c \in Characters
    BY <1>1 DEF ParseNext, ExchangeTypeOK
  <2>2. ParseChar(c.char.ch, WordRead(c), c.char.length)
    BY <1>1 DEF ParseNext
  <2>3. c.char.ch \in Chars /\ c.char.length \in Lengths \cup {NoLength, InvalidLength}
        /\ WordRead(c) \in Methods
    <3> HIDE DEF c
    <3> QED BY <2>1 DEF Characters, CharText, WordRead, Methods
  <2> HIDE DEF c
  <2> QED BY <2>2, <2>3 DEF ParserNext
<1>2. CASE OnSent
  BY <1>2 DEF OnSent, ParserNext
<1>3. CASE PeerSends \/ (\E n \in ReadSizes : ReadCompletes(n)) \/ (\E found \in Lookups : Answer(found))
           \/ (\E whole \in BOOLEAN : SendCompletes(whole)) \/ Close
  BY <1>3 DEF PeerSends, ReadCompletes, Answer, SendCompletes, Close
<1>4. CASE UNCHANGED exchangeVars
  BY <1>4 DEF exchangeVars
<1> QED BY <1>1, <1>2, <1>3, <1>4 DEF ExchangeNext, Serve

LEMMA MessageTypes ==
  /\ \A length \in Int, value \in ConnectionValues, body \in Nat :
        NewRequest(length, value, body) \in AnyMessage
  /\ \A status \in StatusCodes, body \in Nat : Response(status, body) \in AnyResponse
  /\ \A status \in StatusCodes : StockResponse(status) \in AnyResponse
<1>1. \A msg \in AnyMessage, body \in Nat : [msg EXCEPT !.body = body] \in AnyMessage
  BY DEF AnyMessage
<1>2. \A msg \in AnyMessage, length \in Int : [msg EXCEPT !.length = length] \in AnyMessage
  BY DEF AnyMessage
<1>3. \A msg \in AnyMessage, k \in BOOLEAN : [msg EXCEPT !.keep_alive = k] \in AnyMessage
  BY DEF AnyMessage
<1>4. \A msg \in AnyMessage : LabelBody(msg) \in AnyMessage
  <2> TAKE msg \in AnyMessage
  <2>1. (IF msg.body = 0 THEN Absent ELSE msg.body) \in Int
    BY DEF AnyMessage, Absent
  <2> QED BY <1>2, <2>1 DEF LabelBody
<1>5. \A length \in Int, value \in ConnectionValues : Message(length, value) \in AnyMessage
  BY DEF Message, AnyMessage
<1>6. ASSUME NEW length \in Int, NEW value \in ConnectionValues, NEW body \in Nat
      PROVE  NewRequest(length, value, body) \in AnyMessage
  <2> DEFINE msg == Message(length, value)
  <2>1. msg \in AnyMessage /\ msg.body \in Nat
    BY <1>5 DEF AnyMessage
  <2> HIDE DEF msg
  <2>2. LabelBody([msg EXCEPT !.body = body]) \in AnyMessage
    BY <1>1, <1>4, <2>1
  <2>3. SetRequestBody(msg, body) \in AnyMessage
    BY <1>1, <2>1, <2>2 DEF SetRequestBody
  <2>4. IsKeepAliveConnection(value) \in BOOLEAN
    BY DEF IsKeepAliveConnection
  <2> QED BY <1>3, <2>3, <2>4 DEF NewRequest, msg
<1>7. ASSUME NEW status \in StatusCodes, NEW body \in Nat
      PROVE  Response(status, body) \in AnyResponse
  <2> DEFINE msg == Message(Absent, "absent")
  <2>1. msg \in AnyMessage
    BY <1>5 DEF Absent, ConnectionValues
  <2> HIDE DEF msg
  <2>2. LabelBody([msg EXCEPT !.body = body]) \in AnyMessage
    BY <1>1, <1>4, <2>1
  <2>3. NewResponse(Absent, "absent", body) \in AnyMessage
    BY <2>2 DEF NewResponse, SetResponseBody, msg
  <2> QED BY <2>3 DEF Response, AnyResponse
<1>8. \A status : HtmlSize(status) \in Nat
  BY DEF HtmlSize
<1> QED BY <1>6, <1>7, <1>8 DEF StockResponse

LEMMA HandleRequestType ==
  ASSUME NEW http_req \in AnyMessage, NEW found \in Lookups
  PROVE  HandleRequest(http_req, found, 1) \in AnyResponse
<1>1. \A rep \in AnyResponse : Announce(http_req, rep) \in AnyResponse
  <2> TAKE rep \in AnyResponse
  <2>1. "keep-alive" \in ConnectionValues
    BY DEF ConnectionValues
  <2>2. [rep.msg EXCEPT !.connection = "keep-alive"] \in AnyMessage
    BY <2>1 DEF AnyResponse, AnyMessage
  <2>3. [rep EXCEPT !.msg.connection = "keep-alive"] \in AnyResponse
    BY <2>2 DEF AnyResponse
  <2> QED BY <2>3 DEF Announce
<1>2. {"BadRequest", "NotFound", "InternalServerError", "Ok"} \subseteq StatusCodes
  BY DEF StatusCodes, StatusNumber
<1>3. Response("Ok", 1) \in AnyResponse
  BY <1>2, MessageTypes
<1>4. /\ StockResponse("BadRequest") \in AnyResponse /\ StockResponse("NotFound") \in AnyResponse
      /\ StockResponse("InternalServerError") \in AnyResponse
  BY <1>2, MessageTypes
<1>5. CASE found = "undecodable"
  BY <1>4, <1>5 DEF HandleRequest
<1>6. CASE found \in {"outside", "unreadable", "neither"}
  BY <1>4, <1>6 DEF HandleRequest
<1>7. CASE found = "throws"
  BY <1>4, <1>7 DEF HandleRequest
<1>8. CASE found \in {"directory", "file"}
  BY <1>1, <1>3, <1>8 DEF HandleRequest
<1> QED BY <1>5, <1>6, <1>7, <1>8 DEF Lookups

LEMMA ExchangeTypeStep ==
  ASSUME ExchangeTypeOK, ParserTypeOK, ParserTypeOK', [ExchangeNext]_exchangeVars
  PROVE  ExchangeTypeOK'
<1> USE DEF ExchangeTypeOK
<1>1. CASE PeerSends
  <2>1. sent' = sent + 1 /\ sent < Len(script) /\ sent' \in 1..Len(script)
    BY <1>1 DEF PeerSends
  <2>2. script[sent'] \in Requests
    BY <2>1
  <2>3. PICK chars \in PackToString(script[sent']) : stream' = stream \o chars
    BY <1>1 DEF PeerSends
  <2>4. chars \in Seq(Characters)
    BY <2>2, <2>3, PackedText
  <2>5. stream' \in Seq(Characters)
    BY <2>3, <2>4
  <2> QED BY <1>1, <2>1, <2>5 DEF PeerSends, answerVars
<1>2. ASSUME NEW n \in ReadSizes, ReadCompletes(n) PROVE ExchangeTypeOK'
  <2> DEFINE size == IF n < Len(stream) THEN n ELSE Len(stream)
  <2>1. size \in 0..Len(stream)
    BY ExchangeAssumption
  <2>2. SubSeq(stream, 1, size) \in Seq(Characters) /\ SubSeq(stream, size + 1, Len(stream)) \in Seq(Characters)
    <3> HIDE DEF size
    <3>1. \A i \in 1..size : i \in 1..Len(stream)
      BY <2>1
    <3>2. \A i \in (size + 1)..Len(stream) : i \in 1..Len(stream)
      BY <2>1
    <3> QED BY <2>1, <3>1, <3>2
  <2>3. buffer' = SubSeq(stream, 1, size) /\ stream' = SubSeq(stream, size + 1, Len(stream))
    BY <1>2 DEF ReadCompletes
  <2> HIDE DEF size
  <2> QED BY <1>2, <2>2, <2>3 DEF ReadCompletes, peerVars, answerVars
<1>3. CASE ParseNext
  <2>1. Head(buffer) \in Characters /\ buffer # <<>> /\ Tail(buffer) \in Seq(Characters)
        /\ Len(buffer) \in Nat \ {0}
    BY <1>3 DEF ParseNext
  <2>2. connection' \in ConnectionValues
    BY <1>3, <2>1 DEF ParseNext, Characters, CharText
  <2>3. PopHttpRequest(content_length', connection', body_len') \in AnyMessage
    <3>1. body_len' \in Nat
      BY DEF ParserTypeOK
    <3>2. (IF content_length' \in Lengths THEN content_length' ELSE Absent) \in Int
      BY MaxBodyAssumption DEF Lengths, Absent
    <3> QED BY <2>2, <3>1, <3>2, MessageTypes DEF PopHttpRequest
  <2>4. method' \in Methods /\ body_len' \in Nat
    BY DEF ParserTypeOK
  <2>5. [method |-> method',
         msg |-> PopHttpRequest(content_length', connection', body_len')] \in Handed
    BY <2>3, <2>4 DEF Handed
  <2> DEFINE request == [method |-> method',
                         msg |-> PopHttpRequest(content_length', connection', body_len')]
  <2>6. \/ UNCHANGED <<dropped, phase, handed, response, keep>> /\ buffer' = Tail(buffer)
        \/ /\ buffer' = <<>> /\ dropped' = dropped + Len(buffer) - 1
           /\ phase' = "answering" /\ handed' = Append(handed, request)
           /\ UNCHANGED <<response, keep>>
        \/ /\ buffer' = <<>> /\ dropped' = dropped + Len(buffer) - 1
           /\ phase' = "sending" /\ response' = StockResponse("BadRequest") /\ keep' = FALSE
           /\ UNCHANGED handed
    BY <1>3 DEF ParseNext
  <2>7. StockResponse("BadRequest") \in AnyResponse
    BY MessageTypes DEF StatusCodes, StatusNumber
  <2>8. buffer' \in Seq(Characters)
    <3>1. buffer' = Tail(buffer) \/ buffer' = <<>>
      BY <2>6
    <3>2. <<>> \in Seq(Characters)
      OBVIOUS
    <3> QED BY <2>1, <3>1, <3>2
  <2>9. dropped' \in Nat
    <3>1. dropped' = dropped \/ dropped' = dropped + Len(buffer) - 1
      BY <2>6
    <3>2. PICK l \in Nat \ {0} : l = Len(buffer)
      BY <2>1
    <3> QED BY <3>1, <3>2
  <2>10. phase' \in Phases /\ keep' \in BOOLEAN /\ response' \in AnyResponse
    BY <2>6, <2>7 DEF Phases
  <2>11. handed' \in Seq(Handed)
    <3>1. handed' = handed \/ handed' = Append(handed, request)
      BY <2>6
    <3> HIDE DEF request
    <3> QED BY <2>5, <3>1, SMTT(30) DEF request
  <2> QED BY <1>3, <2>2, <2>8, <2>9, <2>10, <2>11 DEF ParseNext, peerVars
<1>4. ASSUME NEW found \in Lookups, Answer(found) PROVE ExchangeTypeOK'
  <2> DEFINE l == Last(handed)
  <2>1. handed # <<>>
    BY <1>4 DEF Answer
  <2>2. l \in Handed
    BY <2>1 DEF Last
  <2>3. l.msg \in AnyMessage /\ l.msg.keep_alive \in BOOLEAN
    <3> HIDE DEF l
    <3> QED BY <2>2 DEF Handed, AnyMessage
  <2>4. response' = HandleRequest(l.msg, found, 1) /\ keep' = l.msg.keep_alive /\ phase' = "sending"
    BY <1>4 DEF Answer
  <2> HIDE DEF l
  <2>5. response' \in AnyResponse /\ keep' \in BOOLEAN
    BY <2>3, <2>4, HandleRequestType
  <2> QED BY <1>4, <2>4, <2>5 DEF Answer, Phases, peerVars, wireVars
<1>5. ASSUME NEW whole \in BOOLEAN, SendCompletes(whole) PROVE ExchangeTypeOK'
  BY <1>5 DEF SendCompletes, Phases, peerVars, wireVars
<1>6. CASE OnSent
  BY <1>6 DEF OnSent, Phases, ConnectionValues, peerVars, wireVars, answerVars
<1>7. CASE Close
  BY <1>7 DEF Close, Phases, peerVars, wireVars
<1>8. CASE UNCHANGED exchangeVars
  BY <1>8 DEF exchangeVars, peerVars, wireVars, answerVars
<1> QED BY <1>1, <1>2, <1>3, <1>4, <1>5, <1>6, <1>7, <1>8 DEF ExchangeNext, Serve

-----------------------------------------------------------------------------
(* The invariant behind HandedAsSent.                                      *)

\* The parser is in the middle of the text t of the request req, and a Connection
\* header that it has not seen yet is still to come.
Current(t, req) ==
    /\ connection \in {"absent", req.msg.connection}
    /\ \/ connection = req.msg.connection
       \/ \E i \in (consumed + 1)..Len(t) : t[i].char.connection = req.msg.connection
    /\ \E q : /\ IsRequest(CharsOf(t), req.method, q) /\ BodyOf(req.method, q) = req.msg.body
              /\ Reads(CharsOf(t), req.method, q)

\* all is what the peer has sent: the text of its k-th request begins after
\* start[k] characters.
IsSent(all, text, start) ==
    /\ all \in Seq(Characters)
    /\ text \in [1..sent -> Seq(Characters)] /\ start \in [1..(sent + 1) -> Nat]
    /\ start[sent + 1] = Len(all)
    /\ \A k \in 1..sent :
           /\ IsText(text[k], script[k])
           /\ start[k + 1] = start[k] + Len(text[k]) /\ start[k + 1] <= Len(all)
           /\ \A i \in 1..Len(text[k]) : all[start[k] + i] = text[k][i]

\* The characters that are still to be parsed are the end of it, without the
\* first off.
IsLeft(all, off) ==
    /\ off \in Nat
    /\ off + Len(buffer) + Len(stream) = Len(all)
    /\ \A j \in 1..Len(buffer) : buffer[j] = all[off + j]
    /\ \A j \in 1..Len(stream) : stream[j] = all[off + Len(buffer) + j]

\* The requests handed on are parsed, and of the next one what the parser has
\* consumed.
IsAt(text, start, off) ==
    /\ off = start[Len(handed) + 1] + (IF phase = "receiving" THEN consumed ELSE 0)
    /\ phase = "receiving" =>
           IF Len(handed) < sent
           THEN Current(text[Len(handed) + 1], script[Len(handed) + 1])
           ELSE ParserInit /\ connection = "absent"

Wire == \E all, text, start, off : IsSent(all, text, start) /\ IsLeft(all, off) /\ IsAt(text, start, off)

HandedSoFar ==
    \A i \in DOMAIN handed :
        /\ handed[i].method = script[i].method
        /\ handed[i].msg.length = BodyLength(script[i].msg.body)
        /\ handed[i].msg.keep_alive = IsKeepAliveConnection(script[i].msg.connection)

\* Requests sent, handed and answered keep in step.
InStep ==
    /\ Len(handed) <= sent /\ received <= Len(handed)
    /\ phase \in {"answering", "sending"} => received < Len(handed)
    /\ ~pipelining => sent <= Len(handed) + 1

Undropped ==
    /\ result # "Error" /\ InStep /\ HandedSoFar
    /\ phase # "over" => Wire

ExchangeInv ==
    AllFramed => /\ ~pipelining => dropped = 0
                 /\ dropped = 0 => Undropped

\* Concatenation of what is sent.
LEMMA SentParts ==
  ASSUME NEW a \in Seq(Characters), NEW b \in Seq(Characters)
  PROVE  /\ Cat(a, b) \in Seq(Characters)
         /\ Len(Cat(a, b)) = Len(a) + Len(b)
         /\ \A i \in 1..Len(a) : Cat(a, b)[i] = a[i]
         /\ \A i \in 1..Len(b) : Cat(a, b)[Len(a) + i] = b[i]
BY DEF Cat

LEMMA InvInit == ExchangeInit => ExchangeTypeOK /\ ParserInv /\ ExchangeInv
<1> SUFFICES ASSUME ExchangeInit PROVE ExchangeTypeOK /\ ParserInv /\ ExchangeInv
  OBVIOUS
<1> USE DEF ExchangeInit
<1>1. ParserInit /\ ParserInv
  BY ParserInitInv
<1>2. script \in Seq(Requests)
  BY ExchangeAssumption DEF Requests
<1>3. StockResponse("Ok") \in AnyResponse
  BY MessageTypes DEF StatusCodes, StatusNumber
<1>4. ExchangeTypeOK
  <2>1. sent \in 0..Len(script)
    BY <1>2
  <2>2. <<>> \in Seq(Characters) /\ <<>> \in Seq(Handed)
    OBVIOUS
  <2> QED BY <1>2, <1>3, <2>1, <2>2 DEF ExchangeTypeOK, Phases, ConnectionValues
<1>5. InStep /\ HandedSoFar /\ result # "Error" /\ dropped = 0
  BY <1>1 DEF InStep, HandedSoFar, ParserInit
<1>6. Wire
  <2> DEFINE none == [k \in 1..0 |-> <<>>]
  <2> DEFINE start == [k \in 1..1 |-> 0]
  <2>1. none \in [1..0 -> Seq(Characters)] /\ start \in [1..1 -> Nat] /\ <<>> \in Seq(Characters)
        /\ start[1] = 0
    OBVIOUS
  <2> HIDE DEF none, start
  <2>2. IsSent(<<>>, none, start)
    BY <2>1 DEF IsSent
  <2>3. IsLeft(<<>>, 0)
    BY DEF IsLeft
  <2>4. IsAt(none, start, 0)
    BY <1>1, <2>1 DEF IsAt, ParserInit
  <2> QED BY <2>2, <2>3, <2>4 DEF Wire
<1> QED BY <1>1, <1>4, <1>5, <1>6 DEF ExchangeInv, Undropped

\* A request that a step makes the next one is at its beginning.
LEMMA CurrentBegins ==
  ASSUME NEW req \in Requests, NEW t, IsText(t, req), ParserInit', connection' = "absent"
  PROVE  Current(t, req)'
<1>1. PICK q : IsRequest(CharsOf(t), req.method, q) /\ BodyOf(req.method, q) = req.msg.body
  BY DEF IsText
<1>2. Reads(CharsOf(t), req.method, q)'
  BY <1>1, RequestBegins
<1>3. consumed' = 0
  BY DEF ParserInit
<1> QED BY <1>1, <1>2, <1>3 DEF Current, IsText

LEMMA SendsStep ==
  ASSUME ExchangeTypeOK, Undropped, PeerSends, AllFramed'
  PROVE  Undropped'
<1>1. /\ sent' = sent + 1 /\ sent \in Nat /\ sent < Len(script) /\ script' = script
      /\ sent' \in 1..Len(script) /\ sent' \in Nat
  BY DEF PeerSends, ExchangeTypeOK
<1>2. /\ handed' = handed /\ received' = received /\ phase' = phase /\ pipelining' = pipelining
      /\ buffer' = buffer /\ connection' = connection /\ UNCHANGED parserVars
  BY DEF PeerSends, answerVars
<1>3. UNCHANGED <<result, consumed>> /\ handed \in Seq(Handed) /\ Len(handed) \in Nat /\ received \in Nat
  BY <1>2 DEF parserVars, ExchangeTypeOK
<1>4. InStep'
  <2>1. ~pipelining => sent = 0 \/ received = sent
    BY DEF PeerSends, MaySend
  <2> QED BY <1>1, <1>2, <1>3, <2>1 DEF Undropped, InStep
<1>5. HandedSoFar' /\ result' # "Error"
  BY <1>1, <1>2, <1>3 DEF HandedSoFar, Undropped
<1>6. ASSUME phase # "over" PROVE Wire'
  <2>1. PICK all, text, start, off : IsSent(all, text, start) /\ IsLeft(all, off) /\ IsAt(text, start, off)
    BY <1>6 DEF Undropped, Wire
  <2>2. PICK chars \in PackToString(script[sent']) : stream' = Cat(stream, chars)
    BY DEF PeerSends, Cat
  <2> DEFINE req == script[sent']
  <2>3. req \in Requests /\ Framed(req)
    BY <1>1 DEF ExchangeTypeOK, AllFramed
  <2>4. chars \in Seq(Characters) /\ IsText(chars, req)
    BY <2>2, <2>3, PackedText
  <2> HIDE DEF req
  <2>p. PICK all2, text2, start2 :
           /\ all2 = Cat(all, chars)
           /\ text2 = [k \in 1..sent' |-> IF k = sent' THEN chars ELSE text[k]]
           /\ start2 = [k \in 1..(sent' + 1) |-> IF k = sent' + 1 THEN Len(all) + Len(chars) ELSE start[k]]
    OBVIOUS
  <2>5. /\ all \in Seq(Characters) /\ text \in [1..sent -> Seq(Characters)] /\ start \in [1..(sent + 1) -> Nat]
        /\ start[sent + 1] = Len(all)
    BY <2>1 DEF IsSent
  <2>6. /\ all2 \in Seq(Characters) /\ Len(all2) = Len(all) + Len(chars)
        /\ \A i \in 1..Len(all) : all2[i] = all[i]
        /\ \A i \in 1..Len(chars) : all2[Len(all) + i] = chars[i]
    BY <2>p, <2>4, <2>5, SentParts
  <2>7. /\ \A k \in 1..sent : text2[k] = text[k] /\ start2[k] = start[k] /\ start2[k + 1] = start[k + 1]
        /\ text2[sent'] = chars /\ start2[sent'] = Len(all) /\ start2[sent' + 1] = Len(all) + Len(chars)
    BY <2>p, <1>1, <2>5
  <2>8. text2 \in [1..sent' -> Seq(Characters)] /\ start2 \in [1..(sent' + 1) -> Nat]
    BY <2>p, <1>1, <2>4, <2>5
  <2>9. ASSUME NEW k \in 1..sent'
        PROVE  /\ IsText(text2[k], script'[k])
               /\ start2[k + 1] = start2[k] + Len(text2[k]) /\ start2[k + 1] <= Len(all2)
               /\ \A i \in 1..Len(text2[k]) : all2[start2[k] + i] = text2[k][i]
    <3>1. CASE k \in 1..sent
      <4>1. /\ IsText(text[k], script[k]) /\ start[k + 1] = start[k] + Len(text[k])
            /\ \A i \in 1..Len(text[k]) : all[start[k] + i] = text[k][i]
        BY <2>1, <3>1 DEF IsSent
      <4>2. start[k + 1] <= Len(all) /\ start[k + 1] <= Len(all2)
        <5>1. k + 1 \in 1..(sent + 1)
          BY <1>1, <3>1
        <5>2. start[k + 1] <= Len(all)
          BY <2>1, <3>1 DEF IsSent
        <5>3. start[k + 1] \in Nat /\ Len(all) \in Nat /\ Len(chars) \in Nat
          BY <2>4, <2>5, <5>1
        <5> QED BY <5>2, <5>3, <2>6
      <4>3. ASSUME NEW i \in 1..Len(text[k]) PROVE all2[start[k] + i] = text[k][i]
        <5>1. start[k] \in Nat /\ Len(text[k]) \in Nat /\ Len(all) \in Nat
          BY <2>5, <3>1, <1>1
        <5>2. start[k] + i \in 1..Len(all)
          <6>1. PICK a \in Nat, l \in Nat, n \in Nat : a = start[k] /\ l = Len(text[k]) /\ n = Len(all)
            BY <5>1
          <6>2. a + l <= n /\ i \in 1..l
            BY <6>1, <4>1, <4>2
          <6> QED BY <6>1, <6>2
        <5> QED BY <4>1, <5>2, <2>6
      <4> QED BY <2>7, <3>1, <4>1, <4>2, <4>3, <1>1
    <3>2. CASE k = sent'
      <4>1. text2[k] = chars /\ start2[k] = Len(all) /\ start2[k + 1] = Len(all) + Len(chars)
        BY <2>7, <3>2
      <4>2. IsText(text2[k], script'[k])
        BY <2>4, <3>2, <4>1, <1>1 DEF req
      <4>3. Len(all2) \in Nat
        BY <2>6
      <4> QED BY <2>6, <4>1, <4>2, <4>3
    <3> QED BY <1>1, <3>1, <3>2
  <2>10. IsSent(all2, text2, start2)'
    BY <2>6, <2>7, <2>8, <2>9, <1>1 DEF IsSent
  <2>11. /\ off \in Nat /\ off + Len(buffer) + Len(stream) = Len(all)
         /\ \A j \in 1..Len(buffer) : buffer[j] = all[off + j]
         /\ \A j \in 1..Len(stream) : stream[j] = all[off + Len(buffer) + j]
    BY <2>1 DEF IsLeft
  <2>12. /\ Len(stream') = Len(stream) + Len(chars)
         /\ \A i \in 1..Len(stream) : stream'[i] = stream[i]
         /\ \A i \in 1..Len(chars) : stream'[Len(stream) + i] = chars[i]
    BY <2>2, <2>4, SentParts DEF ExchangeTypeOK
  <2>13. IsLeft(all2, off)'
    <3>1. PICK lb \in Nat, ls \in Nat, la \in Nat, lc \in Nat :
             lb = Len(buffer) /\ ls = Len(stream) /\ la = Len(all) /\ lc = Len(chars)
      BY <2>4, <2>5 DEF ExchangeTypeOK
    <3>2. off + lb + ls = la
      BY <2>11, <3>1
    <3>3. off + Len(buffer') + Len(stream') = Len(all2)
      <4>1. Len(buffer') = lb
        BY <1>2, <3>1
      <4>2. Len(stream') = ls + lc
        BY <2>12, <3>1
      <4>3. Len(all2) = la + lc
        BY <2>6, <3>1
      <4>4. off + lb + (ls + lc) = la + lc
        <5>1. off \in Nat
          BY <2>11
        <5> QED BY <5>1, <3>2
      <4> QED BY <4>1, <4>2, <4>3, <4>4
    <3>4. \A j \in 1..lb : buffer'[j] = all2[off + j]
      <4> TAKE j \in 1..lb
      <4>1. off + j \in 1..la
        BY <3>2, <2>11
      <4> QED BY <4>1, <3>1, <1>2, <2>6, <2>11
    <3>5. \A j \in 1..(ls + lc) : stream'[j] = all2[off + lb + j]
      <4> TAKE j \in 1..(ls + lc)
      <4>1. CASE j <= ls
        <5>1. off + lb + j \in 1..la /\ j \in 1..ls
          BY <3>2, <2>11, <4>1
        <5> QED BY <5>1, <3>1, <2>6, <2>11, <2>12
      <4>2. CASE j > ls
        <5>1. j - ls \in 1..lc /\ off + lb + j = la + (j - ls) /\ j = ls + (j - ls)
          BY <3>2, <2>11, <4>2
        <5>2. stream'[ls + (j - ls)] = chars[j - ls] /\ all2[la + (j - ls)] = chars[j - ls]
          BY <5>1, <3>1, <2>6, <2>12
        <5> QED BY <5>1, <5>2
      <4> QED BY <4>1, <4>2
    <3> QED BY <3>1, <3>3, <3>4, <3>5, <1>2, <2>11, <2>12 DEF IsLeft
  <2>14. IsAt(text2, start2, off)'
    <3>1. Len(handed) <= sent
      BY DEF Undropped, InStep
    <3>2. Len(handed) + 1 \in 1..(sent + 1)
      BY <3>1, <1>1, <1>3
    <3>3. start2[Len(handed) + 1] = start[Len(handed) + 1]
      <4>1. CASE Len(handed) + 1 \in 1..sent
        BY <4>1, <2>7
      <4>2. CASE Len(handed) + 1 = sent + 1
        BY <4>2, <2>5, <2>7, <1>1
      <4> QED BY <3>2, <4>1, <4>2, <1>1
    <3>4. off = start[Len(handed) + 1] + (IF phase = "receiving" THEN consumed ELSE 0)
      BY <2>1 DEF IsAt
    <3>5. ASSUME phase = "receiving" PROVE Current(text2[Len(handed) + 1], script[Len(handed) + 1])'
      <4>1. PICK t, r : t = text2[Len(handed) + 1] /\ r = script[Len(handed) + 1]
        OBVIOUS
      <4>2. ASSUME Len(handed) < sent PROVE Current(t, r)'
        <5>1. Current(text[Len(handed) + 1], script[Len(handed) + 1])
          BY <2>1, <3>5, <4>2 DEF IsAt
        <5>2. Len(handed) + 1 \in 1..sent
          BY <4>2, <1>1, <1>3
        <5>3. text2[Len(handed) + 1] = text[Len(handed) + 1]
          BY <5>2, <2>7
        <5>4. Current(t, r)
          BY <5>1, <5>3, <4>1
        <5> QED BY <5>4, <1>2 DEF Current, Reads, LineReads, HeaderReads, BodyReads,
               parserVars, lineVars, headerVars, bodyVars
      <4>3. ASSUME Len(handed) = sent PROVE Current(t, r)'
        <5>1. ParserInit /\ connection = "absent"
          BY <2>1, <3>5, <4>3, <1>1 DEF IsAt
        <5>2. ParserInit' /\ connection' = "absent"
          BY <5>1, <1>2 DEF ParserInit, parserVars, lineVars, headerVars, bodyVars
        <5>3. Len(handed) + 1 = sent'
          BY <4>3, <1>1
        <5>4. t = chars /\ r = req
          BY <4>1, <5>3, <2>7 DEF req
        <5> QED BY <5>2, <5>4, <2>3, <2>4, CurrentBegins
      <4>4. Current(t, r)'
        BY <4>2, <4>3, <3>1, <1>1, <1>3
      <4> QED BY <4>1, <4>4, <1>1, <1>2
    <3>6. Len(handed') < sent'
      BY <3>1, <1>1, <1>2, <1>3
    <3> QED BY <3>3, <3>4, <3>5, <3>6, <1>2, <1>3 DEF IsAt
  <2> QED BY <2>10, <2>13, <2>14 DEF Wire
<1> QED BY <1>2, <1>4, <1>5, <1>6 DEF Undropped

LEMMA ReadStep ==
  ASSUME ExchangeTypeOK, Undropped, NEW n \in ReadSizes, ReadCompletes(n)
  PROVE  Undropped'
<1> DEFINE size == IF n < Len(stream) THEN n ELSE Len(stream)
<1>1. /\ phase = "receiving" /\ buffer = <<>> /\ stream # <<>>
      /\ buffer' = SubSeq(stream, 1, size)
      /\ stream' = SubSeq(stream, size + 1, Len(stream))
  BY DEF ReadCompletes
<1>2. /\ UNCHANGED <<phase, connection, handed, received, script, pipelining, sent, result, consumed>>
      /\ UNCHANGED parserVars
  BY DEF ReadCompletes, answerVars, peerVars, parserVars
<1>3. stream \in Seq(Characters) /\ Len(stream) \in Nat
  BY DEF ExchangeTypeOK
<1>4. size \in 0..Len(stream)
  BY <1>3, ExchangeAssumption
<1> HIDE DEF size
<1>5. /\ Len(buffer') = size /\ \A j \in 1..size : buffer'[j] = stream[j]
      /\ Len(stream') = Len(stream) - size
      /\ \A j \in 1..(Len(stream) - size) : stream'[j] = stream[size + j]
  BY <1>1, <1>3, <1>4
<1>6. InStep' /\ HandedSoFar' /\ result' # "Error"
  BY <1>2 DEF Undropped, InStep, HandedSoFar
<1>7. PICK all, text, start, off : IsSent(all, text, start) /\ IsLeft(all, off) /\ IsAt(text, start, off)
  BY <1>1 DEF Undropped, Wire
<1>8. IsSent(all, text, start)'
  BY <1>2, <1>7 DEF IsSent
<1>9. IsAt(text, start, off)'
  BY <1>2, <1>7 DEF IsAt, ParserInit, Current, Reads, LineReads, HeaderReads, BodyReads,
     parserVars, lineVars, headerVars, bodyVars
<1>10. IsLeft(all, off)'
  <2>1. /\ off \in Nat /\ off + 0 + Len(stream) = Len(all)
        /\ \A j \in 1..Len(stream) : stream[j] = all[off + 0 + j]
    BY <1>1, <1>7 DEF IsLeft
  <2>2. PICK ls \in Nat : ls = Len(stream)
    BY <1>3
  <2>3. off + size + (ls - size) = Len(all)
    BY <1>4, <2>1, <2>2
  <2>4. \A j \in 1..size : buffer'[j] = all[off + j]
    BY <1>4, <1>5, <2>1, <2>2
  <2>5. \A j \in 1..(ls - size) : stream'[j] = all[off + size + j]
    <3> TAKE j \in 1..(ls - size)
    <3>1. size + j \in 1..ls /\ off + size + j = off + 0 + (size + j)
      BY <1>4, <2>1, <2>2
    <3> QED BY <3>1, <1>5, <2>1, <2>2
  <2> QED BY <1>5, <2>1, <2>2, <2>3, <2>4, <2>5 DEF IsLeft
<1>11. Wire'
  BY <1>8, <1>9, <1>10 DEF Wire
<1> QED BY <1>6, <1>11 DEF Undropped

\* What a request says about keeping the connection is what its header says.
LEMMA KeepAliveOf ==
  \A length, value, body : NewRequest(length, value, body).keep_alive = IsKeepAliveConnection(value)
<1> TAKE length, value, body
<1> DEFINE msg == SetRequestBody(Message(length, value), body)
<1>1. /\ msg.keep_alive = FALSE /\ DOMAIN msg = {"length", "connection", "body", "keep_alive"}
  BY DEF SetRequestBody, LabelBody, Message
<1> HIDE DEF msg
<1>2. value = "absent" => IsKeepAliveConnection(value) = FALSE
  BY DEF IsKeepAliveConnection
<1>3. [msg EXCEPT !.keep_alive = IsKeepAliveConnection(value)].keep_alive = IsKeepAliveConnection(value)
  BY <1>1
<1> QED BY <1>1, <1>2, <1>3 DEF NewRequest, msg

\* The Content-Length of a request is the size of the body it was made with,
\* although the request does not keep that body.
LEMMA LengthOfRequest ==
  \A length, value, body : NewRequest(length, value, body).length = BodyLength(body)
<1> TAKE length, value, body
<1>1. SetRequestBody(Message(length, value), body).length = BodyLength(body)
  BY DEF SetRequestBody, LabelBody, Message, BodyLength
<1>2. NewRequest(length, value, body).length = SetRequestBody(Message(length, value), body).length
  BY DEF NewRequest, SetRequestBody, LabelBody, Message
<1> QED BY <1>1, <1>2

\* The next character is that of the current request, whose reading goes on.
LEMMA CurrentRead ==
  ASSUME ExchangeTypeOK, NEW req \in Requests, NEW t, IsText(t, req), Current(t, req),
         buffer # <<>>, consumed < Len(t) => Head(buffer) = t[consumed + 1],
         ParseNext
  PROVE  /\ consumed < Len(t) /\ consumed' = consumed + 1
         /\ result' = IF consumed' = Len(t) THEN "Ok" ELSE "InProgress"
         /\ result' = "InProgress" => Current(t, req)'
         /\ result' = "Ok" => /\ method' = req.method /\ body_len' = req.msg.body
                              /\ connection' = req.msg.connection
<1> DEFINE ct == CharsOf(t)
<1>1. PICK q : /\ IsRequest(ct, req.method, q) /\ BodyOf(req.method, q) = req.msg.body
               /\ Reads(ct, req.method, q)
  BY DEF Current
<1>2. t \in Seq(Characters) /\ Len(ct) = Len(t) /\ \A i \in 1..Len(t) : ct[i] = t[i].char
  BY DEF IsText, CharsOf
<1> HIDE DEF ct
<1> DEFINE c == Head(buffer)
<1>3. /\ ParseChar(c.char.ch, WordRead(c), c.char.length)
      /\ connection' = IF connection = "absent" THEN c.char.connection ELSE connection
  BY DEF ParseNext
<1>4. /\ result = "InProgress" /\ consumed' = consumed + 1 /\ consumed \in Nat /\ consumed <= Len(t)
      /\ result = IF consumed = Len(t) THEN "Ok" ELSE "InProgress"
  BY <1>1, <1>2, <1>3 DEF ParseChar, Reads
<1>5. consumed < Len(t) /\ consumed + 1 \in 1..Len(t)
  <2>1. Len(t) \in Nat
    BY <1>2
  <2> QED BY <2>1, <1>4
<1>6. /\ c = t[consumed + 1] /\ c.char = ct[consumed + 1] /\ c.at = consumed + 1
      /\ c.method = req.method /\ c.char.connection \in {"absent", req.msg.connection}
  BY <1>2, <1>5 DEF IsText
<1> HIDE DEF c
<1>7. WordRead(c) = req.method
  BY <1>6 DEF WordRead
<1>8. ReadNext(ct, req.method, q)
  BY <1>3, <1>6, <1>7 DEF ReadNext
<1>9. Reads(ct, req.method, q)'
  BY <1>1, <1>8, RequestRead
<1>10. result' = IF consumed' = Len(t) THEN "Ok" ELSE "InProgress"
  BY <1>2, <1>9 DEF Reads
<1>11. connection' \in {"absent", req.msg.connection}
  BY <1>3, <1>6 DEF Current
<1>12. \/ connection' = req.msg.connection
       \/ \E i \in (consumed' + 1)..Len(t) : t[i].char.connection = req.msg.connection
  <2>1. CASE connection = req.msg.connection
    <3>1. CASE connection = "absent"
      BY <2>1, <3>1, <1>3, <1>6
    <3> QED BY <2>1, <3>1, <1>3
  <2>2. CASE \E i \in (consumed + 1)..Len(t) : t[i].char.connection = req.msg.connection
    <3>1. PICK i \in (consumed + 1)..Len(t) : t[i].char.connection = req.msg.connection
      BY <2>2
    <3>2. CASE i = consumed + 1
      <4>1. c.char.connection = req.msg.connection
        BY <1>6, <3>1, <3>2
      <4>2. connection \in {"absent", req.msg.connection}
        BY DEF Current
      <4> QED BY <4>1, <4>2, <1>3
    <3>3. CASE i # consumed + 1
      <4>1. i \in (consumed' + 1)..Len(t)
        BY <1>4, <3>1, <3>3
      <4> QED BY <3>1, <4>1
    <3> QED BY <3>2, <3>3
  <2> QED BY <2>1, <2>2 DEF Current
<1>13. result' = "InProgress" => Current(t, req)'
  BY <1>1, <1>9, <1>11, <1>12 DEF Current, ct
<1>14. ASSUME result' = "Ok"
       PROVE  method' = req.method /\ body_len' = req.msg.body /\ connection' = req.msg.connection
  <2>1. consumed' = Len(t)
    BY <1>10, <1>14
  <2>2. method' = req.method /\ body_len' = BodyOf(req.method, q)
    BY <1>1, <1>9, <1>14, RequestDone
  <2>3. (consumed' + 1)..Len(t) = {}
    BY <2>1, <1>4
  <2> QED BY <2>2, <2>3, <1>1, <1>12
<1> QED BY <1>4, <1>5, <1>10, <1>13, <1>14

LEMMA ParseStep ==
  ASSUME ExchangeTypeOK, Undropped, dropped = 0, ParseNext
  PROVE  /\ ~pipelining => dropped' = 0
         /\ dropped' = 0 => Undropped'
<1>1. /\ phase = "receiving" /\ buffer # <<>> /\ UNCHANGED <<script, pipelining, sent, stream, received, cut>>
  BY DEF ParseNext, peerVars
<1>2. /\ buffer \in Seq(Characters) /\ stream \in Seq(Characters) /\ handed \in Seq(Handed)
      /\ Len(handed) \in Nat /\ sent \in Nat /\ sent <= Len(script) /\ script \in Seq(Requests)
      /\ received \in Nat
  BY DEF ExchangeTypeOK
<1>3. PICK all, text, start, off : IsSent(all, text, start) /\ IsLeft(all, off) /\ IsAt(text, start, off)
  BY <1>1 DEF Undropped, Wire
<1>4. /\ all \in Seq(Characters) /\ text \in [1..sent -> Seq(Characters)] /\ start \in [1..(sent + 1) -> Nat]
      /\ start[sent + 1] = Len(all)
  BY <1>3 DEF IsSent
<1>5. PICK cur \in Nat, lb \in Nat, ls \in Nat, la \in Nat :
         cur = Len(handed) + 1 /\ lb = Len(buffer) /\ ls = Len(stream) /\ la = Len(all)
  BY <1>2, <1>4
<1>6. /\ off \in Nat /\ off + lb + ls = la
      /\ \A j \in 1..lb : buffer[j] = all[off + j]
      /\ \A j \in 1..ls : stream[j] = all[off + lb + j]
  BY <1>3, <1>5 DEF IsLeft
<1>7. lb >= 1
  BY <1>1, <1>2, <1>5
<1>8. off = start[cur] + consumed
  BY <1>1, <1>3, <1>5 DEF IsAt
<1>9. Len(handed) < sent /\ cur \in 1..sent /\ cur + 1 \in 1..(sent + 1)
  <2>1. Len(handed) <= sent
    BY DEF Undropped, InStep
  <2>2. ASSUME Len(handed) = sent PROVE FALSE
    <3>1. ParserInit
      BY <1>1, <1>3, <2>2, <1>2 DEF IsAt
    <3>2. consumed = 0 /\ cur = sent + 1 /\ start[cur] = la
      BY <3>1, <2>2, <1>4, <1>5 DEF ParserInit
    <3> QED BY <3>2, <1>6, <1>7, <1>8
  <2> QED BY <2>1, <2>2, <1>2, <1>5
<1>10. PICK req, t : req = script[cur] /\ t = text[cur]
  OBVIOUS
<1>11. req \in Requests /\ t \in Seq(Characters) /\ IsText(t, req) /\ Current(t, req)
  <2>1. req \in Requests /\ t \in Seq(Characters)
    BY <1>2, <1>4, <1>9, <1>10
  <2>2. IsText(t, req)
    BY <1>3, <1>9, <1>10 DEF IsSent
  <2>3. Current(t, req)
    BY <1>1, <1>3, <1>5, <1>9, <1>10 DEF IsAt
  <2> QED BY <2>1, <2>2, <2>3
<1>12. PICK sc \in Nat, lt \in Nat : sc = start[cur] /\ lt = Len(t)
  <2>1. cur \in 1..(sent + 1)
    BY <1>2, <1>9
  <2>2. start[cur] \in Nat
    BY <1>4, <2>1
  <2> QED BY <2>2, <1>11
<1>13. /\ start[cur + 1] = sc + lt /\ sc + lt <= la
       /\ \A i \in 1..lt : all[sc + i] = t[i]
  BY <1>3, <1>5, <1>9, <1>10, <1>12 DEF IsSent
<1>14. consumed \in Nat
  BY <1>11 DEF Current, Reads
<1>15. consumed < Len(t) => Head(buffer) = t[consumed + 1]
  <2> SUFFICES ASSUME consumed < Len(t) PROVE Head(buffer) = t[consumed + 1]
    OBVIOUS
  <2>1. Head(buffer) = buffer[1]
    BY <1>1, <1>2
  <2>2. buffer[1] = all[off + 1]
    BY <1>6, <1>7
  <2>3. off + 1 = sc + (consumed + 1) /\ consumed + 1 \in 1..lt
    BY <1>8, <1>12, <1>14, SMTT(30)
  <2> QED BY <2>1, <2>2, <2>3, <1>13
<1>16. /\ consumed < lt /\ consumed' = consumed + 1
       /\ result' = IF consumed' = lt THEN "Ok" ELSE "InProgress"
       /\ result' = "InProgress" => Current(t, req)'
       /\ result' = "Ok" => /\ method' = req.method /\ body_len' = req.msg.body
                            /\ connection' = req.msg.connection
  BY <1>1, <1>11, <1>12, <1>15, CurrentRead
<1>17. IsSent(all, text, start)'
  BY <1>1, <1>3 DEF IsSent
<1>18. off + 1 \in Nat /\ off + 1 = sc + consumed'
  <2>1. off \in Nat /\ off = sc + consumed /\ consumed' = consumed + 1
    BY <1>6, <1>8, <1>12, <1>16
  <2> QED BY <2>1, <1>14
<1>19. CASE result' = "InProgress"
  <2>1. buffer' = Tail(buffer) /\ UNCHANGED <<dropped, phase, handed>>
    BY <1>19 DEF ParseNext
  <2>2. Len(buffer') = lb - 1 /\ \A j \in 1..(lb - 1) : buffer'[j] = buffer[j + 1]
    BY <2>1, <1>2, <1>5, <1>7
  <2>3. IsLeft(all, off + 1)'
    <3>1. (off + 1) + (lb - 1) + ls = la
      BY <1>6, <1>7
    <3>2. \A j \in 1..(lb - 1) : buffer'[j] = all[(off + 1) + j]
      <4> TAKE j \in 1..(lb - 1)
      <4>1. j + 1 \in 1..lb /\ off + (j + 1) = (off + 1) + j
        BY <1>6
      <4> QED BY <4>1, <2>2, <1>6
    <3>3. \A j \in 1..ls : stream'[j] = all[(off + 1) + (lb - 1) + j]
      <4> TAKE j \in 1..ls
      <4>1. off + lb + j = (off + 1) + (lb - 1) + j
        BY <1>6
      <4> QED BY <4>1, <1>1, <1>6
    <3>4. Len(stream') = ls /\ Len(all) = la
      BY <1>1, <1>5
    <3> QED BY <3>1, <3>2, <3>3, <3>4, <2>2, <1>18 DEF IsLeft
  <2>4. IsAt(text, start, off + 1)'
    <3>1. Len(handed') + 1 = cur /\ phase' = "receiving" /\ Len(handed') < sent'
      BY <2>1, <1>1, <1>5, <1>9
    <3>2. off + 1 = start[Len(handed') + 1] + consumed'
      BY <3>1, <1>12, <1>18
    <3>3. Current(text[Len(handed) + 1], script[Len(handed) + 1])'
      BY <3>1, <1>1, <1>10, <1>16, <1>19
    <3> QED BY <3>1, <3>2, <3>3 DEF IsAt
  <2>5. Wire'
    BY <1>17, <2>3, <2>4 DEF Wire
  <2>6. InStep' /\ HandedSoFar'
    BY <1>1, <2>1 DEF Undropped, InStep, HandedSoFar
  <2> QED BY <2>1, <2>5, <2>6, <1>19 DEF Undropped
<1>20. CASE result' = "Ok"
  <2> DEFINE request == [method |-> method',
                         msg |-> PopHttpRequest(content_length', connection', body_len')]
  <2>1. /\ buffer' = <<>> /\ dropped' = dropped + Len(buffer) - 1
        /\ phase' = "answering" /\ handed' = Append(handed, request)
    BY <1>20 DEF ParseNext
  <2>2. /\ request.method = req.method /\ request.msg.length = BodyLength(req.msg.body)
        /\ request.msg.keep_alive = IsKeepAliveConnection(req.msg.connection)
    BY <1>16, <1>20, KeepAliveOf, LengthOfRequest DEF PopHttpRequest
  <2> HIDE DEF request
  <2>3. /\ Len(handed') = cur /\ handed'[cur] = request
        /\ \A i \in 1..(cur - 1) : handed'[i] = handed[i]
        /\ DOMAIN handed' = 1..cur /\ DOMAIN handed = 1..(cur - 1)
    BY <2>1, <1>2, <1>5
  <2>4. consumed' = lt
    BY <1>16, <1>20
  <2>5. off + 1 = start[cur + 1]
    BY <2>4, <1>13, <1>18
  <2>6. ~pipelining => lb = 1
    <3>1. ~pipelining => sent = cur
      BY <1>2, <1>5, <1>9 DEF Undropped, InStep
    <3>2. ASSUME sent = cur PROVE lb = 1
      <4>1. off + 1 = la
        BY <2>5, <3>2, <1>4, <1>5
      <4> QED BY <4>1, <1>6, <1>7
    <3> QED BY <3>1, <3>2
  <2>7. dropped' = lb - 1
    BY <2>1, <1>5
  <2>8. ASSUME dropped' = 0 PROVE Undropped'
    <3>1. lb = 1
      BY <2>7, <2>8
    <3>2. IsLeft(all, off + 1)'
      <4>1. Len(buffer') = 0 /\ Len(stream') = ls
        BY <2>1, <1>1, <1>5
      <4>3. (off + 1) + 0 + ls = la
        BY <3>1, <1>6
      <4>2. \A j \in 1..ls : stream'[j] = all[(off + 1) + 0 + j]
        <5> TAKE j \in 1..ls
        <5>1. off + lb + j = (off + 1) + 0 + j
          BY <3>1, <1>6
        <5> QED BY <5>1, <1>1, <1>6
      <4> QED BY <4>1, <4>2, <4>3, <1>5, <1>18 DEF IsLeft
    <3>3. IsAt(text, start, off + 1)'
      BY <2>1, <2>3, <2>5, <1>18 DEF IsAt
    <3>4. Wire'
      BY <1>17, <3>2, <3>3 DEF Wire
    <3>5. InStep'
      BY <2>1, <2>3, <1>1, <1>2, <1>5, <1>9 DEF Undropped, InStep
    <3>6. HandedSoFar'
      <4>1. HandedSoFar
        BY DEF Undropped
      <4> SUFFICES ASSUME NEW i \in 1..cur
                   PROVE  /\ handed'[i].method = script[i].method
                          /\ handed'[i].msg.length = BodyLength(script[i].msg.body)
                          /\ handed'[i].msg.keep_alive = IsKeepAliveConnection(script[i].msg.connection)
        BY <2>3, <1>1 DEF HandedSoFar
      <4>2. CASE i = cur
        BY <4>2, <2>2, <2>3, <1>10
      <4>3. CASE i # cur
        <5>1. i \in 1..(cur - 1)
          BY <4>3
        <5> QED BY <5>1, <4>1, <2>3 DEF HandedSoFar
      <4> QED BY <4>2, <4>3
    <3> QED BY <3>4, <3>5, <3>6, <1>20 DEF Undropped
  <2> QED BY <2>6, <2>7, <2>8
<1> QED BY <1>16, <1>19, <1>20

LEMMA GoesOnStep ==
  ASSUME ExchangeTypeOK, Undropped, OnSent
  PROVE  Undropped'
<1>1. /\ phase = "sent" /\ UNCHANGED <<script, pipelining, sent, stream, buffer, handed, received>>
  BY DEF OnSent, peerVars, wireVars, answerVars
<1>2. InStep'
  <2>1. phase' \in {"receiving", "over"}
    BY DEF OnSent
  <2> QED BY <2>1, <1>1 DEF Undropped, InStep
<1>3. HandedSoFar'
  BY <1>1 DEF Undropped, HandedSoFar
<1>4. CASE keep
  <2>1. phase' = "receiving" /\ ContinueSession /\ connection' = "absent"
    BY <1>4 DEF OnSent
  <2>2. ParserInit'
    BY <2>1, ContinueStep
  <2>3. result' = "InProgress" /\ consumed' = 0
    BY <2>2 DEF ParserInit
  <2>4. PICK all, text, start, off : IsSent(all, text, start) /\ IsLeft(all, off) /\ IsAt(text, start, off)
    BY <1>1 DEF Undropped, Wire
  <2>5. IsSent(all, text, start)' /\ IsLeft(all, off)'
    BY <1>1, <2>4 DEF IsSent, IsLeft
  <2>6. off \in Nat /\ off = start[Len(handed) + 1] + 0
    BY <1>1, <2>4 DEF IsAt, IsLeft
  <2>7. ASSUME Len(handed) < sent
        PROVE  Current(text[Len(handed) + 1], script[Len(handed) + 1])'
    <3>1. PICK k \in 1..sent : k = Len(handed) + 1
      BY <2>7 DEF ExchangeTypeOK
    <3>2. PICK req, t : req = script[k] /\ t = text[k]
      OBVIOUS
    <3>3. IsText(t, req)
      BY <2>4, <3>1, <3>2 DEF IsSent
    <3>4. req \in Requests
      BY <3>1, <3>2 DEF ExchangeTypeOK
    <3>5. Current(t, req)'
      BY <3>3, <3>4, <2>1, <2>2, CurrentBegins
    <3> QED BY <3>1, <3>2, <3>5, <1>1
  <2>8. IsAt(text, start, off)'
    BY <1>1, <2>1, <2>2, <2>3, <2>6, <2>7 DEF IsAt
  <2>9. Wire'
    BY <2>5, <2>8 DEF Wire
  <2> QED BY <1>2, <1>3, <2>3, <2>9 DEF Undropped
<1>5. CASE ~keep
  <2>1. phase' = "over" /\ result' = result
    BY <1>5 DEF OnSent, parserVars
  <2> QED BY <1>2, <1>3, <2>1 DEF Undropped
<1> QED BY <1>4, <1>5 DEF OnSent

\* The steps that neither read nor parse.
LEMMA AnswersStep ==
  ASSUME ExchangeTypeOK, Undropped,
         \/ \E found \in Lookups : Answer(found)
         \/ \E whole \in BOOLEAN : SendCompletes(whole)
         \/ Close
         \/ UNCHANGED exchangeVars
  PROVE  Undropped'
<1>1. /\ UNCHANGED <<script, pipelining, sent, stream, buffer, handed, connection>> /\ UNCHANGED parserVars
  BY DEF Answer, SendCompletes, Close, exchangeVars, peerVars, wireVars, answerVars
<1>2. UNCHANGED <<result, consumed>> /\ received \in Nat /\ Len(handed) \in Nat
  BY <1>1 DEF parserVars, ExchangeTypeOK
<1>3. \/ phase = "answering" /\ phase' = "sending" /\ received' = received
      \/ phase = "sending" /\ phase' = "sent" /\ received' \in {received, received + 1}
      \/ phase' = "over" /\ received' = received
      \/ phase' = phase /\ received' = received
  BY DEF Answer, SendCompletes, Close, exchangeVars, answerVars
<1>4. InStep'
  BY <1>1, <1>2, <1>3 DEF Undropped, InStep
<1>5. HandedSoFar' /\ result' # "Error"
  BY <1>1, <1>2 DEF Undropped, HandedSoFar
<1>6. ASSUME phase' # "over" PROVE Wire'
  <2>1. /\ phase # "over"
        /\ phase' = "receiving" <=> phase = "receiving"
    BY <1>3, <1>6
  <2>2. PICK all, text, start, off : IsSent(all, text, start) /\ IsLeft(all, off) /\ IsAt(text, start, off)
    BY <2>1 DEF Undropped, Wire
  <2>3. IsSent(all, text, start)' /\ IsLeft(all, off)'
    BY <1>1, <2>2 DEF IsSent, IsLeft
  <2>4. IsAt(text, start, off)'
    BY <1>1, <2>1, <2>2 DEF IsAt, ParserInit, Current, Reads, LineReads, HeaderReads, BodyReads,
       parserVars, lineVars, headerVars, bodyVars
  <2> QED BY <2>3, <2>4 DEF Wire
<1> QED BY <1>4, <1>5, <1>6 DEF Undropped

LEMMA InvStep ==
  ASSUME ExchangeTypeOK, ExchangeInv, [ExchangeNext]_exchangeVars
  PROVE  ExchangeInv'
<1>1. CASE PeerSends
  <2>1. /\ sent' = sent + 1 /\ script' = script /\ pipelining' = pipelining /\ dropped' = dropped
        /\ sent \in Nat
    BY <1>1 DEF PeerSends, ExchangeTypeOK
  <2>2. AllFramed' => AllFramed
    BY <2>1 DEF AllFramed
  <2> QED BY <1>1, <2>1, <2>2, SendsStep DEF ExchangeInv
<1>2. ASSUME NEW n \in ReadSizes, ReadCompletes(n) PROVE ExchangeInv'
  <2>1. UNCHANGED <<script, pipelining, sent, dropped>>
    BY <1>2 DEF ReadCompletes, peerVars
  <2> QED BY <1>2, <2>1, ReadStep DEF ExchangeInv, AllFramed
<1>3. CASE ParseNext
  <2>1. UNCHANGED <<script, pipelining, sent>> /\ dropped' >= dropped /\ dropped \in Nat /\ dropped' \in Nat
    <3>1. PICK l \in Nat \ {0} : l = Len(buffer)
      BY <1>3 DEF ParseNext, ExchangeTypeOK
    <3>2. dropped' = dropped \/ dropped' = dropped + l - 1
      BY <1>3, <3>1 DEF ParseNext
    <3>3. dropped \in Nat
      BY DEF ExchangeTypeOK
    <3>4. UNCHANGED <<script, pipelining, sent>>
      BY <1>3 DEF ParseNext, peerVars
    <3> QED BY <3>1, <3>2, <3>3, <3>4
  <2>2. AllFramed' => AllFramed
    BY <2>1 DEF AllFramed
  <2> QED BY <1>3, <2>1, <2>2, ParseStep DEF ExchangeInv
<1>4. CASE OnSent
  <2>1. UNCHANGED <<script, pipelining, sent, dropped>>
    BY <1>4 DEF OnSent, peerVars, wireVars
  <2> QED BY <1>4, <2>1, GoesOnStep DEF ExchangeInv, AllFramed
<1>5. CASE \/ \E found \in Lookups : Answer(found)
           \/ \E whole \in BOOLEAN : SendCompletes(whole)
           \/ Close
           \/ UNCHANGED exchangeVars
  <2>1. UNCHANGED <<script, pipelining, sent, dropped>>
    BY <1>5 DEF Answer, SendCompletes, Close, exchangeVars, peerVars, wireVars
  <2> QED BY <1>5, <2>1, AnswersStep DEF ExchangeInv, AllFramed
<1> QED BY <1>1, <1>2, <1>3, <1>4, <1>5 DEF ExchangeNext, Serve

LEMMA ExchangeInvariance == ExchangeSpec => [](ExchangeTypeOK /\ ParserInv /\ ExchangeInv)
<1>1. ExchangeInit => ExchangeTypeOK /\ ParserInv /\ ExchangeInv
  BY InvInit
<1>2. /\ ExchangeTypeOK /\ ParserInv /\ ExchangeInv
      /\ [ExchangeNext]_exchangeVars
      => (ExchangeTypeOK /\ ParserInv /\ ExchangeInv)'
  <2> SUFFICES ASSUME ExchangeTypeOK, ParserInv, ExchangeInv, [ExchangeNext]_exchangeVars
               PROVE  ExchangeTypeOK' /\ ParserInv' /\ ExchangeInv'
    OBVIOUS
  <2>1. ParserInv'
    BY ExchangeRunsParser, ParserInvStep
  <2>2. ExchangeTypeOK'
    BY <2>1, ExchangeTypeStep DEF ParserInv
  <2> QED BY <2>1, <2>2, InvStep
<1> QED BY <1>1, <1>2, PTL DEF ExchangeSpec

\* Type correctness of the exchange.
THEOREM ExchangeTypeCorrect == ExchangeSpec => []ExchangeTypeOK
BY ExchangeInvariance, PTL

\* For each request sent, in order, the server's callback gets an HttpRequest with
\* its method, the length of its body as Content-Length, and its keep-alive flag.
THEOREM HandedAsSentCorrect == ExchangeSpec => []HandedAsSent
<1>1. ExchangeInv => HandedAsSent
  BY DEF ExchangeInv, Undropped, InStep, HandedSoFar, HandedAsSent
<1> QED BY <1>1, ExchangeInvariance, PTL

-----------------------------------------------------------------------------
(* UriDecode, for URIs and paths of any length.                            *)

\* What the loop makes of a URI from the i-th byte on, given what it makes of
\* the rest.
Loop(uri, from, i) ==
    IF i > Len(uri) THEN <<>>
    ELSE IF uri[i] = Plus THEN Decoded(Blank, from[i + 1])
    ELSE IF uri[i] # Percent THEN Decoded(uri[i], from[i + 1])
    ELSE IF ~HasEscape(uri, i) THEN Nullopt
    ELSE IF ReadHex(uri[i + 1], uri[i + 2]) = NoNumber THEN Nullopt
    ELSE Decoded(ReadHex(uri[i + 1], uri[i + 2]) % 256, from[i + 3])

LEMMA DecodeRecursion ==
  ASSUME NEW uri \in Seq(Int)
  PROVE  \E from : /\ \A i \in 1..(Len(uri) + 1) : from[i] = Loop(uri, from, i)
                   /\ UriDecode(uri) = from[1]
<1> DEFINE m == Len(uri) + 1
<1> DEFINE Def(f) == f = [i \in 1..m |-> Loop(uri, f, i)]
<1> DEFINE from == CHOOSE f : Def(f)
<1> DEFINE Upto(d, f) == \A i \in (m - d)..m : f[i] = Loop(uri, f, i)
<1> DEFINE D == {d \in Nat : d < m => \E f : Upto(d, f)}
<1>1. m \in Nat \ {0} /\ Len(uri) = m - 1
  OBVIOUS
<1>2. ASSUME NEW f, NEW g, NEW k \in 1..m, \A i \in (k + 1)..m : f[i] = g[i]
      PROVE  \A i \in k..m : Loop(uri, f, i) = Loop(uri, g, i)
  <2> TAKE i \in k..m
  <2>1. i <= Len(uri) => i + 1 \in (k + 1)..m
    BY <1>1
  <2>2. HasEscape(uri, i) => i + 3 \in (k + 1)..m
    BY <1>1 DEF HasEscape
  <2>3. i <= Len(uri) => f[i + 1] = g[i + 1]
    BY <2>1, <1>2
  <2>4. HasEscape(uri, i) => f[i + 3] = g[i + 3]
    BY <2>2, <1>2
  <2>5. i > Len(uri) \/ i <= Len(uri)
    BY <1>1
  <2> HIDE DEF m
  <2>6. CASE i > Len(uri)
    BY <2>6 DEF Loop
  <2>7. CASE i <= Len(uri) /\ ~HasEscape(uri, i)
    BY <2>3, <2>7 DEF Loop
  <2>8. CASE i <= Len(uri) /\ HasEscape(uri, i)
    BY <2>3, <2>4, <2>8 DEF Loop
  <2> QED BY <2>5, <2>6, <2>7, <2>8
<1>3. 0 \in D
  <2> DEFINE f == [i \in {m} |-> <<>>]
  <2>1. \A i \in (m - 0)..m : i = m
    BY <1>1
  <2>2. f[m] = <<>> /\ Loop(uri, f, m) = <<>>
    BY <1>1 DEF Loop
  <2>3. Upto(0, f)
    <3> HIDE DEF f, m
    <3> QED BY <2>1, <2>2
  <2> QED BY <2>3
<1>4. ASSUME NEW d \in Nat, d \in D PROVE d + 1 \in D
  <2> SUFFICES ASSUME d + 1 < m PROVE \E g : Upto(d + 1, g)
    OBVIOUS
  <2>1. PICK f : Upto(d, f)
    <3>1. d < m
      BY <1>1
    <3> QED BY <3>1, <1>4
  <2>2. PICK k \in 1..m : k = m - (d + 1)
    <3> HIDE DEF m
    <3>1. m - (d + 1) \in 1..m
      BY <1>1
    <3> QED BY <3>1
  <2>3. m - d = k + 1 /\ k < m
    BY <1>1, <2>2
  <2> DEFINE g == [i \in k..m |-> IF i = k THEN Loop(uri, f, k) ELSE f[i]]
  <2>4. \A i \in (k + 1)..m : f[i] = g[i]
    BY <1>1
  <2>5. \A i \in k..m : Loop(uri, f, i) = Loop(uri, g, i)
    <3> HIDE DEF g, m
    <3> QED BY <2>4, <1>2
  <2>6. \A i \in (k + 1)..m : f[i] = Loop(uri, f, i)
    <3> HIDE DEF m
    <3> QED BY <2>1, <2>3
  <2>7. g[k] = Loop(uri, f, k)
    BY <1>1
  <2> HIDE DEF g
  <2>8. ASSUME NEW i \in k..m PROVE g[i] = Loop(uri, g, i)
    <3>1. i = k \/ i \in (k + 1)..m
      BY <1>1
    <3> HIDE DEF m
    <3> QED BY <3>1, <2>4, <2>5, <2>6, <2>7
  <2> HIDE DEF m
  <2> QED BY <2>2, <2>8
<1>5. \E f : Def(f)
  <2>1. m - 1 \in D
    <3> HIDE DEF D
    <3>1. m - 1 \in Nat
      BY <1>1
    <3> QED BY <3>1, <1>3, <1>4, NatSet
  <2>2. PICK f : \A i \in 1..m : f[i] = Loop(uri, f, i)
    <3>1. m - 1 < m /\ m - (m - 1) = 1
      BY <1>1
    <3> HIDE DEF m
    <3> QED BY <3>1, <2>1
  <2> DEFINE g == [i \in 1..m |-> f[i]]
  <2>3. \A i \in (1 + 1)..m : f[i] = g[i]
    BY <1>1
  <2>4. \A i \in 1..m : Loop(uri, f, i) = Loop(uri, g, i)
    <3>1. 1 \in 1..m
      BY <1>1
    <3> HIDE DEF g, m
    <3> QED BY <3>1, <2>3, <1>2
  <2>5. Def(g)
    <3> HIDE DEF m
    <3> QED BY <2>2, <2>4
  <2> QED BY <2>5
<1>6. Def(from)
  <2> HIDE DEF Def
  <2> QED BY <1>5
<1>7. UriDecode(uri) = from[1]
  BY DEF UriDecode, Loop
<1> HIDE DEF from
<1>8. \A i \in 1..m : from[i] = Loop(uri, from, i)
  BY <1>6
<1> QED BY <1>7, <1>8

\* A byte and how it may be written: three characters of an escape, or one.
IsEscape(c, b) ==
    /\ Len(c) = 3 /\ c[1] = Percent
    /\ ReadHex(c[2], c[3]) = b

IsCharacter(c, b) ==
    /\ Len(c) = 1 /\ c[1] # Percent
    /\ (IF c[1] = Plus THEN Blank ELSE c[1]) = b

LEMMA EncodingForms ==
  ASSUME NEW b \in Bytes, NEW c \in Encodings(b)
  PROVE  /\ c \in Seq(Int)
         /\ IsEscape(c, b) \/ IsCharacter(c, b)
<1>1. CASE c \in Escapes(b)
  <2>1. PICK h \in HexCode(b \div 16), l \in HexCode(b % 16) : c = <<Percent, h, l>>
    BY <1>1 DEF Escapes
  <2>2. PICK q \in 0..15, r \in 0..15 : q = b \div 16 /\ r = b % 16 /\ 16 * q + r = b
    <3>1. b \in Nat /\ b <= 255
      BY DEF Bytes
    <3>2. b \div 16 \in 0..15
      BY ONLY <3>1
    <3>3. b % 16 \in 0..15
      BY ONLY <3>1
    <3>4. b % 16 = b - 16 * (b \div 16)
      BY <3>1, Z3
    <3>5. PICK q \in 0..15, r \in 0..15 : q = b \div 16 /\ r = b % 16
      BY <3>2, <3>3
    <3>6. 16 * q + r = b
      BY <3>1, <3>4, <3>5
    <3> QED BY <3>5, <3>6
  <2>3. \A d \in 0..15 : \A x \in HexCode(d) : x \in Int /\ HexDigit(x) = d
    BY DEF HexCode, HexDigit
  <2>4. HexDigit(h) = q /\ HexDigit(l) = r /\ h \in Int /\ l \in Int
    BY <2>2, <2>3
  <2>5. IsHex(h) /\ IsHex(l)
    <3>1. q < 16 /\ r < 16
      OBVIOUS
    <3> QED BY <3>1, <2>4 DEF IsHex
  <2>6. ReadHex(h, l) = b
    <3>1. ReadHex(h, l) = 16 * HexDigit(h) + HexDigit(l)
      BY <2>5, Zenon DEF ReadHex
    <3> QED BY <3>1, <2>2, <2>4
  <2>7. c[1] = Percent /\ c[2] = h /\ c[3] = l /\ Len(c) = 3 /\ c \in Seq(Int)
    BY <2>1, <2>4 DEF Percent
  <2> QED BY <2>6, <2>7 DEF IsEscape
<1>2. CASE c \notin Escapes(b)
  <2>1. \/ b = Blank /\ c = <<Plus>>
        \/ b \notin {Percent, Plus} /\ c = <<b>>
    BY <1>2 DEF Encodings
  <2>2. c \in Seq(Int) /\ Len(c) = 1 /\ c[1] \in {Plus, b}
    <3>1. PICK x \in Int : x \in {Plus, b} /\ c = <<x>>
      BY <2>1 DEF Bytes, Plus
    <3> QED BY <3>1
  <2>3. c[1] # Percent /\ (IF c[1] = Plus THEN Blank ELSE c[1]) = b
    BY <2>1 DEF Blank, Plus, Percent
  <2> QED BY <2>2, <2>3 DEF IsCharacter
<1> QED BY <1>1, <1>2

\* A byte is written as c between k and e, and after that comes what makes rest.
WrittenAt(uri, from, k, e, c, rest) ==
    /\ IsAtPlace(uri, k, c)
    /\ e = k + Len(c) /\ e <= Len(uri)
    /\ rest # Nullopt /\ from[e + 1] = rest

LEMMA LoopAtByte ==
  ASSUME NEW uri \in Seq(Int), NEW from, NEW k \in Nat, NEW e \in Nat, NEW b \in Bytes,
         NEW c \in Encodings(b), NEW rest, WrittenAt(uri, from, k, e, c, rest)
  PROVE  Loop(uri, from, k + 1) = Cat(<<b>>, rest)
<1>0. /\ IsAtPlace(uri, k, c)
      /\ e = k + Len(c) /\ e <= Len(uri)
      /\ rest # Nullopt /\ from[e + 1] = rest
  BY DEF WrittenAt
<1>1. c \in Seq(Int) /\ (IsEscape(c, b) \/ IsCharacter(c, b))
  BY EncodingForms
<1>2. PICK m \in Nat : m = Len(uri)
  OBVIOUS
<1>3. CASE IsEscape(c, b)
  <2>1. Len(c) = 3 /\ c[1] = Percent /\ ReadHex(c[2], c[3]) = b
    BY <1>3 DEF IsEscape
  <2>2. uri[k + 1] = c[1] /\ uri[k + 2] = c[2] /\ uri[k + 3] = c[3]
    BY <1>0, <2>1 DEF IsAtPlace
  <2>3. uri[(k + 1) + 1] = c[2] /\ uri[(k + 1) + 2] = c[3] /\ from[(k + 1) + 3] = rest
    <3>1. (k + 1) + 1 = k + 2 /\ (k + 1) + 2 = k + 3 /\ (k + 3) + 1 = (k + 1) + 3
      OBVIOUS
    <3> QED BY <3>1, <1>0, <2>1, <2>2
  <2>4. k + 1 <= m /\ HasEscape(uri, k + 1)
    BY <1>0, <1>2, <2>1 DEF HasEscape
  <2>5. b # NoNumber /\ b % 256 = b /\ Percent # Plus
    BY DEF NoNumber, Bytes, Percent, Plus
  <2>6. ~(k + 1 > Len(uri))
    BY <1>2, <2>4
  <2>7. Loop(uri, from, k + 1) = Decoded(b, rest)
    BY <2>1, <2>2, <2>3, <2>4, <2>5, <2>6 DEF Loop
  <2> QED BY <1>0, <2>7 DEF Decoded, Cat
<1>4. CASE IsCharacter(c, b)
  <2>1. Len(c) = 1 /\ c[1] # Percent /\ (IF c[1] = Plus THEN Blank ELSE c[1]) = b
    BY <1>4 DEF IsCharacter
  <2>2. uri[k + 1] = c[1] /\ from[(k + 1) + 1] = rest
    BY <1>0, <2>1 DEF IsAtPlace
  <2>3. ~(k + 1 > Len(uri))
    BY <1>0, <1>2, <2>1
  <2>4. Loop(uri, from, k + 1) = Decoded(b, rest)
    BY <2>1, <2>2, <2>3 DEF Loop
  <2> QED BY <1>0, <2>4 DEF Decoded, Cat
<1> QED BY <1>1, <1>3, <1>4

\* The bytes of a path after the first j.
Rest(bytes, j) == SubSeq(bytes, j + 1, Len(bytes))

LEMMA NotNullopt == \A x \in Seq(Bytes) : x # Nullopt
<1> SUFFICES ASSUME NEW x \in Seq(Bytes), x = Nullopt PROVE FALSE
  OBVIOUS
<1>1. Len(x) = 1 /\ x[1] = -1
  BY DEF Nullopt
<1>2. x[1] \in Bytes
  BY <1>1
<1> QED BY <1>1, <1>2 DEF Bytes

LEMMA RestGrows ==
  ASSUME NEW bytes \in Seq(Bytes), NEW j \in 0..Len(bytes)
  PROVE  /\ Rest(bytes, j) \in Seq(Bytes)
         /\ Rest(bytes, j) # Nullopt
         /\ j < Len(bytes) => Rest(bytes, j) = <<bytes[j + 1]>> \o Rest(bytes, j + 1)
         /\ Rest(bytes, Len(bytes)) = <<>>
         /\ Rest(bytes, 0) = bytes
<1>1. Rest(bytes, j) \in Seq(Bytes)
  BY DEF Rest
<1>n. \A x \in Seq(Bytes) : x # Nullopt
  BY NotNullopt
<1>2. j < Len(bytes) => Rest(bytes, j) = <<bytes[j + 1]>> \o Rest(bytes, j + 1)
  BY DEF Rest
<1>3. Rest(bytes, Len(bytes)) = <<>> /\ Rest(bytes, 0) = bytes
  BY DEF Rest
<1> QED BY <1>1, <1>n, <1>2, <1>3

\* Wherever the URI of a path is, the loop makes the path of it.
LEMMA LoopOverURI ==
  ASSUME NEW bytes \in Seq(Bytes), NEW codes \in Seq(Seq(Int)), Len(codes) = Len(bytes),
         \A i \in 1..Len(bytes) : codes[i] \in Encodings(bytes[i]),
         NEW uri \in Seq(Int), NEW k \in Nat, IsAtPlace(uri, k, FlattenSeq(codes)),
         Len(uri) = k + Len(FlattenSeq(codes)),
         NEW from, \A i \in 1..(Len(uri) + 1) : from[i] = Loop(uri, from, i)
  PROVE  from[k + 1] = bytes
<1> DEFINE n == Len(bytes)
<1>1. PICK part \in [0..Len(codes) -> Seq(Int)] :
         /\ part[0] = <<>>
         /\ \A i \in 1..Len(codes) : part[i] = Cat(part[i - 1], codes[i])
         /\ FlattenSeq(codes) = part[Len(codes)]
  BY FlattenParts
<1>2. n \in Nat /\ part \in [0..n -> Seq(Int)] /\ codes \in [1..n -> Seq(Int)]
      /\ Len(uri) = k + Len(part[n]) /\ IsAtPlace(uri, k, part[n])
      /\ \A i \in 1..n : part[i] = Cat(part[i - 1], codes[i]) /\ codes[i] \in Encodings(bytes[i])
  BY <1>1
<1> HIDE DEF n
<1>3. \A i \in 1..n : /\ IsAtPlace(uri, k + Len(part[i - 1]), codes[i])
                      /\ Len(part[i]) = Len(part[i - 1]) + Len(codes[i])
  <2>1. /\ \A i \in 1..n : part[i] = Cat(part[i - 1], codes[i])
        /\ n \in Nat /\ codes \in [1..n -> Seq(Int)] /\ part \in [0..n -> Seq(Int)]
        /\ IsAtPlace(uri, k, part[n])
    BY <1>2
  <2>2. ASSUME NEW i \in 1..n PROVE IsAtPlace(uri, k + Len(part[i - 1]), codes[i])
    BY <2>1, FlattenPlaces
  <2>3. ASSUME NEW i \in 1..n PROVE Len(part[i]) = Len(part[i - 1]) + Len(codes[i])
    <3>1. PICK x \in Seq(Int), y \in Seq(Int) : x = part[i - 1] /\ y = codes[i]
      BY <2>1, SMTT(30)
    <3>2. Len(Cat(x, y)) = Len(x) + Len(y)
      BY CatParts
    <3> QED BY <2>1, <3>1, <3>2
  <2> QED BY <2>2, <2>3
<1> DEFINE D == {d \in Nat : d <= n => /\ k + Len(part[n - d]) <= Len(uri)
                                      /\ from[(k + Len(part[n - d])) + 1] = Rest(bytes, n - d)}
<1>z. 0 \in 0..Len(bytes)
  OBVIOUS
<1>4. 0 \in D
  <2>1. PICK m \in Nat : m = Len(uri)
    OBVIOUS
  <2>2. n - 0 = n /\ k + Len(part[n]) = m
    BY <1>2, <2>1
  <2>3. from[m + 1] = Loop(uri, from, m + 1)
    BY <2>1
  <2>4. Loop(uri, from, m + 1) = <<>>
    BY <2>1 DEF Loop
  <2>5. Rest(bytes, n) = <<>>
    BY <1>z, RestGrows DEF n
  <2>6. k + Len(part[n - 0]) = m /\ m <= Len(uri)
    BY <2>1, <2>2
  <2>7. from[(k + Len(part[n - 0])) + 1] = Rest(bytes, n - 0)
    BY <2>2, <2>3, <2>4, <2>5, <2>6
  <2> QED BY <2>6, <2>7
<1>5. ASSUME NEW d \in Nat, d \in D PROVE d + 1 \in D
  <2> SUFFICES ASSUME d + 1 <= n
               PROVE  /\ k + Len(part[n - (d + 1)]) <= Len(uri)
                      /\ from[(k + Len(part[n - (d + 1)])) + 1] = Rest(bytes, n - (d + 1))
    OBVIOUS
  <2>1. PICK j \in Nat : j = n - (d + 1) /\ n - d = j + 1 /\ j < n /\ j + 1 \in 1..n /\ (j + 1) - 1 = j
    BY <1>2
  <2>2. k + Len(part[j + 1]) <= Len(uri) /\ from[(k + Len(part[j + 1])) + 1] = Rest(bytes, j + 1)
    <3>1. d <= n
      BY <1>2
    <3> QED BY <3>1, <1>5, <2>1
  <2> HIDE DEF D
  <2>a. PICK b \in Bytes : b = bytes[j + 1]
    <3>1. bytes[j + 1] \in Bytes
      BY <2>1 DEF n
    <3> QED BY <3>1
  <2>3. PICK c \in Encodings(b) : b = bytes[j + 1] /\ c = codes[j + 1]
    BY <1>2, <2>1, <2>a
  <2>4. PICK p \in Nat : p = k + Len(part[j])
    <3>1. part[j] \in Seq(Int)
      BY <1>2, <2>1
    <3> QED BY <3>1
  <2>5. IsAtPlace(uri, p, c)
    BY <1>3, <2>1, <2>3, <2>4
  <2>6. c \in Seq(Int)
    BY EncodingForms
  <2>7. k + Len(part[j + 1]) = p + Len(c)
    <3>1. PICK x \in Nat, y \in Nat : x = Len(part[j]) /\ y = Len(c)
      <4>1. part[j] \in Seq(Int)
        BY <1>2, <2>1
      <4> QED BY <4>1, <2>6
    <3>2. Len(part[j + 1]) = x + y
      BY <1>3, <2>1, <2>3, <3>1
    <3> QED BY <3>1, <3>2, <2>4
  <2>8. p <= Len(uri) /\ p + 1 \in 1..(Len(uri) + 1)
    <3>1. PICK x \in Nat, m \in Nat : x = Len(c) /\ m = Len(uri)
      BY <2>6
    <3>2. p + x <= m
      BY <2>2, <2>7, <3>1
    <3> QED BY <3>1, <3>2
  <2>9. Rest(bytes, j + 1) # Nullopt /\ Rest(bytes, j) = <<b>> \o Rest(bytes, j + 1)
    <3>1. j \in 0..Len(bytes) /\ j + 1 \in 0..Len(bytes) /\ j < Len(bytes)
      BY <1>2, <2>1 DEF n
    <3> QED BY <3>1, <2>3, RestGrows
  <2>10. Loop(uri, from, p + 1) = <<b>> \o Rest(bytes, j + 1)
    <3>1. PICK e \in Nat : e = p + Len(c) /\ e <= Len(uri) /\ from[e + 1] = Rest(bytes, j + 1)
      <4>1. PICK x \in Nat, y \in Nat : x = Len(c) /\ y = Len(part[j + 1])
        <5>1. part[j + 1] \in Seq(Int)
          <6>1. j + 1 \in 0..n /\ part \in [0..n -> Seq(Int)]
            BY <1>2, <2>1
          <6> QED BY <6>1
        <5> QED BY <5>1, <2>6
      <4>2. k + y = p + x
        BY <4>1, <2>7
      <4>3. PICK e \in Nat : e = k + y
        OBVIOUS
      <4>4. e <= Len(uri) /\ from[e + 1] = Rest(bytes, j + 1)
        BY <4>1, <4>3, <2>2
      <4>5. e = p + Len(c)
        BY <4>1, <4>2, <4>3
      <4> QED BY <4>4, <4>5
    <3>2. PICK rest : rest = Rest(bytes, j + 1)
      OBVIOUS
    <3>3. WrittenAt(uri, from, p, e, c, rest)
      BY <3>1, <3>2, <2>5, <2>9 DEF WrittenAt
    <3>4. Loop(uri, from, p + 1) = Cat(<<b>>, rest)
      BY <3>3, LoopAtByte
    <3> QED BY <3>2, <3>4 DEF Cat
  <2>11. from[p + 1] = Rest(bytes, j)
    BY <2>8, <2>9, <2>10
  <2> QED BY <2>1, <2>4, <2>8, <2>11 DEF D
<1>6. n \in D
  <2> HIDE DEF D
  <2> QED BY <1>2, <1>4, <1>5, NatSet
<1>7. from[(k + Len(part[0])) + 1] = Rest(bytes, 0)
  <2>1. n - n = 0 /\ n <= n
    BY <1>2
  <2> QED BY <2>1, <1>6
<1>8. k + Len(part[0]) = k
  BY <1>1
<1> QED BY <1>7, <1>8, <1>z, RestGrows

LEMMA DecodedURI ==
  ASSUME NEW bytes \in Seq(Bytes), NEW uri \in URIs(bytes)
  PROVE  RequestPath(SetURI(uri)) = IF uri # <<>> /\ uri[1] = Slash THEN Tail(bytes) ELSE bytes
<1> DEFINE n == Len(bytes)
<1>1. PICK codes : /\ codes \in [1..n -> UNION {Encodings(b) : b \in ToSet(bytes)}]
                   /\ \A i \in 1..n : codes[i] \in Encodings(bytes[i])
                   /\ uri = FlattenSeq(codes)
  BY DEF URIs
<1>2. n \in Nat /\ \A i \in 1..n : bytes[i] \in Bytes
  OBVIOUS
<1>3. \A i \in 1..n : codes[i] \in Seq(Int)
  BY <1>1, <1>2, EncodingForms
<1>4. codes \in Seq(Seq(Int)) /\ Len(codes) = n
  <2>1. codes = [i \in 1..n |-> codes[i]]
    BY <1>1
  <2>2. codes \in [1..n -> Seq(Int)]
    BY <1>3, <2>1
  <2> QED BY <1>2, <2>2
<1>5. PICK part \in [0..Len(codes) -> Seq(Int)] :
         /\ part[0] = <<>>
         /\ \A i \in 1..Len(codes) : part[i] = Cat(part[i - 1], codes[i])
         /\ FlattenSeq(codes) = part[Len(codes)]
  BY <1>4, FlattenParts
<1>6. uri \in Seq(Int)
  BY <1>1, <1>2, <1>4, <1>5
<1> HIDE DEF n
<1>7. CASE uri # <<>> /\ uri[1] = Slash
  <2>1. SetURI(uri) = uri
    BY <1>7 DEF SetURI
  <2>2. PICK from : /\ \A i \in 1..(Len(uri) + 1) : from[i] = Loop(uri, from, i)
                    /\ UriDecode(uri) = from[1]
    BY <1>6, DecodeRecursion
  <2>3. IsAtPlace(uri, 0, FlattenSeq(codes)) /\ Len(uri) = 0 + Len(FlattenSeq(codes))
    BY <1>1, <1>6 DEF IsAtPlace
  <2>4. from[0 + 1] = bytes
    BY <1>1, <1>4, <1>6, <2>2, <2>3, LoopOverURI, SMTT(30) DEF n
  <2>5. UriDecode(uri) = bytes
    BY <2>2, <2>4
  <2>6. n # 0
    BY <1>1, <1>4, <1>5, <1>7
  <2>7. IsAtPlace(uri, 0 + Len(part[1 - 1]), codes[1])
    <3>1. n \in Nat /\ codes \in [1..n -> Seq(Int)] /\ part \in [0..n -> Seq(Int)] /\ 1 \in 1..n
          /\ \A i \in 1..n : part[i] = Cat(part[i - 1], codes[i])
      BY <1>2, <1>4, <1>5, <2>6, SMTT(30)
    <3>2. IsAtPlace(uri, 0, part[n])
      BY <1>4, <1>5, <2>3
    <3> QED BY <3>1, <3>2, FlattenPlaces
  <2>8. IsAtPlace(uri, 0, codes[1]) /\ 1 \in 1..n
    <3>1. 0 + Len(part[1 - 1]) = 0
      BY <1>5
    <3> QED BY <3>1, <2>7, <2>6, <1>2
  <2>9. bytes[1] = Slash
    <3>1. bytes[1] \in Bytes /\ codes[1] \in Encodings(bytes[1])
      BY <1>1, <1>2, <2>8
    <3>2. IsEscape(codes[1], bytes[1]) \/ IsCharacter(codes[1], bytes[1])
      BY <3>1, EncodingForms
    <3>3. 1 \in 1..Len(codes[1])
      BY <3>2 DEF IsEscape, IsCharacter
    <3>4. codes[1][1] = Slash
      BY <3>3, <2>8, <1>7 DEF IsAtPlace
    <3> QED BY <3>2, <3>4 DEF IsEscape, IsCharacter, Slash, Percent, Plus
  <2>10. bytes # <<>>
    BY <2>6 DEF n
  <2> QED BY <1>7, <2>1, <2>5, <2>9, <2>10 DEF RequestPath
<1>8. CASE ~(uri # <<>> /\ uri[1] = Slash)
  <2> DEFINE whole == <<Slash>> \o uri
  <2>1. SetURI(uri) = whole
    BY <1>8 DEF SetURI
  <2>2. whole \in Seq(Int) /\ Len(whole) = 1 + Len(uri) /\ whole[1] = Slash
        /\ \A i \in 1..Len(uri) : whole[1 + i] = uri[i]
    BY <1>6 DEF Slash
  <2> HIDE DEF whole
  <2>3. PICK from : /\ \A i \in 1..(Len(whole) + 1) : from[i] = Loop(whole, from, i)
                    /\ UriDecode(whole) = from[1]
    BY <2>2, DecodeRecursion
  <2>4. IsAtPlace(whole, 1, FlattenSeq(codes)) /\ Len(whole) = 1 + Len(FlattenSeq(codes))
    BY <1>1, <2>2 DEF IsAtPlace
  <2>5. from[1 + 1] = bytes
    BY <1>1, <1>4, <2>2, <2>3, <2>4, LoopOverURI, SMTT(30) DEF n
  <2>6. Loop(whole, from, 1) = Decoded(Slash, bytes)
    <3>1. ~(1 > Len(whole)) /\ whole[1] # Plus /\ whole[1] # Percent
      BY <1>6, <2>2 DEF Slash, Plus, Percent
    <3> QED BY <3>1, <2>2, <2>5 DEF Loop
  <2>7. bytes # Nullopt
    BY NotNullopt
  <2>8. from[1] = <<Slash>> \o bytes
    <3>1. 1 \in 1..(Len(whole) + 1)
      BY <2>2
    <3> QED BY <3>1, <2>3, <2>6, <2>7 DEF Decoded
  <2>9. LET p == <<Slash>> \o bytes IN p # <<>> /\ p[1] = Slash /\ Tail(p) = bytes
    BY DEF Slash, Bytes
  <2> QED BY <1>8, <2>1, <2>3, <2>8, <2>9 DEF RequestPath
<1> QED BY <1>7, <1>8

\* Paths grow by one byte at a time.
PathGrows == path \in Seq(Bytes)

\* Every URI of every path leads HandleRequest to that path: for paths of any
\* length and all bytes, whichever of them are escaped.
THEOREM UriNamesPathCorrect == MCSpec => []UriNamesPath
<1>1. MCInit => PathGrows
  BY DEF MCInit, PathGrows
<1>2. PathGrows /\ [MCNext]_<<exchangeVars, path>> => PathGrows'
  <2> SUFFICES ASSUME PathGrows, [MCNext]_<<exchangeVars, path>> PROVE path' \in Seq(Bytes)
    BY DEF PathGrows
  <2>1. path \in Seq(Bytes)
    BY DEF PathGrows
  <2>2. path' = path \/ \E b \in SomeBytes : path' = Append(path, b)
    BY DEF MCNext
  <2> QED BY <2>1, <2>2, PathAssumption
<1>3. PathGrows => UriNamesPath
  BY DecodedURI DEF PathGrows, UriNamesPath
<1> QED BY <1>1, <1>2, <1>3, PTL DEF MCSpec
=============================================================================
