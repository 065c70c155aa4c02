--------------------------- MODULE HttpServerProofs ---------------------------
(***************************************************************************)
(* Proofs about HttpServer, for every text the peer may send, cut into     *)
(* reads anywhere.                                                         *)
(***************************************************************************)
EXTENDS HttpServer, SequenceTheorems, WellFoundedInduction, TLAPS

Text == Seq(STRING)

-----------------------------------------------------------------------------
\* The inductive invariant.

Types ==
    /\ unsent \in Text /\ arriving \in Text /\ received \in Text
    /\ buf \in Text /\ reads \in Nat /\ ok \in BOOLEAN /\ wrShut \in BOOLEAN
    /\ pc \in {"poll", "parse", "respond"}
    /\ state_ \in {"ExpectRequestLine", "ExpectHeaders", "GotAll"}

\* How much of the text has been parsed: whole lines, and what remains is
\* the buffer.
Parsed == Len(received) - Len(buf)
BufferOK ==
    /\ Len(buf) <= Len(received)
    /\ buf = SubSeq(received, Parsed + 1, Len(received))
    /\ Parsed + 1 \in Starts(received)

\* The lines behind the first one that have been parsed.
Done(t, n) == {p \in FullLines(t) \ {1} : p <= n}

\* What HttpContext has made of the text that was received.
ParsedOK ==
    /\ state_ = "ExpectRequestLine" => Parsed = 0 /\ headers = <<>>
    /\ state_ # "ExpectRequestLine" =>
          /\ GoodStart(received) /\ Parsed # 0
          /\ request_ = ProcessRequestLine(LineAt(received, 1))
    /\ state_ = "ExpectHeaders" =>
          /\ \A p \in Done(received, Parsed) : p \notin HeadEnds(received)
          /\ LastValues(headers, received, Done(received, Parsed))
    /\ state_ = "GotAll" =>
          /\ HeadEnds(received) # {}
          /\ LastValues(headers, received, HeaderLines(received))

\* The answer agrees with the state of the parser.
BadStart == 1 \in FullLines(received) /\ ~GoodStart(received)
Answers ==
    /\ responses \in {<<>>, <<"200">>, <<"400">>}
    /\ wrShut <=> responses # <<>>
    /\ responses = <<"200">> => state_ = "GotAll" /\ pc # "respond"
    /\ state_ = "GotAll" /\ pc # "respond" => responses = <<"200">>
    /\ responses = <<"400">> => BadStart
    /\ pc = "respond" /\ ~ok => BadStart
    /\ pc = "parse" => ok
    /\ killed => responses = <<"400">> /\ reads > 1

\* Who has been answered has been read before.
ReadsOK ==
    /\ pc # "poll" \/ responses # <<>> => reads > 0
    /\ pc # "poll" /\ responses # <<>> => reads > 1

Inv == Types /\ BufferOK /\ ParsedOK /\ Answers /\ ReadsOK

-----------------------------------------------------------------------------
\* Texts and their lines.

LEMMA LeastNatural ==
    ASSUME NEW S \in SUBSET Nat, S # {}
    PROVE  \E n \in S : \A m \in S : n <= m
<1>1. PICK n \in S : \A m \in S : ~(<<m, n>> \in OpToRel(<, Nat))
  BY NatLessThanWellFounded, WFMin
<1>2. \A m \in S : ~(m < n)
  BY <1>1 DEF OpToRel
<1> QED BY <1>2

LEMMA EndsFacts ==
    ASSUME NEW t \in Text
    PROVE  /\ Len(t) \in Nat
           /\ \A i : i \in Ends(t) <=>
                 /\ i \in Nat /\ 1 <= i /\ i < Len(t)
                 /\ t[i] = CR /\ t[i + 1] = LF
           /\ \A i \in Ends(t) : i \in Nat /\ i + 1 \notin Ends(t)
BY LenProperties DEF Text, Ends, CR, LF

\* Lines begin behind CRLFs.
LEMMA StartsFacts ==
    ASSUME NEW t \in Text
    PROVE  /\ \A p \in Starts(t) : p \in Nat /\ 1 <= p /\ p <= Len(t) + 1
           /\ \A i \in Ends(t) : i + 2 \in Starts(t)
           /\ \A p \in Starts(t) : p = 1 \/ (p - 2 \in Ends(t) /\ p >= 3)
BY EndsFacts DEF Starts

LEMMA FindFacts ==
    ASSUME NEW t \in Text
    PROVE  /\ findCRLF(t) = 0 <=> Ends(t) = {}
           /\ Ends(t) # {} => /\ findCRLF(t) \in Ends(t)
                              /\ \A j \in Ends(t) : findCRLF(t) <= j
<1> DEFINE Least(i) == i \in Ends(t) /\ \A j \in Ends(t) : i <= j
<1>1. findCRLF(t) = IF Ends(t) = {} THEN 0
                    ELSE CHOOSE i \in Ends(t) : \A j \in Ends(t) : i <= j
  BY DEF findCRLF, Ends
<1>2. Ends(t) # {} => \E i \in Ends(t) : \A j \in Ends(t) : i <= j
  BY EndsFacts, LeastNatural
<1>3. Ends(t) # {} => /\ findCRLF(t) \in Ends(t)
                      /\ \A j \in Ends(t) : findCRLF(t) <= j
  BY <1>1, <1>2
<1>4. 0 \notin Ends(t)
  BY EndsFacts
<1> QED BY <1>1, <1>3, <1>4

\* The line that begins at p ends at the first CRLF from there.
LEMMA LineAtFacts ==
    ASSUME NEW t \in Text, NEW p, NEW e \in Ends(t), p <= e,
           \A j \in Ends(t) : p <= j => e <= j
    PROVE  LineAt(t, p) = SubSeq(t, p, e - 1)
<1> DEFINE end == CHOOSE i \in Ends(t) :
                     p <= i /\ \A j \in Ends(t) : p <= j => i <= j
<1>1. /\ end \in Ends(t) /\ p <= end
      /\ \A j \in Ends(t) : p <= j => end <= j
  OBVIOUS
<1>2. LineAt(t, p) = SubSeq(t, p, end - 1)
  BY DEF LineAt
<1> HIDE DEF end
<1>3. end = e
  BY <1>1, EndsFacts
<1> QED BY <1>2, <1>3

\* The CRLFs of b are those of t behind position k.
Shifted(b, t, k) ==
    \A i : i \in Ends(b) <=> i \in Nat \ {0} /\ k + i \in Ends(t)

\* What is left of a text from position k + 1.
LEMMA RestFacts ==
    ASSUME NEW t \in Text, NEW k \in 0 .. Len(t), NEW b,
           b = SubSeq(t, k + 1, Len(t))
    PROVE  b \in Text /\ Len(b) = Len(t) - k /\ Shifted(b, t, k)
<1>1. Len(t) \in Nat /\ k \in Nat /\ k <= Len(t)
  BY EndsFacts
<1>2. /\ b \in Text /\ Len(b) = Len(t) - k
      /\ \A i \in 1 .. Len(t) - k : b[i] = t[k + i]
  BY <1>1, SubSeqProperties DEF Text
<1>3. ASSUME NEW i, i \in Ends(b) PROVE i \in Nat \ {0} /\ k + i \in Ends(t)
  <2>1. i \in Nat /\ 1 <= i /\ i < Len(b) /\ b[i] = CR /\ b[i + 1] = LF
    BY <1>2, <1>3, EndsFacts
  <2>2. /\ b[i] = t[k + i] /\ b[i + 1] = t[k + (i + 1)]
        /\ k + (i + 1) = (k + i) + 1 /\ k + i \in Nat /\ 1 <= k + i
        /\ k + i < Len(t)
    BY <1>1, <1>2, <2>1
  <2> QED BY <2>1, <2>2, EndsFacts
<1>4. ASSUME NEW i \in Nat \ {0}, k + i \in Ends(t) PROVE i \in Ends(b)
  <2>1. k + i < Len(t) /\ t[k + i] = CR /\ t[(k + i) + 1] = LF
    BY <1>4, EndsFacts
  <2>2. /\ b[i] = t[k + i] /\ b[i + 1] = t[k + (i + 1)]
        /\ k + (i + 1) = (k + i) + 1 /\ i \in Nat /\ 1 <= i /\ i < Len(b)
    BY <1>1, <1>2, <2>1
  <2> QED BY <1>2, <2>1, <2>2, EndsFacts
<1> QED BY <1>2, <1>3, <1>4 DEF Shifted

\* A part of the rest is a part of the text.
LEMMA RestOfRest ==
    ASSUME NEW t \in Text, NEW k \in 0 .. Len(t), NEW b,
           b = SubSeq(t, k + 1, Len(t)), NEW i \in 1 .. Len(t) - k + 1,
           NEW j \in 0 .. Len(t) - k
    PROVE  SubSeq(b, i, j) = SubSeq(t, k + i, k + j)
<1>1. Len(t) \in Nat /\ k \in Nat /\ k <= Len(t)
  BY EndsFacts
<1>2. /\ b \in Text /\ Len(b) = Len(t) - k
      /\ \A m \in 1 .. Len(t) - k : b[m] = t[k + m]
  BY <1>1, SubSeqProperties DEF Text
<1>3. /\ i \in Int /\ j \in Int /\ k + i \in Int /\ k + j \in Int
      /\ \A m \in i .. j : b[m] \in STRING /\ b[m] = t[k + m]
      /\ \A m \in k + i .. k + j : t[m] \in STRING
  BY <1>1, <1>2 DEF Text
<1> DEFINE u == SubSeq(b, i, j)
           v == SubSeq(t, k + i, k + j)
<1>4. /\ u \in Seq(STRING) /\ Len(u) = IF i <= j THEN j - i + 1 ELSE 0
      /\ \A m \in 1 .. j - i + 1 : u[m] = b[i + m - 1]
  BY <1>3, SubSeqProperties
<1>5. /\ v \in Seq(STRING)
      /\ Len(v) = IF k + i <= k + j THEN (k + j) - (k + i) + 1 ELSE 0
      /\ \A m \in 1 .. (k + j) - (k + i) + 1 : v[m] = t[(k + i) + m - 1]
  BY <1>3, SubSeqProperties
<1> HIDE DEF u, v
<1>6. Len(u) = Len(v)
  BY <1>1, <1>3, <1>4, <1>5
<1>7. ASSUME NEW m \in 1 .. Len(u) PROVE u[m] = v[m]
  <2>1. /\ m \in 1 .. j - i + 1 /\ m \in 1 .. (k + j) - (k + i) + 1
        /\ i + m - 1 \in i .. j /\ k + (i + m - 1) = (k + i) + m - 1
    BY <1>1, <1>3, <1>4, <1>7
  <2> QED BY <1>3, <1>4, <1>5, <2>1
<1>8. u = v
  BY <1>4, <1>5, <1>6, <1>7, SeqEqual
<1> QED BY <1>8 DEF u, v

\* No line begins between i and j.
NoStart(t, i, j) == \A p \in Starts(t) : p <= i \/ p >= j

\* The first complete line of the rest is the line of the text there, and
\* the next line begins right behind it.
LEMMA NextLine ==
    ASSUME NEW t \in Text, NEW k \in 0 .. Len(t), k + 1 \in Starts(t), NEW b,
           b = SubSeq(t, k + 1, Len(t)), NEW n, n = findCRLF(b), n # 0
    PROVE  /\ n \in Nat /\ k + n \in Ends(t) /\ k + n + 1 \in 0 .. Len(t)
           /\ k + 1 \in FullLines(t) /\ LineAt(t, k + 1) = Line(b)
           /\ AfterLine(b) = SubSeq(t, k + n + 2, Len(t))
           /\ k + n + 2 \in Starts(t)
           /\ NoStart(t, k + 1, k + n + 2)
<1>0. b \in Text /\ Len(b) = Len(t) - k /\ Shifted(b, t, k)
  BY RestFacts
<1>1. /\ b \in Text /\ Len(b) = Len(t) - k /\ Len(t) \in Nat /\ k \in Nat
      /\ \A i : i \in Ends(b) <=> i \in Nat \ {0} /\ k + i \in Ends(t)
  BY <1>0, EndsFacts DEF Shifted
<1>2. n \in Ends(b) /\ \A j \in Ends(b) : n <= j
  BY <1>1, FindFacts
<1>3. /\ n \in Nat \ {0} /\ k + n \in Ends(t) /\ k + n < Len(t)
      /\ k + n + 2 \in Starts(t)
  BY <1>1, <1>2, EndsFacts, StartsFacts
<1>4. \A j \in Ends(t) : k + 1 <= j => k + n <= j
  <2> SUFFICES ASSUME NEW j \in Ends(t), k + 1 <= j PROVE k + n <= j
    OBVIOUS
  <2>1. j \in Nat /\ j - k \in Nat \ {0} /\ k + (j - k) = j
    BY <1>1, EndsFacts
  <2>2. n <= j - k
    BY <1>1, <1>2, <2>1
  <2> QED BY <1>1, <1>3, <2>1, <2>2
<1>5. k + 1 \in FullLines(t)
  BY <1>1, <1>3 DEF FullLines
<1>6. LineAt(t, k + 1) = SubSeq(t, k + 1, (k + n) - 1)
  <2>1. k + 1 <= k + n
    BY <1>1, <1>3
  <2> QED BY <1>3, <1>4, <2>1, LineAtFacts
<1>7. Line(b) = SubSeq(t, k + 1, (k + n) - 1)
  <2>1. Line(b) = SubSeq(b, 1, n - 1)
    BY DEF Line
  <2>2. /\ 1 \in 1 .. Len(t) - k + 1 /\ n - 1 \in 0 .. Len(t) - k
        /\ k + (n - 1) = (k + n) - 1
    BY <1>1, <1>3
  <2>3. SubSeq(b, 1, n - 1) = SubSeq(t, k + 1, k + (n - 1))
    BY <2>2, RestOfRest
  <2> QED BY <2>1, <2>2, <2>3
<1>8. AfterLine(b) = SubSeq(t, k + n + 2, Len(t))
  <2>1. AfterLine(b) = SubSeq(b, n + 2, Len(t) - k)
    BY <1>1 DEF AfterLine
  <2>2. /\ n + 2 \in 1 .. Len(t) - k + 1 /\ Len(t) - k \in 0 .. Len(t) - k
        /\ k + (n + 2) = k + n + 2 /\ k + (Len(t) - k) = Len(t)
    BY <1>1, <1>3
  <2>3. SubSeq(b, n + 2, Len(t) - k) = SubSeq(t, k + (n + 2), k + (Len(t) - k))
    BY <2>2, RestOfRest
  <2> QED BY <2>1, <2>2, <2>3
<1>9. ASSUME NEW p \in Starts(t), ~(p <= k + 1) PROVE p >= k + n + 2
  <2>1. p \in Nat /\ p - 2 \in Ends(t) /\ p - 2 \in Nat
    BY <1>1, <1>9, StartsFacts, EndsFacts
  <2>2. CASE p - 2 >= k + 1
    BY <1>1, <1>3, <1>4, <2>1, <2>2
  <2>3. CASE p - 2 < k + 1
    <3>1. p - 2 = k \/ p - 2 = k - 1
      BY <1>1, <1>9, <2>1, <2>3
    <3>2. CASE p - 2 = k
      <4>1. (k + 1) - 2 \in Ends(t) \/ k = 0
        BY <1>1, StartsFacts
      <4>2. k # 0
        BY <2>1, <3>2, EndsFacts
      <4>3. k - 1 \in Ends(t) /\ (k - 1) + 1 = k
        BY <1>1, <4>1, <4>2
      <4> QED BY <2>1, <3>2, <4>3, EndsFacts
    <3>3. CASE p - 2 = k - 1
      BY <1>1, <1>9, <2>1, <3>3
    <3> QED BY <3>1, <3>2, <3>3
  <2> QED BY <1>1, <2>1, <2>2, <2>3
<1>10. k + n + 1 \in 0 .. Len(t)
  BY <1>1, <1>3
<1> QED BY <1>3, <1>5, <1>6, <1>7, <1>8, <1>9, <1>10 DEF NoStart

\* Without a complete line in the rest, all complete lines are before it.
LEMMA NoNextLine ==
    ASSUME NEW t \in Text, NEW k \in 0 .. Len(t), NEW b,
           b = SubSeq(t, k + 1, Len(t)), findCRLF(b) = 0
    PROVE  \A p \in FullLines(t) : p <= k
<1>0. b \in Text /\ Shifted(b, t, k)
  BY RestFacts
<1>1. /\ b \in Text /\ k \in Nat
      /\ \A i : i \in Ends(b) <=> i \in Nat \ {0} /\ k + i \in Ends(t)
  BY <1>0, EndsFacts DEF Shifted
<1>2. Ends(b) = {}
  BY <1>1, FindFacts
<1> SUFFICES ASSUME NEW p \in FullLines(t), ~(p <= k) PROVE FALSE
  OBVIOUS
<1>3. p \in Nat /\ \E i \in Ends(t) : p <= i
  BY StartsFacts DEF FullLines
<1>4. PICK i \in Ends(t) : p <= i
  BY <1>3
<1>5. i \in Nat /\ i - k \in Nat \ {0} /\ k + (i - k) = i
  BY <1>1, <1>3, <1>4, EndsFacts
<1> QED BY <1>1, <1>2, <1>5

\* A line before the beginning of another one is complete.
LEMMA EarlierLine ==
    ASSUME NEW t \in Text, NEW p \in Starts(t), NEW q \in Starts(t), p < q
    PROVE  p \in FullLines(t)
<1>1. /\ p \in Nat /\ q \in Nat /\ 1 <= p
      /\ q - 2 \in Ends(t) /\ q - 2 \in Nat
  BY StartsFacts, EndsFacts
<1>2. CASE p <= q - 2
  BY <1>1, <1>2 DEF FullLines
<1>3. CASE p = q - 1
  <2>1. p = 1 \/ (p - 2 \in Ends(t) /\ p >= 3)
    BY StartsFacts
  <2>2. CASE p = 1
    BY <1>1, <1>3, <2>2, EndsFacts
  <2>3. CASE p - 2 \in Ends(t) /\ p >= 3
    <3>1. (p - 2) + 1 = q - 2
      BY <1>1, <1>3
    <3> QED BY <1>1, <2>3, <3>1, EndsFacts
  <2> QED BY <2>1, <2>2, <2>3
<1> QED BY <1>1, <1>2, <1>3

-----------------------------------------------------------------------------
\* More text is received.

\* u has the lines of t, and others only behind them.
Extends(u, t) ==
    /\ Starts(t) \subseteq Starts(u) /\ FullLines(t) \subseteq FullLines(u)
    /\ \A p \in FullLines(t) : LineAt(u, p) = LineAt(t, p)
    /\ \A p \in FullLines(u), q \in FullLines(t) :
          p \in FullLines(t) \/ q < p
    /\ \A p \in FullLines(u), q \in Starts(t) : p < q => p \in FullLines(t)

LEMMA GrownEnds ==
    ASSUME NEW t \in Text, NEW a \in Text, NEW u, u = t \o a
    PROVE  /\ u \in Text /\ Len(u) = Len(t) + Len(a)
           /\ \A i : i \in Ends(t) <=> i \in Ends(u) /\ i < Len(t)
<1>1. /\ u \in Text /\ Len(u) = Len(t) + Len(a)
      /\ \A i \in 1 .. Len(t) : u[i] = t[i]
      /\ Len(t) \in Nat /\ Len(a) \in Nat
  BY ConcatProperties, LenProperties DEF Text
<1>2. \A i \in Nat : 1 <= i /\ i < Len(t) =>
         u[i] = t[i] /\ u[i + 1] = t[i + 1] /\ i < Len(u)
  BY <1>1
<1>3. ASSUME NEW i, i \in Ends(t) PROVE i \in Ends(u) /\ i < Len(t)
  <2>1. i \in Nat /\ 1 <= i /\ i < Len(t) /\ t[i] = CR /\ t[i + 1] = LF
    BY <1>3, EndsFacts
  <2> QED BY <1>1, <1>2, <2>1, EndsFacts
<1>4. ASSUME NEW i, i \in Ends(u), i < Len(t) PROVE i \in Ends(t)
  <2>1. i \in Nat /\ 1 <= i /\ u[i] = CR /\ u[i + 1] = LF
    BY <1>1, <1>4, EndsFacts
  <2> QED BY <1>2, <1>4, <2>1, EndsFacts
<1> QED BY <1>1, <1>3, <1>4

LEMMA GrownLines ==
    ASSUME NEW t \in Text, NEW a \in Text, NEW u, u = t \o a
    PROVE  Extends(u, t)
<1>1. /\ u \in Text /\ Len(t) \in Nat
      /\ \A i : i \in Ends(t) <=> i \in Ends(u) /\ i < Len(t)
  BY GrownEnds, EndsFacts
<1>2. Starts(t) \subseteq Starts(u)
  BY <1>1 DEF Starts
<1>3. FullLines(t) \subseteq FullLines(u)
  BY <1>1, <1>2 DEF FullLines
<1>4. ASSUME NEW p \in FullLines(t) PROVE LineAt(u, p) = LineAt(t, p)
  <2> DEFINE S == {i \in Ends(t) : p <= i}
  <2>1. p \in Nat /\ S # {} /\ S \in SUBSET Nat
    BY StartsFacts, EndsFacts DEF FullLines
  <2>2. PICK e \in S : \A j \in S : e <= j
    BY <2>1, LeastNatural
  <2>3. e \in Ends(t) /\ p <= e /\ \A j \in Ends(t) : p <= j => e <= j
    BY <2>2
  <2>4. e \in Ends(u) /\ \A j \in Ends(u) : p <= j => e <= j
    <3> SUFFICES ASSUME NEW j \in Ends(u), p <= j PROVE e <= j
      BY <1>1, <2>3
    <3>1. j \in Nat /\ e \in Nat /\ e < Len(t)
      BY <1>1, <2>3, EndsFacts
    <3>2. CASE j < Len(t)
      BY <1>1, <2>3, <3>2
    <3>3. CASE ~(j < Len(t))
      BY <1>1, <3>1, <3>3
    <3> QED BY <3>2, <3>3
  <2>5. LineAt(t, p) = SubSeq(t, p, e - 1)
    BY <2>3, LineAtFacts
  <2>6. LineAt(u, p) = SubSeq(u, p, e - 1)
    BY <1>1, <2>3, <2>4, LineAtFacts
  <2>7. SubSeq(u, p, e - 1) = SubSeq(t, p, e - 1)
    <3>1. /\ e \in Nat /\ e < Len(t) /\ p \in Nat /\ 1 <= p
          /\ p \in Int /\ e - 1 \in Int
      BY <1>1, <2>1, <2>3, EndsFacts, StartsFacts DEF FullLines
    <3>2. \A i \in p .. e - 1 : t[i] \in STRING /\ u[i] = t[i]
      <4>1. \A i \in 1 .. Len(t) : t[i] \in STRING /\ u[i] = t[i]
        BY <1>1, ConcatProperties, LenProperties, ElementOfSeq DEF Text
      <4> QED BY <1>1, <3>1, <4>1
    <3> DEFINE v == SubSeq(t, p, e - 1)
               w == SubSeq(u, p, e - 1)
    <3>3. /\ v \in Seq(STRING) /\ Len(v) = IF p <= e - 1 THEN (e - 1) - p + 1 ELSE 0
          /\ \A i \in 1 .. (e - 1) - p + 1 : v[i] = t[p + i - 1]
      BY <3>1, <3>2, SubSeqProperties
    <3>4. /\ w \in Seq(STRING) /\ Len(w) = IF p <= e - 1 THEN (e - 1) - p + 1 ELSE 0
          /\ \A i \in 1 .. (e - 1) - p + 1 : w[i] = u[p + i - 1]
      BY <3>1, <3>2, SubSeqProperties
    <3> HIDE DEF v, w
    <3>5. ASSUME NEW i \in 1 .. Len(w) PROVE w[i] = v[i]
      <4>1. i \in 1 .. (e - 1) - p + 1 /\ p + i - 1 \in p .. e - 1
        BY <3>1, <3>4
      <4> QED BY <3>2, <3>3, <3>4, <4>1
    <3>6. w = v
      BY <3>3, <3>4, <3>5, SeqEqual
    <3> QED BY <3>6 DEF v, w
  <2> QED BY <2>5, <2>6, <2>7
<1>5. ASSUME NEW p \in FullLines(u), NEW q \in Starts(t), p < q
      PROVE  p \in FullLines(t)
  <2>1. /\ p \in Starts(u) /\ p \in Nat /\ q \in Nat /\ q <= Len(t) + 1
        /\ p = 1 \/ (p - 2 \in Ends(u) /\ p >= 3)
    BY <1>1, StartsFacts DEF FullLines
  <2>2. p \in Starts(t)
    <3>1. CASE p = 1
      BY <3>1 DEF Starts
    <3>2. CASE p - 2 \in Ends(u) /\ p >= 3
      <4>1. p - 2 \in Ends(t) /\ (p - 2) + 2 = p
        BY <1>1, <1>5, <2>1, <3>2
      <4> QED BY <4>1, StartsFacts
    <3> QED BY <2>1, <3>1, <3>2
  <2> QED BY <1>5, <2>2, EarlierLine
<1>6. ASSUME NEW p \in FullLines(u), NEW q \in FullLines(t), ~(q < p)
      PROVE  p \in FullLines(t)
  <2>1. q \in Starts(t) /\ q \in Nat /\ p \in Nat
    BY <1>1, StartsFacts DEF FullLines
  <2>2. CASE p = q
    BY <2>2
  <2>3. CASE p < q
    BY <1>5, <2>1, <2>3
  <2> QED BY <1>6, <2>1, <2>2, <2>3
<1> QED BY <1>2, <1>3, <1>4, <1>5, <1>6 DEF Extends

\* What the lines say stays as it is.
LEMMA GrownHead ==
    ASSUME NEW t \in Text, NEW u \in Text, Extends(u, t)
    PROVE  /\ 1 \in FullLines(t) =>
                 /\ 1 \in FullLines(u) /\ LineAt(u, 1) = LineAt(t, 1)
                 /\ GoodStart(u) <=> GoodStart(t)
           /\ \A p \in FullLines(t) : p \in HeadEnds(u) <=> p \in HeadEnds(t)
           /\ \A k \in Nat : k + 1 \in Starts(t) => Done(u, k) = Done(t, k)
           /\ HeadEnds(t) # {} => /\ HeadEnds(u) # {}
                                  /\ HeaderLines(u) = HeaderLines(t)
<1>1. 1 \in FullLines(t) =>
         /\ 1 \in FullLines(u) /\ LineAt(u, 1) = LineAt(t, 1)
         /\ GoodStart(u) <=> GoodStart(t)
  BY DEF Extends, GoodStart
<1>2. \A p \in FullLines(t) : p \in HeadEnds(u) <=> p \in HeadEnds(t)
  BY DEF Extends, HeadEnds
<1>3. /\ \A p \in FullLines(t) : p \in Nat
      /\ \A p \in FullLines(u) : p \in Nat
      /\ HeadEnds(t) \subseteq FullLines(t) /\ HeadEnds(u) \subseteq FullLines(u)
  BY StartsFacts DEF FullLines, HeadEnds
<1>4. ASSUME NEW k \in Nat, k + 1 \in Starts(t) PROVE Done(u, k) = Done(t, k)
  <2>1. \A p \in FullLines(u) : p <= k => p < k + 1
    BY <1>3
  <2> QED BY <1>4, <2>1 DEF Done, Extends
<1>5. ASSUME HeadEnds(t) # {} PROVE HeaderLines(u) = HeaderLines(t)
  <2>1. PICK d \in HeadEnds(t) : TRUE
    BY <1>5
  <2>2. d \in FullLines(t) /\ d \in HeadEnds(u)
    BY <1>2, <1>3, <2>1
  <2>3. ASSUME NEW p \in HeaderLines(u) PROVE p \in HeaderLines(t)
    <3>1. p \in FullLines(u) /\ p # 1 /\ p < d
      BY <2>2 DEF HeaderLines
    <3>2. p \in FullLines(t)
      BY <1>3, <2>2, <3>1 DEF Extends
    <3> QED BY <1>2, <1>3, <3>1, <3>2 DEF HeaderLines
  <2>4. ASSUME NEW p \in HeaderLines(t) PROVE p \in HeaderLines(u)
    <3>1. p \in FullLines(t) /\ p # 1 /\ p \in FullLines(u)
      BY DEF HeaderLines, Extends
    <3>2. ASSUME NEW e \in HeadEnds(u) PROVE p < e
      <4>1. CASE e \in FullLines(t)
        BY <1>2, <4>1 DEF HeaderLines
      <4>2. CASE e \notin FullLines(t)
        BY <1>3, <3>1, <4>2 DEF Extends
      <4> QED BY <4>1, <4>2
    <3> QED BY <3>1, <3>2 DEF HeaderLines
  <2> QED BY <2>3, <2>4
<1>6. HeadEnds(t) # {} => HeadEnds(u) # {}
  BY <1>2, <1>3
<1> QED BY <1>1, <1>2, <1>4, <1>5, <1>6

LEMMA GrownValues ==
    ASSUME NEW t, NEW u, Extends(u, t), NEW ps, ps \subseteq FullLines(t),
           NEW h, LastValues(h, t, ps)
    PROVE  LastValues(h, u, ps)
<1>1. \A p \in ps : LineAt(u, p) = LineAt(t, p)
  BY DEF Extends
<1>2. {Name(LineAt(t, p)) : p \in ps} = {Name(LineAt(u, p)) : p \in ps}
  BY <1>1
<1> QED BY <1>1, <1>2 DEF LastValues

\* The buffer grows at its end.
\* What is left of text t after k tokens.
After(t, k) == SubSeq(t, k + 1, Len(t))

LEMMA GrownRest ==
    ASSUME NEW t \in Text, NEW a \in Text, NEW k \in 0 .. Len(t)
    PROVE  After(t, k) \o a = After(t \o a, k)
<1> DEFINE u == t \o a
           b == SubSeq(t, k + 1, Len(t))
<1>1. /\ Len(t) \in Nat /\ Len(a) \in Nat /\ k \in Nat /\ k <= Len(t)
  BY EndsFacts
<1>2. /\ u \in Seq(STRING) /\ Len(u) = Len(t) + Len(a)
      /\ \A i \in 1 .. Len(t) + Len(a) :
            u[i] = IF i <= Len(t) THEN t[i] ELSE a[i - Len(t)]
  BY ConcatProperties DEF Text
<1>3. /\ b \in Seq(STRING) /\ Len(b) = Len(t) - k
      /\ \A i \in 1 .. Len(t) - k : b[i] = t[k + i]
  BY <1>1, SubSeqProperties DEF Text
<1> HIDE DEF b
<1> DEFINE v == b \o a
           w == SubSeq(u, k + 1, Len(u))
<1>4. /\ v \in Seq(STRING) /\ Len(v) = Len(b) + Len(a)
      /\ \A i \in 1 .. Len(b) + Len(a) :
            v[i] = IF i <= Len(b) THEN b[i] ELSE a[i - Len(b)]
  BY <1>3, ConcatProperties DEF Text
<1> HIDE DEF u
<1>5. /\ w \in Seq(STRING) /\ Len(w) = Len(u) - k
      /\ \A i \in 1 .. Len(u) - k : w[i] = u[k + i]
  BY <1>1, <1>2, SubSeqProperties
<1> HIDE DEF v, w
<1>6. Len(v) = Len(w)
  BY <1>1, <1>2, <1>3, <1>4, <1>5
<1>7. ASSUME NEW i \in 1 .. Len(v) PROVE v[i] = w[i]
  <2>1. /\ i \in 1 .. Len(b) + Len(a) /\ i \in 1 .. Len(u) - k
        /\ k + i \in 1 .. Len(t) + Len(a)
    BY <1>1, <1>2, <1>3, <1>4
  <2>2. CASE i <= Len(b)
    <3>1. i \in 1 .. Len(t) - k /\ k + i <= Len(t)
      BY <1>1, <1>3, <2>1, <2>2
    <3> QED BY <1>2, <1>3, <1>4, <1>5, <2>1, <2>2, <3>1
  <2>3. CASE ~(i <= Len(b))
    <3>1. i \in Nat /\ Len(b) \in Nat /\ Len(b) + k = Len(t)
      BY <1>1, <1>3, <1>4
    <3>2. \A m \in Nat : m + k = Len(t) /\ ~(i <= m) =>
             ~(k + i <= Len(t)) /\ (k + i) - Len(t) = i - m
      BY <1>1, <3>1
    <3> QED BY <1>2, <1>4, <1>5, <2>1, <2>3, <3>1, <3>2
  <2> QED BY <2>2, <2>3
<1>8. v = w
  BY <1>4, <1>5, <1>6, <1>7, SeqEqual
<1> QED BY <1>8 DEF b, u, v, w, After

-----------------------------------------------------------------------------
\* A line is taken out of the buffer.

\* b is what is left of text t, from the beginning of a line.
IsRest(b, t) ==
    /\ Len(b) <= Len(t) /\ b = SubSeq(t, Len(t) - Len(b) + 1, Len(t))
    /\ Len(t) - Len(b) + 1 \in Starts(t)

\* All of ps come before q.
Before(ps, q) == \A p \in ps : p < q

\* From the rest b of text t to the rest c the line at k + 1 is taken; m
\* tokens have then been parsed.
TakesLine(t, b, c, k, m) ==
    /\ c \in Text /\ IsRest(c, t) /\ m \in Nat \ {0}
    /\ k + 1 \in FullLines(t)
    /\ LineAt(t, k + 1) = Line(b)
    /\ Done(t, m) = Done(t, k) \cup ({k + 1} \ {1})
    /\ Before(Done(t, k), k + 1)

LEMMA LineTaken ==
    ASSUME NEW t \in Text, NEW b \in Text, IsRest(b, t), findCRLF(b) # 0,
           NEW c, c = AfterLine(b), NEW k \in Nat, Len(b) + k = Len(t),
           NEW m \in Int, Len(c) + m = Len(t)
    PROVE  TakesLine(t, b, c, k, m)
<1>n. PICK n : n = findCRLF(b)
  OBVIOUS
<1>1. Len(t) \in Nat /\ Len(b) \in Nat
  BY EndsFacts
<1>2. /\ k \in 0 .. Len(t) /\ k \in Nat /\ b = SubSeq(t, k + 1, Len(t))
      /\ k + 1 \in Starts(t)
  <2>1. Len(t) - Len(b) = k /\ k \in 0 .. Len(t)
    BY <1>1
  <2> QED BY <2>1 DEF IsRest
<1>3. /\ n \in Nat /\ k + n \in Ends(t) /\ k + n + 1 \in 0 .. Len(t)
      /\ k + 1 \in FullLines(t) /\ LineAt(t, k + 1) = Line(b)
      /\ AfterLine(b) = SubSeq(t, k + n + 2, Len(t))
      /\ k + n + 2 \in Starts(t) /\ NoStart(t, k + 1, k + n + 2)
  <2>1. n # 0
    BY <1>n
  <2> QED BY <1>n, <1>2, <2>1, NextLine
<1> DEFINE j == k + n + 1
<1>4. j \in Nat /\ j = k + n + 1
  BY <1>2, <1>3
<1>5. j \in 0 .. Len(t) /\ j + 1 = k + n + 2
  BY <1>2, <1>3, <1>4
<1> HIDE DEF j
<1>6. c \in Text /\ Len(c) = Len(t) - j
  <2>1. j \in 0 .. Len(t) /\ c = SubSeq(t, j + 1, Len(t))
    BY <1>3, <1>5
  <2> QED BY <2>1, RestFacts
<1>7. m = j /\ Len(c) <= Len(t)
  <2>1. PICK x, y : x = Len(t) /\ y = Len(c)
    OBVIOUS
  <2>2. x \in Nat /\ j \in Nat /\ y = x - j /\ y + m = x
    BY <1>1, <1>4, <1>6, <2>1, Zenon
  <2>3. m = j /\ y <= x
    BY <2>2
  <2> QED BY <2>1, <2>3
<1>8. IsRest(c, t)
  <2>1. Len(t) - Len(c) = j
    BY <1>1, <1>5, <1>6
  <2> QED BY <1>3, <1>5, <1>7, <2>1 DEF IsRest
<1>9. m \in Nat \ {0}
  BY <1>2, <1>3, <1>4, <1>7
<1>10. \A p \in FullLines(t) : /\ p \in Nat
                               /\ p <= m <=> p <= k \/ p = k + 1
  <2> SUFFICES ASSUME NEW p \in FullLines(t)
               PROVE  p \in Nat /\ (p <= m <=> p <= k \/ p = k + 1)
    OBVIOUS
  <2>1. p \in Nat /\ (p <= k + 1 \/ p >= k + n + 2)
    BY <1>3, StartsFacts DEF FullLines, NoStart
  <2> QED BY <1>2, <1>3, <1>4, <1>7, <2>1
<1>11. Done(t, m) = Done(t, k) \cup ({k + 1} \ {1})
  BY <1>3, <1>10 DEF Done
<1>12. \A p \in Done(t, k) : p < k + 1
  <2>1. \A p \in Nat : p <= k => p < k + 1
    BY <1>2
  <2> QED BY <1>10, <2>1 DEF Done
<1> QED BY <1>2, <1>3, <1>6, <1>8, <1>9, <1>11, <1>12
       DEF Before, TakesLine

\* The header of the line at q, behind those at ps.
LEMMA SetHeaderValues ==
    ASSUME NEW h, NEW t, NEW ps, NEW q, LastValues(h, t, ps),
           \A p \in ps : p < q, \A p \in ps : p \in Nat, q \in Nat
    PROVE  LastValues(SetHeader(h, LineAt(t, q)), t, ps \cup {q})
<1> DEFINE N(p) == Name(LineAt(t, p))
           V(p) == Value(LineAt(t, p))
           g == SetHeader(h, LineAt(t, q))
<1>1. DOMAIN h = {N(p) : p \in ps}
  BY DEF LastValues
<1>2. ASSUME NEW p \in ps
      PROVE  h[N(p)] = V(p) \/ \E r \in ps : r > p /\ N(r) = N(p)
  BY DEF LastValues
<1>3. g = [n \in DOMAIN h \cup {N(q)} |-> IF n = N(q) THEN V(q) ELSE h[n]]
  BY DEF SetHeader
<1> HIDE DEF N, V, g
<1>4. DOMAIN g = {N(p) : p \in ps \cup {q}}
  BY <1>1, <1>3
<1>5. ASSUME NEW p \in ps \cup {q}
      PROVE  g[N(p)] = V(p) \/ \E r \in ps \cup {q} : r > p /\ N(r) = N(p)
  <2>1. CASE p = q
    BY <1>3, <2>1
  <2>2. CASE p \in ps /\ N(p) = N(q)
    <3>1. q > p
      BY <2>2
    <3> QED BY <2>2, <3>1
  <2>3. CASE p \in ps /\ N(p) # N(q)
    <3>1. N(p) \in DOMAIN h
      BY <1>1, <2>3
    <3>2. g[N(p)] = h[N(p)]
      BY <1>3, <2>3, <3>1
    <3> QED BY <1>2, <2>3, <3>2
  <2> QED BY <2>1, <2>2, <2>3
<1> QED BY <1>4, <1>5 DEF LastValues, N, V, g

-----------------------------------------------------------------------------
\* Every step preserves the invariant.

LEMMA BufferIsRest == BufferOK <=> IsRest(buf, received)
BY DEF BufferOK, Parsed, IsRest

LEMMA InitInv == Init => Inv
<1> SUFFICES ASSUME Init PROVE Inv
  OBVIOUS
<1>1. /\ unsent \in Text /\ <<>> \in Text /\ Len(<<>>) = 0
  BY RequestsAssumption DEF Init, Text
<1>2. Types
  BY <1>1 DEF Init, Types
<1>3. SubSeq(<<>>, 1, 0) = <<>>
  BY SubSeqEmpty
<1>4. BufferOK
  BY <1>1, <1>3 DEF Init, BufferOK, Parsed, Starts
<1>5. ParsedOK /\ Answers /\ ReadsOK
  BY <1>1 DEF Init, ParsedOK, Parsed, Answers, ReadsOK
<1> QED BY <1>2, <1>4, <1>5 DEF Inv

LEMMA PeerSendsInv == Inv /\ PeerSends => Inv'
<1> SUFFICES ASSUME Inv, PeerSends PROVE Inv'
  OBVIOUS
<1>1. PICK n \in 1 .. Len(unsent) :
         /\ arriving' = arriving \o SubSeq(unsent, 1, n)
         /\ unsent' = SubSeq(unsent, n + 1, Len(unsent))
  BY DEF PeerSends
<1>2. UNCHANGED <<buf, state_, request_, headers, pc, ok, received, reads,
                  responses, wrShut, killed>>
  BY DEF PeerSends, parserVars
<1>3. unsent \in Text /\ arriving \in Text /\ Len(unsent) \in Nat
  BY EndsFacts DEF Inv, Types
<1>4. unsent' \in Text
  <2>1. n \in 0 .. Len(unsent)
    BY <1>3
  <2> QED BY <1>1, <1>3, <2>1, RestFacts
<1>5. arriving' \in Text
  <2>1. \A i \in 1 .. n : unsent[i] \in STRING
    BY <1>3 DEF Text
  <2>2. SubSeq(unsent, 1, n) \in Text
    BY <1>3, <2>1, SubSeqProperties DEF Text
  <2> QED BY <1>1, <1>3, <2>2, ConcatProperties DEF Text
<1>6. Types'
  BY <1>2, <1>4, <1>5 DEF Inv, Types
<1>7. BufferOK' /\ ParsedOK'
  BY <1>2 DEF Inv, BufferOK, ParsedOK, Parsed
<1>8. Answers' /\ ReadsOK'
  BY <1>2 DEF Inv, Answers, ReadsOK, BadStart
<1> QED BY <1>6, <1>7, <1>8 DEF Inv

LEMMA OnMessageInv == Inv /\ OnMessage => Inv'
<1> SUFFICES ASSUME Inv, OnMessage PROVE Inv'
  OBVIOUS
<1>1. /\ pc = "poll" /\ buf' = buf \o arriving
      /\ received' = received \o arriving /\ arriving' = <<>>
      /\ reads' = (IF reads < 2 THEN reads + 1 ELSE reads)
      /\ pc' = "parse" /\ ok' = TRUE
      /\ UNCHANGED <<unsent, state_, request_, headers, responses, wrShut,
                     killed>>
  BY DEF OnMessage
<1>2. Types /\ BufferOK /\ ParsedOK /\ Answers /\ ReadsOK
  BY DEF Inv
<1>3. /\ buf \in Text /\ received \in Text /\ arriving \in Text
      /\ Len(buf) \in Nat /\ Len(received) \in Nat /\ Len(arriving) \in Nat
  BY <1>2, EndsFacts DEF Types
<1>4. PICK k \in 0 .. Len(received) : k = Parsed
  <2>1. Parsed \in 0 .. Len(received)
    BY <1>2, <1>3 DEF BufferOK, Parsed
  <2> QED BY <2>1
<1>5. /\ buf = SubSeq(received, k + 1, Len(received)) /\ k \in Nat
      /\ k + 1 \in Starts(received)
  BY <1>2, <1>3, <1>4 DEF BufferOK
<1>6. /\ received' \in Text /\ Extends(received', received)
      /\ Len(received') = Len(received) + Len(arriving)
  <2>1. received' = received \o arriving
    BY <1>1
  <2>2. received' \in Text /\ Len(received') = Len(received) + Len(arriving)
    BY <1>3, <2>1, GrownEnds
  <2>3. Extends(received', received)
    BY <1>3, <2>1, GrownLines
  <2> QED BY <2>2, <2>3
<1>7. buf' = SubSeq(received', k + 1, Len(received'))
  <2>1. After(received, k) \o arriving = After(received \o arriving, k)
    BY <1>3, <1>4, GrownRest
  <2>2. buf = After(received, k)
    BY <1>5 DEF After
  <2>3. buf' = After(received', k)
    BY <1>1, <2>1, <2>2, Zenon
  <2> QED BY <2>3 DEF After
<1>8. buf' \in Text /\ Len(buf') = Len(buf) + Len(arriving)
  BY <1>1, <1>3, ConcatProperties DEF Text
<1>9. Parsed' = k /\ Len(buf') <= Len(received')
  BY <1>2, <1>3, <1>4, <1>6, <1>8 DEF BufferOK, Parsed
<1>10. /\ 1 \in FullLines(received) =>
             /\ 1 \in FullLines(received')
             /\ LineAt(received', 1) = LineAt(received, 1)
             /\ GoodStart(received') <=> GoodStart(received)
       /\ \A p \in FullLines(received) :
             p \in HeadEnds(received') <=> p \in HeadEnds(received)
       /\ Done(received', k) = Done(received, k)
       /\ HeadEnds(received) # {} =>
             /\ HeadEnds(received') # {}
             /\ HeaderLines(received') = HeaderLines(received)
  BY <1>3, <1>5, <1>6, GrownHead
<1>11. Types'
  BY <1>1, <1>2, <1>6, <1>8 DEF Types, Text
<1>12. BufferOK'
  BY <1>5, <1>6, <1>7, <1>9 DEF BufferOK, Extends
<1>13. ParsedOK'
  <2>1. Done(received, k) \subseteq FullLines(received)
        /\ HeaderLines(received) \subseteq FullLines(received)
    BY DEF Done, HeaderLines
  <2>2. state_ # "ExpectRequestLine" =>
          /\ GoodStart(received') /\ Parsed' # 0
          /\ request_' = ProcessRequestLine(LineAt(received', 1))
    BY <1>1, <1>2, <1>4, <1>9, <1>10 DEF ParsedOK, GoodStart
  <2>3. state_ = "ExpectHeaders" =>
          /\ \A p \in Done(received', k) : p \notin HeadEnds(received')
          /\ LastValues(headers', received', Done(received', k))
    <3> SUFFICES ASSUME state_ = "ExpectHeaders"
                 PROVE  /\ \A p \in Done(received', k) : p \notin HeadEnds(received')
                        /\ LastValues(headers, received', Done(received', k))
      BY <1>1
    <3>1. /\ \A p \in Done(received, k) : p \notin HeadEnds(received)
          /\ LastValues(headers, received, Done(received, k))
      BY <1>2, <1>4 DEF ParsedOK
    <3>2. LastValues(headers, received', Done(received, k))
      BY <1>6, <2>1, <3>1, GrownValues
    <3> QED BY <1>10, <2>1, <3>1, <3>2
  <2>4. state_ = "GotAll" =>
          /\ HeadEnds(received') # {}
          /\ LastValues(headers', received', HeaderLines(received'))
    <3> SUFFICES ASSUME state_ = "GotAll"
                 PROVE  /\ HeadEnds(received') # {}
                        /\ LastValues(headers, received', HeaderLines(received'))
      BY <1>1
    <3>1. /\ HeadEnds(received) # {}
          /\ LastValues(headers, received, HeaderLines(received))
      BY <1>2 DEF ParsedOK
    <3>2. LastValues(headers, received', HeaderLines(received))
      BY <1>6, <2>1, <3>1, GrownValues
    <3> QED BY <1>10, <3>1, <3>2
  <2> QED BY <1>1, <1>2, <1>4, <1>9, <2>2, <2>3, <2>4 DEF ParsedOK
<1>14. reads \in Nat /\ reads' \in Nat /\ reads' > 0
       /\ (reads > 0 => reads' > 1) /\ (reads > 1 => reads' > 1)
  BY <1>1, <1>2 DEF Types
<1>15. BadStart => BadStart'
  BY <1>10 DEF BadStart
<1>16. Answers'
  BY <1>1, <1>2, <1>14, <1>15 DEF Answers
<1>17. ReadsOK'
  BY <1>1, <1>2, <1>14 DEF ReadsOK
<1> QED BY <1>11, <1>12, <1>13, <1>16, <1>17 DEF Inv

\* The first line of the buffer, and what the step leaves of it.
LEMMA BufferLine ==
    ASSUME Inv, findCRLF(buf) # 0, buf' = AfterLine(buf), received' = received
    PROVE  /\ buf' \in Text /\ BufferOK' /\ Parsed' \in Nat \ {0}
           /\ Parsed \in Nat /\ Parsed + 1 \in FullLines(received)
           /\ LineAt(received, Parsed + 1) = Line(buf)
           /\ Done(received, Parsed') =
                 Done(received, Parsed) \cup ({Parsed + 1} \ {1})
           /\ Before(Done(received, Parsed), Parsed + 1)
<1>1. /\ buf \in Text /\ received \in Text /\ Len(buf) \in Nat
      /\ Len(received) \in Nat /\ Len(buf) <= Len(received)
  BY EndsFacts DEF Inv, Types, BufferOK
<1>2. IsRest(buf, received)
  BY BufferIsRest DEF Inv
<1>3. PICK k \in Nat : k = Parsed
  <2>1. Parsed \in Nat
    BY <1>1 DEF Parsed
  <2> QED BY <2>1
<1>4. Len(buf) + k = Len(received)
  BY <1>1, <1>3 DEF Parsed
<1>5. Len(buf') \in Nat
  <2>1. \A i \in findCRLF(buf) + 2 .. Len(buf) : buf[i] \in STRING
    <3>1. findCRLF(buf) \in Nat
      BY <1>1, FindFacts, EndsFacts
    <3> QED BY <1>1, <3>1, ElementOfSeq DEF Text
  <2>2. findCRLF(buf) \in Int
    BY <1>1, FindFacts, EndsFacts
  <2>3. buf' \in Seq(STRING)
    BY <1>1, <2>1, <2>2, SubSeqProperties DEF AfterLine
  <2> QED BY <2>3, LenProperties
<1>6. PICK m \in Int : m = Parsed'
  <2>1. Parsed' \in Int
    BY <1>1, <1>5 DEF Parsed
  <2> QED BY <2>1
<1>7. Len(buf') + m = Len(received)
  BY <1>1, <1>5, <1>6 DEF Parsed
<1>8. /\ buf' \in Text /\ IsRest(buf', received) /\ m \in Nat \ {0}
      /\ k + 1 \in FullLines(received)
      /\ LineAt(received, k + 1) = Line(buf)
      /\ Done(received, m) = Done(received, k) \cup ({k + 1} \ {1})
      /\ Before(Done(received, k), k + 1)
  <2>1. TakesLine(received, buf, buf', k, m)
    BY <1>1, <1>2, <1>4, <1>7, LineTaken
  <2> QED BY <2>1 DEF TakesLine
<1>9. BufferOK'
  BY <1>8 DEF BufferOK, Parsed, IsRest
<1> QED BY <1>3, <1>6, <1>8, <1>9

LEMMA NoRequestLineInv == Inv /\ NoRequestLine => Inv'
<1> SUFFICES ASSUME Inv, NoRequestLine PROVE Inv'
  OBVIOUS
<1>1. /\ pc = "parse" /\ state_ = "ExpectRequestLine" /\ pc' = "respond"
      /\ UNCHANGED <<buf, state_, request_, headers, ok, unsent, arriving,
                     received, reads, responses, wrShut, killed>>
  BY DEF NoRequestLine, socketVars
<1>2. Types' /\ BufferOK' /\ ParsedOK'
  BY <1>1 DEF Inv, Types, BufferOK, ParsedOK, Parsed
<1>3. Answers' /\ ReadsOK'
  BY <1>1 DEF Inv, Answers, ReadsOK, BadStart
<1> QED BY <1>2, <1>3 DEF Inv

LEMMA RequestLineInv == Inv /\ RequestLine => Inv'
<1> SUFFICES ASSUME Inv, RequestLine PROVE Inv'
  OBVIOUS
<1>1. /\ pc = "parse" /\ state_ = "ExpectRequestLine"
      /\ findCRLF(buf) # 0 /\ Matches(Line(buf))
      /\ request_' = ProcessRequestLine(Line(buf))
      /\ buf' = AfterLine(buf) /\ state_' = "ExpectHeaders"
      /\ UNCHANGED <<headers, pc, ok, unsent, arriving, received, reads,
                     responses, wrShut, killed>>
  BY DEF RequestLine, socketVars
<1>2. Types /\ ParsedOK /\ Answers /\ ReadsOK
  BY DEF Inv
<1>3. /\ buf' \in Text /\ BufferOK' /\ Parsed' \in Nat \ {0}
      /\ Parsed + 1 \in FullLines(received)
      /\ LineAt(received, Parsed + 1) = Line(buf)
      /\ Done(received, Parsed') =
            Done(received, Parsed) \cup ({Parsed + 1} \ {1})
  BY <1>1, BufferLine
<1>4. Parsed = 0 /\ headers = <<>>
  BY <1>1, <1>2 DEF ParsedOK
<1>5. GoodStart(received) /\ LineAt(received, 1) = Line(buf)
  BY <1>1, <1>3, <1>4 DEF GoodStart
<1>6. Done(received, Parsed') = {}
  <2>1. Done(received, 0) = {}
    <3>1. \A p \in FullLines(received) : p \in Nat /\ 1 <= p
      BY <1>2, StartsFacts DEF FullLines, Types
    <3> QED BY <3>1 DEF Done
  <2> QED BY <1>3, <1>4, <2>1
<1>7. LastValues(<<>>, received, {})
  BY DEF LastValues
<1>8. ParsedOK'
  BY <1>1, <1>3, <1>4, <1>5, <1>6, <1>7 DEF ParsedOK
<1>9. Types'
  BY <1>1, <1>2, <1>3 DEF Types
<1>10. Answers' /\ ReadsOK'
  BY <1>1, <1>2, <1>5 DEF Answers, ReadsOK, BadStart
<1> QED BY <1>3, <1>8, <1>9, <1>10 DEF Inv

LEMMA BadRequestLineInv == Inv /\ BadRequestLine => Inv'
<1> SUFFICES ASSUME Inv, BadRequestLine PROVE Inv'
  OBVIOUS
<1>1. /\ pc = "parse" /\ state_ = "ExpectRequestLine"
      /\ findCRLF(buf) # 0 /\ ~Matches(Line(buf))
      /\ ok' = FALSE /\ pc' = "respond"
      /\ UNCHANGED <<buf, state_, headers, unsent, arriving, received, reads,
                     responses, wrShut, killed>>
  BY DEF BadRequestLine, socketVars
<1>2. Types /\ BufferOK /\ ParsedOK /\ Answers /\ ReadsOK
  BY DEF Inv
<1>3. Parsed = 0 /\ headers = <<>>
  BY <1>1, <1>2 DEF ParsedOK
<1>4. 1 \in FullLines(received) /\ LineAt(received, 1) = Line(buf)
  <2>1. /\ received \in Text /\ Len(received) \in Nat /\ 0 \in 0 .. Len(received)
        /\ 0 + 1 \in Starts(received)
        /\ buf = SubSeq(received, 0 + 1, Len(received))
    BY <1>2, <1>3, EndsFacts DEF Types, BufferOK
  <2>2. /\ 0 + 1 \in FullLines(received)
        /\ LineAt(received, 0 + 1) = Line(buf)
    BY <1>1, <2>1, NextLine
  <2> QED BY <2>2
<1>5. BadStart
  BY <1>1, <1>4 DEF BadStart, GoodStart
<1>6. Types' /\ BufferOK' /\ ParsedOK'
  BY <1>1, <1>2, <1>3 DEF Types, BufferOK, ParsedOK, Parsed
<1>7. Answers' /\ ReadsOK'
  BY <1>1, <1>2, <1>5 DEF Answers, ReadsOK, BadStart
<1> QED BY <1>6, <1>7 DEF Inv

LEMMA HeaderLineInv == Inv /\ HeaderLine => Inv'
<1> SUFFICES ASSUME Inv, HeaderLine PROVE Inv'
  OBVIOUS
<1>1. /\ pc = "parse" /\ state_ = "ExpectHeaders"
      /\ findCRLF(buf) # 0 /\ HasColon(Line(buf))
      /\ headers' = SetHeader(headers, Line(buf)) /\ buf' = AfterLine(buf)
      /\ UNCHANGED <<state_, request_, pc, ok, unsent, arriving, received,
                     reads, responses, wrShut, killed>>
  BY DEF HeaderLine, socketVars
<1>2. Types /\ ParsedOK /\ Answers /\ ReadsOK
  BY DEF Inv
<1>3. PICK k : k = Parsed
  OBVIOUS
<1>4. /\ buf' \in Text /\ BufferOK' /\ Parsed' \in Nat \ {0} /\ k \in Nat
      /\ k + 1 \in FullLines(received)
      /\ LineAt(received, k + 1) = Line(buf)
      /\ Done(received, Parsed') = Done(received, k) \cup ({k + 1} \ {1})
      /\ Before(Done(received, k), k + 1)
  BY <1>1, <1>3, BufferLine
<1>5. /\ GoodStart(received) /\ k # 0
      /\ request_ = ProcessRequestLine(LineAt(received, 1))
      /\ \A p \in Done(received, k) : p \notin HeadEnds(received)
      /\ LastValues(headers, received, Done(received, k))
  BY <1>1, <1>2, <1>3 DEF ParsedOK
<1>6. Done(received, Parsed') = Done(received, k) \cup {k + 1}
  BY <1>4, <1>5
<1>7. k + 1 \notin HeadEnds(received)
  BY <1>1, <1>4 DEF HeadEnds
<1>8. LastValues(headers', received, Done(received, k) \cup {k + 1})
  <2>1. \A p \in Done(received, k) : p \in Nat
    BY <1>2, StartsFacts DEF Types, Done, FullLines
  <2>2. k + 1 \in Nat
    BY <1>4
  <2>3. headers' = SetHeader(headers, LineAt(received, k + 1))
    BY <1>1, <1>4
  <2> QED BY <1>4, <1>5, <2>1, <2>2, <2>3, SetHeaderValues DEF Before
<1>9. ParsedOK'
  BY <1>1, <1>4, <1>5, <1>6, <1>7, <1>8 DEF ParsedOK
<1>10. Types'
  BY <1>1, <1>2, <1>4 DEF Types
<1>11. Answers' /\ ReadsOK'
  BY <1>1, <1>2 DEF Answers, ReadsOK, BadStart
<1> QED BY <1>4, <1>9, <1>10, <1>11 DEF Inv

LEMMA EndOfHeadersInv == Inv /\ EndOfHeaders => Inv'
<1> SUFFICES ASSUME Inv, EndOfHeaders PROVE Inv'
  OBVIOUS
<1>1. /\ pc = "parse" /\ state_ = "ExpectHeaders"
      /\ findCRLF(buf) # 0 /\ ~HasColon(Line(buf))
      /\ state_' = "GotAll" /\ buf' = AfterLine(buf) /\ pc' = "respond"
      /\ UNCHANGED <<request_, headers, ok, unsent, arriving, received,
                     reads, responses, wrShut, killed>>
  BY DEF EndOfHeaders, socketVars
<1>2. Types /\ ParsedOK /\ Answers /\ ReadsOK
  BY DEF Inv
<1>3. PICK k : k = Parsed
  OBVIOUS
<1>4. /\ buf' \in Text /\ BufferOK' /\ Parsed' \in Nat \ {0} /\ k \in Nat
      /\ k + 1 \in FullLines(received)
      /\ LineAt(received, k + 1) = Line(buf)
      /\ Before(Done(received, k), k + 1)
  BY <1>1, <1>3, BufferLine
<1>5. /\ GoodStart(received) /\ k # 0
      /\ request_ = ProcessRequestLine(LineAt(received, 1))
      /\ \A p \in Done(received, k) : p \notin HeadEnds(received)
      /\ LastValues(headers, received, Done(received, k))
  BY <1>1, <1>2, <1>3 DEF ParsedOK
<1>6. k + 1 \in HeadEnds(received)
  <2>1. k + 1 # 1
    BY <1>4, <1>5
  <2> QED BY <1>1, <1>4, <2>1 DEF HeadEnds
<1>7. HeaderLines(received) = Done(received, k)
  <2>1. \A p \in FullLines(received) : p \in Nat
    BY <1>2, StartsFacts DEF Types, FullLines
  <2>2. ASSUME NEW p \in HeaderLines(received) PROVE p \in Done(received, k)
    <3>1. p \in FullLines(received) \ {1} /\ p < k + 1 /\ p \in Nat
      BY <1>6, <2>1 DEF HeaderLines
    <3> QED BY <1>4, <3>1 DEF Done
  <2>3. ASSUME NEW p \in Done(received, k), NEW e \in HeadEnds(received)
        PROVE  p < e
    <3>1. p \in Nat /\ e \in Nat /\ p <= k /\ e \in FullLines(received) \ {1}
      BY <2>1 DEF Done, HeadEnds
    <3>2. ~(e <= k)
      BY <1>5, <3>1 DEF Done
    <3> QED BY <1>4, <3>1, <3>2
  <2> QED BY <2>2, <2>3 DEF HeaderLines, Done
<1>8. ParsedOK'
  BY <1>1, <1>4, <1>5, <1>6, <1>7 DEF ParsedOK
<1>9. Types'
  BY <1>1, <1>2, <1>4 DEF Types
<1>10. Answers' /\ ReadsOK'
  BY <1>1, <1>2, <1>5 DEF Answers, ReadsOK, BadStart
<1> QED BY <1>4, <1>8, <1>9, <1>10 DEF Inv

LEMMA RespondInv ==
    ASSUME Inv, RespondBad \/ OnRequest \/ NotYet
    PROVE  Inv'
<1>1. /\ pc = "respond" /\ pc' = "poll"
      /\ UNCHANGED <<buf, state_, request_, headers, ok, unsent, arriving,
                     received, reads>>
  BY DEF RespondBad, OnRequest, NotYet, Respond, socketVars
<1>2. Types /\ BufferOK /\ ParsedOK /\ Answers /\ ReadsOK
  BY DEF Inv
<1>3. BufferOK' /\ ParsedOK'
  BY <1>1, <1>2 DEF BufferOK, ParsedOK, Parsed
<1>4. BadStart' <=> BadStart
  BY <1>1 DEF BadStart
<1>5. CASE NotYet
  <2>1. /\ ok /\ state_ # "GotAll" /\ UNCHANGED <<responses, wrShut, killed>>
    BY <1>5 DEF NotYet
  <2>2. Types'
    BY <1>1, <1>2, <2>1 DEF Types
  <2>3. Answers' /\ ReadsOK'
    BY <1>1, <1>2, <1>4, <2>1 DEF Answers, ReadsOK
  <2> QED BY <1>3, <2>2, <2>3 DEF Inv
<1>6. CASE OnRequest
  <2>1. /\ state_ = "GotAll" /\ wrShut' = TRUE
        /\ IF wrShut THEN killed' = TRUE /\ UNCHANGED responses
           ELSE responses' = Append(responses, "200") /\ UNCHANGED killed
    BY <1>6 DEF OnRequest, Respond
  <2>2. responses = <<>> /\ ~wrShut
    BY <1>1, <1>2, <2>1 DEF Answers, ParsedOK, BadStart
  <2>3. responses' = <<"200">> /\ killed' = killed
    BY <2>1, <2>2
  <2>4. /\ <<"200">> # <<>> /\ <<"200">> # <<"400">> /\ <<"400">> # <<>>
    OBVIOUS
  <2>5. Types'
    BY <1>1, <1>2, <2>1 DEF Types
  <2>6. Answers' /\ ReadsOK'
    BY <1>1, <1>2, <2>1, <2>2, <2>3, <2>4 DEF Answers, ReadsOK
  <2> QED BY <1>3, <2>5, <2>6 DEF Inv
<1>7. CASE RespondBad
  <2>1. /\ ~ok /\ wrShut' = TRUE
        /\ IF wrShut THEN killed' = TRUE /\ UNCHANGED responses
           ELSE responses' = Append(responses, "400") /\ UNCHANGED killed
    BY <1>7 DEF RespondBad, Respond
  <2>2. BadStart /\ state_ # "GotAll" /\ responses \in {<<>>, <<"400">>}
    BY <1>1, <1>2, <2>1 DEF Answers, ParsedOK, BadStart
  <2>3. /\ <<"200">> # <<>> /\ <<"200">> # <<"400">> /\ <<"400">> # <<>>
    OBVIOUS
  <2>4. /\ responses' = <<"400">>
        /\ killed' => reads > 1
    <3>1. CASE wrShut
      BY <1>1, <1>2, <2>1, <2>2, <3>1 DEF Answers, ReadsOK
    <3>2. CASE ~wrShut
      <4>1. responses = <<>> /\ ~killed
        BY <1>2, <2>2, <2>3, <3>2 DEF Answers
      <4> QED BY <2>1, <3>2, <4>1
    <3> QED BY <3>1, <3>2
  <2>5. Types'
    BY <1>1, <1>2, <2>1 DEF Types
  <2>6. Answers'
    BY <1>1, <1>4, <2>1, <2>2, <2>3, <2>4 DEF Answers
  <2>7. ReadsOK'
    BY <1>1, <1>2 DEF ReadsOK
  <2> QED BY <1>3, <2>5, <2>6, <2>7 DEF Inv
<1> QED BY <1>5, <1>6, <1>7

LEMMA NextInv == Inv /\ [Next]_vars => Inv'
<1> SUFFICES ASSUME Inv, [Next]_vars PROVE Inv'
  OBVIOUS
<1>1. CASE UNCHANGED vars
  <2>1. Types' /\ BufferOK' /\ ParsedOK'
    BY <1>1 DEF vars, parserVars, socketVars, Inv, Types, BufferOK, ParsedOK,
                Parsed
  <2>2. Answers' /\ ReadsOK'
    BY <1>1 DEF vars, parserVars, socketVars, Inv, Answers, ReadsOK, BadStart
  <2> QED BY <2>1, <2>2 DEF Inv
<1>2. CASE Handler
  BY <1>2, OnMessageInv, NoRequestLineInv, RequestLineInv, BadRequestLineInv,
     HeaderLineInv, EndOfHeadersInv, RespondInv DEF Handler
<1>3. CASE PeerSends
  BY <1>3, PeerSendsInv
<1> QED BY <1>1, <1>2, <1>3 DEF Next, Spin

-----------------------------------------------------------------------------

(* Inv holds in every reachable state: the buffer is the rest of the text  *)
(* that was received, from the beginning of a line, and HttpContext knows  *)
(* what the lines before it say.                                           *)
THEOREM Invariance == Spec => []Inv
BY InitInv, NextInv, PTL DEF Spec

(* A request answered with 200 is the one that the text received makes as  *)
(* a whole, for every text and however it was cut into reads.              *)
THEOREM RequestCorrect == Spec => []RequestMatchesText
<1>1. Inv => RequestMatchesText
  <2> SUFFICES ASSUME Inv, NEW i \in DOMAIN responses, responses[i] = "200"
               PROVE  /\ CompleteHead(received)
                      /\ request_ = ProcessRequestLine(LineAt(received, 1))
                      /\ LastValues(headers, received, HeaderLines(received))
    BY DEF RequestMatchesText
  <2>1. responses = <<"200">>
    <3>1. responses \in {<<>>, <<"200">>, <<"400">>}
      BY DEF Inv, Answers
    <3> QED BY <3>1
  <2>2. state_ = "GotAll"
    BY <2>1 DEF Inv, Answers
  <2> QED BY <2>2 DEF Inv, ParsedOK, CompleteHead
<1> QED BY <1>1, Invariance, PTL

(* The peer is answered at most once, with 400 only for a request line     *)
(* that cannot be read, and a second answer, which kills the program, only *)
(* follows such a line in a later read.                                    *)
THEOREM AnsweredCorrect == Spec => []AnsweredOnce
<1>1. Inv => AnsweredOnce
  BY DEF Inv, Answers, BadStart, AnsweredOnce
<1> QED BY <1>1, Invariance, PTL

(* parseRequest() spins for ever only if the head did not come in one read *)
(* of its own.                                                             *)
THEOREM HangsCorrect == Spec => []HangsOnlyIfCut
<1>1. Inv => HangsOnlyIfCut
  <2> SUFFICES ASSUME Inv, Spinning
               PROVE  \/ GoodStart(received) /\ ~CompleteHead(received)
                      \/ CompleteHead(received) /\ reads > 1
    BY DEF HangsOnlyIfCut
  <2>1. CASE state_ = "ExpectHeaders" /\ findCRLF(buf) = 0
    <3>1. /\ GoodStart(received)
          /\ \A p \in Done(received, Parsed) : p \notin HeadEnds(received)
      BY <2>1 DEF Inv, ParsedOK
    <3>2. \A p \in FullLines(received) : p <= Parsed
      <4>1. /\ received \in Text /\ Len(received) \in Nat /\ Len(buf) \in Nat
            /\ Len(buf) <= Len(received)
        BY EndsFacts DEF Inv, Types, BufferOK
      <4>2. Parsed \in 0 .. Len(received)
        BY <4>1 DEF Parsed
      <4>3. buf = SubSeq(received, Parsed + 1, Len(received))
        BY DEF Inv, BufferOK
      <4> QED BY <2>1, <4>1, <4>2, <4>3, NoNextLine
    <3>3. HeadEnds(received) = {}
      BY <3>1, <3>2 DEF Done, HeadEnds
    <3> QED BY <3>1, <3>3 DEF CompleteHead
  <2>2. CASE state_ = "GotAll" /\ pc = "parse"
    <3>1. CompleteHead(received)
      BY <2>2 DEF Inv, ParsedOK, CompleteHead
    <3>2. responses = <<"200">>
      BY <2>2 DEF Inv, Answers
    <3>3. responses # <<>>
      BY <3>2
    <3> QED BY <2>2, <3>1, <3>3 DEF Inv, ReadsOK
  <2> QED BY <2>1, <2>2 DEF Spinning
<1> QED BY <1>1, Invariance, PTL
=============================================================================
