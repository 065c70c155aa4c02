----------------------------- MODULE HttpServer -----------------------------
(***************************************************************************)
(* HttpServer and HttpContext (src/CEventLoop/Http): one connection of the *)
(* HTTP server.  The peer's request arrives in pieces, cut anywhere; after *)
(* each read the io loop's thread calls onMessage(), which parses what is  *)
(* in the input buffer line by line and answers.                           *)
(*                                                                         *)
(* Text is a sequence of tokens: the words of a line, ":", CR and LF (so   *)
(* that a read may end between the two).  The buffer is a sequence, as     *)
(* TcpStream's InputIntact allows, and a response is its status code.      *)
(***************************************************************************)
EXTENDS Naturals, Sequences, TLC

CONSTANT Requests    \* what the peer may send: a set of texts

ASSUME RequestsAssumption == Requests \subseteq Seq(STRING)

CR    == "CR"
LF    == "LF"
Colon == ":"

\* The words of a request line that mean something.
requestMethods == "GET" :> "Get" @@ "POST" :> "Post" @@ "HEAD" :> "Head"
                  @@ "Put" :> "Put" @@ "Delete" :> "Delete"
Versions == "HTTP/1.0" :> "Http10" @@ "HTTP/1.1" :> "Http11"
            @@ "HTTP/2" :> "Http10"
Paths == "/a" :> [path_ |-> "/a", query_ |-> ""]
         @@ "/a?b" :> [path_ |-> "/a", query_ |-> "b"]

VARIABLES
    unsent,          \* what the peer has still to send
    arriving,        \* what it has sent and nobody has read
    received,        \* history: what was read so far
    buf,             \* inputBuffer_
    state_,          \* of HttpContext
    request_, headers,
    pc,              \* "poll", or in onMessage(): "parse" or "respond"
    ok,              \* the result of parseRequest()
    reads,           \* history: how many reads there have been, up to 2
    responses,       \* what was sent to the peer
    wrShut,          \* the socket: shutdown(SHUT_WR)
    killed           \* the program died of SIGPIPE

parserVars == <<buf, state_, request_, headers, pc, ok>>
socketVars == <<unsent, arriving, received, reads>>
vars == <<parserVars, socketVars, responses, wrShut, killed>>

\* A request before, and after, a line that could not be read: fields that
\* were not initialised, or were copied from arrays that were not.
Garbage == [method_ |-> "?", target |-> [path_ |-> "?", query_ |-> "?"],
            version_ |-> "?"]

Init ==
    /\ unsent \in Requests
    /\ arriving = <<>> /\ received = <<>> /\ buf = <<>> /\ reads = 0
    /\ state_ = "ExpectRequestLine" /\ request_ = Garbage /\ headers = <<>>
    /\ pc = "poll" /\ ok = TRUE
    /\ responses = <<>> /\ wrShut = FALSE /\ killed = FALSE

-----------------------------------------------------------------------------
(* Lines.                                                                  *)

\* Where the first CRLF of text t begins; 0 if there is none.
findCRLF(t) ==
    LET at == {i \in 1 .. Len(t) - 1 : t[i] = CR /\ t[i + 1] = LF}
    IN  IF at = {} THEN 0 ELSE CHOOSE i \in at : \A j \in at : i <= j

Line(t)      == SubSeq(t, 1, findCRLF(t) - 1)
AfterLine(t) == SubSeq(t, findCRLF(t) + 2, Len(t))

\* sscanf(line, "%s %s HTTP/%f") = 3
Matches(line) == Len(line) >= 3 /\ line[3] \in DOMAIN Versions

\* processRequestLine(): what a line that matches says.
Method(word) ==
    IF word \in DOMAIN requestMethods THEN requestMethods[word] ELSE "Invalid"
ProcessRequestLine(line) ==
    [method_ |-> Method(line[1]), target |-> Paths[line[2]],
     version_ |-> Versions[line[3]]]

HasColon(line) == \E i \in DOMAIN line : line[i] = Colon

\* headers[name] = value, for the line "name:value".
ColonAt(line) == CHOOSE i \in DOMAIN line :
    line[i] = Colon /\ \A j \in 1 .. i - 1 : line[j] # Colon
Name(line)  == SubSeq(line, 1, ColonAt(line) - 1)
Value(line) == SubSeq(line, ColonAt(line) + 1, Len(line))
SetHeader_keepsFirst(h, line) ==
    [n \in DOMAIN h \cup {Name(line)} |->
        IF n \in DOMAIN h THEN h[n] ELSE Value(line)]
SetHeader(h, line) ==
    [n \in DOMAIN h \cup {Name(line)} |->
        IF n = Name(line) THEN Value(line) ELSE h[n]]

-----------------------------------------------------------------------------
(* The socket.                                                             *)

PeerSends ==
    /\ \E n \in 1 .. Len(unsent) :
          /\ arriving' = arriving \o SubSeq(unsent, 1, n)
          /\ unsent' = SubSeq(unsent, n + 1, Len(unsent))
    /\ UNCHANGED <<parserVars, received, reads, responses, wrShut, killed>>

\* handleRead() puts everything that has arrived into the buffer and calls
\* onMessage(), which begins to parse.
OnMessage ==
    /\ pc = "poll" /\ ~killed
    /\ arriving # <<>>
    /\ buf' = buf \o arriving
    /\ received' = received \o arriving
    /\ arriving' = <<>>
    /\ reads' = IF reads < 2 THEN reads + 1 ELSE reads
    /\ pc' = "parse" /\ ok' = TRUE
    /\ UNCHANGED <<unsent, state_, request_, headers, responses, wrShut,
                   killed>>

-----------------------------------------------------------------------------
(* parseRequest(), one iteration of while (hasMore) a step.                *)

\* No line yet: hasMore = false.
NoRequestLine ==
    /\ pc = "parse" /\ state_ = "ExpectRequestLine"
    /\ findCRLF(buf) = 0
    /\ pc' = "respond"
    /\ UNCHANGED <<buf, state_, request_, headers, ok, socketVars, responses,
                   wrShut, killed>>

RequestLine ==
    /\ pc = "parse" /\ state_ = "ExpectRequestLine"
    /\ findCRLF(buf) # 0 /\ Matches(Line(buf))
    /\ request_' = ProcessRequestLine(Line(buf))
    /\ buf' = AfterLine(buf)
    /\ state_' = "ExpectHeaders"
    /\ UNCHANGED <<headers, pc, ok, socketVars, responses, wrShut, killed>>

\* The line is left in the buffer.
BadRequestLine ==
    /\ pc = "parse" /\ state_ = "ExpectRequestLine"
    /\ findCRLF(buf) # 0 /\ ~Matches(Line(buf))
    /\ request_' = Garbage
    /\ ok' = FALSE /\ pc' = "respond"
    /\ UNCHANGED <<buf, state_, headers, socketVars, responses, wrShut,
                   killed>>

HeaderLine ==
    /\ pc = "parse" /\ state_ = "ExpectHeaders"
    /\ findCRLF(buf) # 0 /\ HasColon(Line(buf))
    /\ headers' = SetHeader(headers, Line(buf))
    /\ buf' = AfterLine(buf)
    /\ UNCHANGED <<state_, request_, pc, ok, socketVars, responses, wrShut,
                   killed>>

\* A line without a colon, empty or not, ends the headers.
EndOfHeaders_keepsState ==
    /\ pc = "parse" /\ state_ = "ExpectHeaders"
    /\ findCRLF(buf) # 0 /\ ~HasColon(Line(buf))
    /\ buf' = AfterLine(buf)
    /\ pc' = "respond"
    /\ UNCHANGED <<request_, state_, headers, ok, socketVars, responses,
                   wrShut, killed>>
EndOfHeaders_goesOn ==
    /\ pc = "parse" /\ state_ = "ExpectHeaders"
    /\ findCRLF(buf) # 0 /\ ~HasColon(Line(buf))
    /\ state_' = "GotAll"
    /\ buf' = AfterLine(buf)
    /\ UNCHANGED <<request_, headers, pc, ok, socketVars, responses, wrShut,
                   killed>>
EndOfHeaders ==
    /\ pc = "parse" /\ state_ = "ExpectHeaders"
    /\ findCRLF(buf) # 0 /\ ~HasColon(Line(buf))
    /\ state_' = "GotAll"
    /\ buf' = AfterLine(buf)
    /\ pc' = "respond"
    /\ UNCHANGED <<request_, headers, ok, socketVars, responses, wrShut,
                   killed>>

\* Nothing changes and hasMore stays true: a header line is not complete, or
\* the context has got its request before.
Spinning ==
    /\ pc = "parse"
    /\ \/ state_ = "ExpectHeaders" /\ findCRLF(buf) = 0
       \/ state_ = "GotAll"
Spin == Spinning /\ UNCHANGED vars

-----------------------------------------------------------------------------
(* The rest of onMessage().                                                *)

\* send() and shutdown(); after an earlier shutdown() the write is fatal.
Respond_staysOpen(status) ==
    /\ responses' = Append(responses, status)
    /\ pc' = "poll"
    /\ UNCHANGED <<buf, state_, request_, headers, ok, socketVars, wrShut,
                   killed>>
Respond(status) ==
    /\ IF wrShut THEN killed' = TRUE /\ UNCHANGED responses
                 ELSE responses' = Append(responses, status) /\ UNCHANGED killed
    /\ wrShut' = TRUE
    /\ pc' = "poll"
    /\ UNCHANGED <<buf, state_, request_, headers, ok, socketVars>>

RespondBad == pc = "respond" /\ ~ok /\ Respond("400")
OnRequest  == pc = "respond" /\ ok /\ state_ = "GotAll" /\ Respond("200")
NotYet ==
    /\ pc = "respond" /\ ok /\ state_ # "GotAll"
    /\ pc' = "poll"
    /\ UNCHANGED <<buf, state_, request_, headers, ok, socketVars, responses,
                   wrShut, killed>>

-----------------------------------------------------------------------------

Handler ==
    \/ OnMessage
    \/ NoRequestLine \/ RequestLine \/ BadRequestLine
    \/ HeaderLine \/ EndOfHeaders
    \/ RespondBad \/ OnRequest \/ NotYet

Next == PeerSends \/ Handler \/ Spin

Spec == Init /\ [][Next]_vars

(* The io loop reads what has arrived and the handler goes on.             *)
FairSpec == Spec /\ WF_vars(Handler)

-----------------------------------------------------------------------------
(* What a text says, as a whole.                                           *)

\* Where the CRLFs of text t begin; where its lines begin, at its first
\* token and behind each CRLF; and which of the lines end in CRLF.
Ends(t)      == {i \in 1 .. Len(t) - 1 : t[i] = CR /\ t[i + 1] = LF}
Starts(t)    == {1} \cup {i + 2 : i \in Ends(t)}
FullLines(t) == {p \in Starts(t) : \E i \in Ends(t) : p <= i}

\* The line of t that begins at p.
LineAt(t, p) ==
    LET end == CHOOSE i \in Ends(t) :
                  p <= i /\ \A j \in Ends(t) : p <= j => i <= j
    IN  SubSeq(t, p, end - 1)

\* A head is a request line and header lines, up to the first line without
\* a colon.
GoodStart(t) == 1 \in FullLines(t) /\ Matches(LineAt(t, 1))
HeadEnds(t) == {p \in FullLines(t) \ {1} : ~HasColon(LineAt(t, p))}
CompleteHead(t) == GoodStart(t) /\ HeadEnds(t) # {}
HeaderLines(t) == {p \in FullLines(t) \ {1} : \A e \in HeadEnds(t) : p < e}

\* h has the headers that the lines of t at the positions ps name, each with
\* the value of the last line that names it.
LastValues(h, t, ps) ==
    /\ DOMAIN h = {Name(LineAt(t, p)) : p \in ps}
    /\ \A p \in ps :
          \/ h[Name(LineAt(t, p))] = Value(LineAt(t, p))
          \/ \E q \in ps : q > p /\ Name(LineAt(t, q)) = Name(LineAt(t, p))

-----------------------------------------------------------------------------

(* A request that is answered with 200 is what the text received says as a *)
(* whole, however it was cut into reads: the request line, and of each     *)
(* header the last value.                                                  *)
RequestMatchesText ==
    (\E i \in DOMAIN responses : responses[i] = "200") =>
        /\ CompleteHead(received)
        /\ request_ = ProcessRequestLine(LineAt(received, 1))
        /\ LastValues(headers, received, HeaderLines(received))

(* The peer is answered at most once, with 200 for a complete head and     *)
(* with 400 for a request line that cannot be read.  The program dies of a *)
(* second answer only when more data follows such a line, which is never   *)
(* taken out of the buffer.                                                *)
AnsweredOnce ==
    /\ responses \in {<<>>, <<"200">>, <<"400">>}
    /\ responses = <<"400">> =>
          1 \in FullLines(received) /\ ~GoodStart(received)
    /\ killed => responses = <<"400">> /\ reads > 1

(* The io loop's thread never comes back from parseRequest() only if the   *)
(* head did not come in one read: it was cut after the request line, or    *)
(* more was read after it was complete.                                    *)
HangsOnlyIfCut ==
    Spinning => \/ GoodStart(received) /\ ~CompleteHead(received)
                \/ CompleteHead(received) /\ reads > 1

(* Under FairSpec: a head that comes whole in the first read is answered.  *)
WholeHeadAnswered ==
    (pc = "parse" /\ reads = 1 /\ CompleteHead(received))
        ~> (responses = <<"200">>)
=============================================================================
