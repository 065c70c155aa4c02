------------------------------- MODULE Llhttp --------------------------------
(***************************************************************************)
(* llhttp (src/CEventLoop/ThirdParty/llhttp), the HTTP parser that         *)
(* HttpContext::execute() runs, as it is compiled here: without            *)
(* LLHTTP_STRICT_MODE and with lenient_flags 0.  The text of a connection  *)
(* arrives in pieces of any size; the parser is a state machine that goes  *)
(* on where the last piece ended, calls the user back, and may be paused   *)
(* by a callback and resumed.                                              *)
(*                                                                         *)
(* The peer chooses every character, word or digit when the parser asks    *)
(* for it; a character that one state leaves to the next stays in look.    *)
(* What it has sent is kept in sent, for the properties.                   *)
(***************************************************************************)
EXTENDS LlhttpMethods, LlhttpChars, Naturals, Sequences

CONSTANTS
    LengthMax,        \* the largest content_length, 2^64 - 1 in the code
    LengthDigits,     \* bound: the digits of a Content-Length
    StatusDigits,     \* bound: the digits of a status code
    ChunkDigits,      \* bound: the hex digits of a chunk size
    VersionDigits,    \* bound: the digits of a version
    MaxFields,        \* bound: header fields of a message, trailer included
    FieldChars,       \* bound: the characters of headers
    FollowedRequests, \* bound: the requests that have headers, and the
    FollowedResponses \* responses that do: <<method or code, major, minor>>

ASSUME LengthAssumption == LengthMax \in Nat /\ (LengthMax + 1) % 16 = 0
ASSUME DigitsAssumption ==
    /\ LengthDigits \cup StatusDigits \cup VersionDigits \subseteq 0 .. 9
    /\ ChunkDigits \subseteq 0 .. 15
ASSUME FollowedAssumption ==
    /\ FollowedRequests \subseteq (0 .. 45) \X (0 .. 9) \X (0 .. 9)
    /\ FollowedResponses \subseteq (0 .. 999) \X (0 .. 9) \X (0 .. 9)

VARIABLES
    parser,    \* struct llhttp__internal_s
    look,      \* *p, or NoChar when p == endp
    half,      \* 1 if the peer is in the middle of a word
    sent,      \* what the peer has sent of this message
    event,     \* the callback that was called last
    outcome    \* "open", or what llhttp_finish() returned

vars == <<parser, look, half, sent, event, outcome>>

NoChar == "endp"

\* llhttp_init(&parser_, HTTP_BOTH, &settings_).
llhttp_init ==
    [current |-> "start", index |-> 0, span |-> "none", error |-> "OK",
     content_length |-> 0, type |-> "BOTH", method |-> 0, http_major |-> 0,
     http_minor |-> 0, header_state |-> 0, upgrade |-> FALSE,
     finish |-> "SAFE", flags |-> {}, status_code |-> 0]

\* Nothing of a message: the words of its method and of the last field, its
\* version and status code, whether it has a Content-Length and a
\* Transfer-Encoding, the length of the body or of the chunk as declared
\* and as given to the user, the number of fields.
NewMessage ==
    [word |-> NoText, field |-> NoText, major |-> 0, minor |-> 9, code |-> 0,
     cl |-> FALSE, te |-> FALSE, length |-> 0, delivered |-> 0, fields |-> 0,
     leftover |-> FALSE, nth |-> 0]

Init ==
    /\ parser = llhttp_init
    /\ look = NoChar /\ half = 0
    /\ sent = NewMessage
    /\ event = "none" /\ outcome = "open"

-----------------------------------------------------------------------------
(* Running the states.                                                     *)

\* The nodes of a trie.
Nodes(t) == {e[1] : e \in t.next} \cup {e[1] : e \in t.match}

At(n) == outcome = "open" /\ parser.error = "OK" /\ parser.current = n

\* Bounds on what the peer sends: which messages have fields, and that a
\* second message, the last one, makes do with a few words and characters.
Followed ==
    LET line(k) == <<k, parser.http_major, parser.http_minor>>
    IN  IF parser.type = "REQUEST"
        THEN line(parser.method) \in FollowedRequests
        ELSE line(parser.status_code) \in FollowedResponses
FollowedMethod(m) == sent.nth < 2 \/ \E r \in FollowedRequests : r[1] = m
FollowedCode(code) ==
    sent.nth < 2
    \/ \E r \in FollowedResponses :
          code \in {r[1], r[1] \div 10, r[1] \div 100}
HeaderNodes ==
    FieldStartNodes @@ FieldNodes @@ DiscardNodes @@ ValueNodes
    @@ ValueEndNodes @@ ConnectionNodes @@ ContentLengthNodes @@ ChunkedNodes
    @@ EncodingNodes @@ ChunkSizeNodes @@ ChunkLineNodes @@ ChunkDataNodes
    @@ EofNodes
FieldStates ==
    DOMAIN HeaderNodes \cup Nodes(header_field)
    \cup Nodes(header_value_connection) \cup Nodes(header_value_te_chunked)
Sendable ==
    CASE parser.current = "header_field_start" ->
             IF ~Followed THEN {}
             ELSE IF sent.fields = MaxFields THEN Line ELSE FieldChars
      [] parser.current \in FieldStates -> FieldChars
      [] parser.current = "start" /\ sent.nth = 2 -> {}
      [] OTHER -> IF sent.nth = 0 \/ (sent.nth = 1 /\ parser.current # "start")
                  THEN Chars ELSE FieldChars \cup {"H", "Slash", "Dot"}

\* The characters that *p may be.
Offered == IF look = NoChar THEN Sendable
           ELSE IF parser.current = "header_field_start"
           THEN {look} \cap Sendable ELSE {look}

\* The error states.
Codes ==
    {"LF_EXPECTED", "UNEXPECTED_CONTENT_LENGTH", "INVALID_METHOD",
     "INVALID_URL", "INVALID_CONSTANT", "INVALID_VERSION",
     "INVALID_HEADER_TOKEN", "INVALID_CONTENT_LENGTH", "INVALID_CHUNK_SIZE",
     "INVALID_STATUS", "INVALID_TRANSFER_ENCODING"}

\* The character that is left to a state.  An error state reads no more.
Left(c, n) == IF n \in Codes THEN NoChar ELSE c

\* A state looks at *p and moves on.  A character of a general field name
\* makes the name none of those that are read.
ReadChar ==
    \E c \in Offered :
        LET n == parser.current
        IN  /\ At(n) /\ n \in DOMAIN CharNodes /\ c \in DOMAIN CharNodes[n]
            /\ parser' = [parser EXCEPT !.current = CharNodes[n][c].to]
            /\ look' = IF CharNodes[n][c].eat THEN NoChar
                       ELSE Left(c, CharNodes[n][c].to)
            /\ sent' = IF n = "header_field_general" /\ look' = NoChar
                       THEN [sent EXCEPT !.field = "other"] ELSE sent
            /\ UNCHANGED <<half, event, outcome>>

Fail ==
    /\ At(parser.current) /\ parser.current \in Codes
    /\ parser' = [parser EXCEPT !.error = parser.current,
                                !.current = "s_error"]
    /\ UNCHANGED <<look, half, sent, event, outcome>>

-----------------------------------------------------------------------------
(* Words: llparse__match_sequence_*() and the switches of the tries.       *)

MethodNodes  == UNION {Nodes(t) : t \in MethodTries \cup {req_or_res_method}}
MethodWords  == UNION {t.match : t \in MethodTries \cup {req_or_res_method}}
OtherTries   == {req_or_res_method, start_res, req_http_start, header_field,
                 header_value_connection, header_value_te_chunked}
NextEdges    == UNION {t.next : t \in MethodTries \cup OtherTries}
Texts        == {<<e[1], e[2]>> : e \in NextEdges}
                \cup {<<e[1], e[2]>> : e \in MethodWords \cup header_field.match
                                        \cup header_value_connection.match}
TrieNodes    == {e[1] : e \in Texts}

\* Facts that TLC evaluates: where a character is looked up as well, and
\* after "GET", words are single letters; only "GET" has nothing to match.
ASSUME LetterAssumption ==
    /\ \A e \in Texts :
          e[1] \in DOMAIN CharNodes \cup {"start_req_16"} => ~(Len(e[2]) > 1)
    /\ \A e \in MethodWords : e[2] = NoText => e[1] = "start_req_16"

First(text) == IF text \in {"H", "HTTP/"} THEN "H" ELSE "Alpha"

\* The peer sends the text, or the rest of it.  A first letter may be
\* waiting in look.  The parser finds it if _index is where it should be.
Sends(text) ==
    /\ text # NoText
    /\ look \in {NoChar, First(text)}
    /\ look' = NoChar /\ half' = 0
Finds == parser.index = half
Spelled(n, text) ==
    IF n \in MethodNodes THEN [sent EXCEPT !.word = @ \o text]
    ELSE IF n \in Nodes(header_field) THEN [sent EXCEPT !.field = @ \o text]
    ELSE sent

OnTrie == At(parser.current) /\ parser.current \in TrieNodes

MatchNext == OnTrie /\
    \E e \in NextEdges :
        /\ At(e[1]) /\ Sends(e[2]) /\ Finds
        /\ parser' = [parser EXCEPT !.current = e[3], !.index = 0]
        /\ sent' = Spelled(e[1], e[2])
        /\ UNCHANGED <<event, outcome>>

\* invoke_store_method and invoke_store_method_1: the method of a request.
StoreMethod(n, m) ==
    [parser EXCEPT !.current = "req_first_space_before_url", !.index = 0,
                   !.method = m,
                   !.type = IF n \in Nodes(req_or_res_method)
                            THEN "REQUEST" ELSE @]
MatchMethod == OnTrie /\
    \E e \in MethodWords :
        /\ At(e[1])
        /\ FollowedMethod(e[3])
        /\ parser' = StoreMethod(e[1], e[3])
        /\ \/ Sends(e[2]) /\ Finds
           \/ e[2] = NoText /\ half' = half /\ look' \in Offered
        /\ sent' = Spelled(e[1], e[2])
        /\ UNCHANGED <<event, outcome>>

\* invoke_store_header_state, and invoke_update_header_state_2, _5 and _6.
MatchHeader == OnTrie /\
    \E t \in {header_field, header_value_connection} : \E e \in t.match :
        /\ At(e[1]) /\ Sends(e[2]) /\ Finds
        /\ parser' = [parser EXCEPT
                         !.index = 0, !.header_state = e[3],
                         !.current = IF t = header_field
                                     THEN "header_field_colon"
                                     ELSE "header_value_connection_ws"]
        /\ sent' = Spelled(e[1], e[2])
        /\ UNCHANGED <<event, outcome>>

\* kMatchPause: the piece ends inside a sequence, _index is kept.
MatchPause_forgets == OnTrie /\
    \E e \in Texts :
        /\ At(e[1]) /\ half = 0 /\ Len(e[2]) > 1
        /\ look \in {NoChar, First(e[2])}
        /\ look' = NoChar /\ half' = 1
        /\ UNCHANGED <<parser, sent, event, outcome>>
MatchPause == OnTrie /\
    \E e \in Texts :
        /\ At(e[1]) /\ half = 0 /\ Len(e[2]) > 1
        /\ look \in {NoChar, First(e[2])}
        /\ look' = NoChar /\ half' = 1
        /\ parser' = [parser EXCEPT !.index = 1]
        /\ UNCHANGED <<sent, event, outcome>>

\* Where a word that is not found leads.
Miss(n) ==
    IF n \in MethodNodes \ Nodes(req_or_res_method) THEN "INVALID_METHOD"
    ELSE IF n \in Nodes(header_field) THEN "invoke_update_header_state_10"
    ELSE IF n \in Nodes(header_value_connection)
         THEN "header_value_connection_token"
    ELSE IF n \in Nodes(header_value_te_chunked) THEN "header_value_te_token"
    ELSE "INVALID_CONSTANT"

\* kMatchMismatch and the defaults.  Nothing matches the rest of a word
\* whose _index was lost.
Mismatch ==
    LET n == parser.current
    IN  /\ At(n) /\ n \in TrieNodes /\ n # "start_req_16"
        /\ parser' = [parser EXCEPT !.current = Miss(n), !.index = 0]
        /\ half' = 0
        /\ \/ /\ \E c \in Offered :
                    /\ n \in DOMAIN CharNodes => c \notin DOMAIN CharNodes[n]
                    /\ look' = Left(c, Miss(n))
              /\ sent' = [sent EXCEPT !.field = "other"]
           \/ /\ ~Finds /\ look' = NoChar
              /\ \E e \in Texts :
                    e[1] = n /\ sent' = Spelled(n, e[2])
        /\ UNCHANGED <<event, outcome>>

-----------------------------------------------------------------------------
(* Digits.  The parser may be about to read the first of them.             *)

Digit == look \in {NoChar, "Digit"} /\ look' = NoChar

\* llparse's mul_add: the multiplication or the addition overflows.
Overflows_uncheckedSum(base, v, d) == v > LengthMax \div base
Overflows(base, v, d) ==
    v > LengthMax \div base \/ v * base > LengthMax - d
MulAdd(base, v, d) == (v * base + d) % (LengthMax + 1)

\* invoke_store_http_major(_1) and invoke_store_http_minor(_1).
StoreMajor ==
    \E d \in VersionDigits :
        LET to == [req_http_major |-> "req_http_dot",
                   res_http_major |-> "res_http_dot"]
        IN  /\ parser.current \in DOMAIN to /\ At(parser.current) /\ Digit
            /\ parser' = [parser EXCEPT !.http_major = d,
                                        !.current = to[parser.current]]
            /\ sent' = [sent EXCEPT !.major = d]
            /\ UNCHANGED <<half, event, outcome>>
StoreMinor ==
    \E d \in VersionDigits :
        LET to == [req_http_minor |-> "req_http_end",
                   res_http_minor |-> "res_http_end"]
        IN  /\ parser.current \in DOMAIN to /\ At(parser.current) /\ Digit
            /\ parser' = [parser EXCEPT !.http_minor = d,
                                        !.current = to[parser.current]]
            /\ sent' = [sent EXCEPT !.minor = d]
            /\ UNCHANGED <<half, event, outcome>>

\* invoke_mul_add_status_code: no more than three digits.
StatusDigit ==
    \E d \in StatusDigits :
        LET code == parser.status_code * 10 + d
        IN  /\ At("res_status_code") /\ FollowedCode(code) /\ Digit
            /\ parser' = [parser EXCEPT
                             !.status_code = code,
                             !.current = IF code > 999 THEN "INVALID_STATUS"
                                                       ELSE @]
            /\ sent' = [sent EXCEPT !.code = @ * 10 + d]
            /\ UNCHANGED <<half, event, outcome>>

\* invoke_mul_add_content_length_1.  A Content-Length of the trailer
\* declares nothing.  (Bound: no digit follows a length that is too large.)
LengthDigit ==
    \E d \in LengthDigits :
        /\ At("header_value_content_length") /\ Digit
        /\ sent.length <= LengthMax
        /\ parser' = IF Overflows(10, parser.content_length, d)
                     THEN [parser EXCEPT
                              !.current = "span_end_on_header_value_4"]
                     ELSE [parser EXCEPT
                              !.content_length = MulAdd(10, @, d)]
        /\ sent' = IF "TRAILING" \in parser.flags THEN sent
                   ELSE [sent EXCEPT !.length = @ * 10 + d]
        /\ UNCHANGED <<half, event, outcome>>

\* invoke_mul_add_content_length.
ChunkDigit ==
    \E d \in ChunkDigits :
        /\ At("chunk_size_digit") \/ At("chunk_size")
        /\ Digit
        /\ parser' = IF Overflows(16, parser.content_length, d)
                     THEN [parser EXCEPT !.current = "INVALID_CHUNK_SIZE"]
                     ELSE [parser EXCEPT !.current = "chunk_size",
                              !.content_length = MulAdd(16, @, d)]
        /\ sent' = [sent EXCEPT !.length = @ * 16 + d]
        /\ UNCHANGED <<half, event, outcome>>

-----------------------------------------------------------------------------
(* Callbacks.  One that is called twice in a row with no data is an event  *)
(* of its own, so that no property takes the two for one.                  *)

Data   == {"on_url", "on_status", "on_header_field", "on_header_value",
           "on_body"}
Called(cb) == IF cb = event /\ cb \notin Data THEN "repeated" ELSE cb

\* Callbacks that may pause the parser at the state that comes next, or
\* fail with a code.
Pausing(cb, next, code) == [cb |-> cb, next |-> next, code |-> code]
Complete(next) == Pausing("on_message_complete", next, "CB_MESSAGE_COMPLETE")
TrailerComplete_again ==
    Pausing("on_chunk_complete", "invoke_on_chunk_complete_1",
            "CB_CHUNK_COMPLETE")
TrailerComplete ==
    Pausing("on_chunk_complete", "invoke_on_message_complete_2",
            "CB_CHUNK_COMPLETE")
PausingNodes ==
    [invoke_on_message_begin |->
         Pausing("on_message_begin", "invoke_load_type", "CB_MESSAGE_BEGIN"),
     invoke_on_message_complete   |-> Complete("invoke_after_message_complete"),
     invoke_on_message_complete_1 |-> Complete("pause_1"),
     invoke_on_message_complete_2 |-> Complete("invoke_is_equal_upgrade"),
     invoke_on_chunk_header |->
         Pausing("on_chunk_header", "invoke_is_equal_content_length",
                 "CB_CHUNK_HEADER"),
     invoke_on_chunk_complete |->
         Pausing("on_chunk_complete", "invoke_update_content_length",
                 "CB_CHUNK_COMPLETE"),
     invoke_on_chunk_complete_1 |-> TrailerComplete]

Callback ==
    LET n == parser.current
    IN  /\ At(n) /\ n \in DOMAIN PausingNodes
        /\ event' = Called(PausingNodes[n].cb)
        /\ \E err \in {"OK", "PAUSED", PausingNodes[n].code} :
              parser' = [parser EXCEPT !.error = err,
                            !.current = IF err = PausingNodes[n].code
                                        THEN "s_error"
                                        ELSE PausingNodes[n].next]
        /\ sent' = IF n = "invoke_on_message_begin"
                   THEN [NewMessage EXCEPT
                            !.leftover = parser.content_length # 0,
                            !.nth = sent.nth + 1]
                   ELSE sent
        /\ UNCHANGED <<look, half, outcome>>

\* Callbacks whose result the parser ignores.
IgnoringNodes ==
    [invoke_on_url_complete |->
         [cb |-> "on_url_complete", next |-> "header_field_start"],
     invoke_on_url_complete_1 |->
         [cb |-> "on_url_complete", next |-> "req_http_start"],
     invoke_on_status_complete |->
         [cb |-> "on_status_complete", next |-> "header_field_start"],
     invoke_on_header_field_complete |->
         [cb |-> "on_header_field_complete",
          next |-> "header_value_discard_ws"],
     invoke_on_header_value_complete |->
         [cb |-> "on_header_value_complete", next |-> "header_field_start"]]

IgnoringCallback ==
    LET n == parser.current
    IN  /\ At(n) /\ n \in DOMAIN IgnoringNodes
        /\ event' = Called(IgnoringNodes[n].cb)
        /\ parser' = [parser EXCEPT !.current = IgnoringNodes[n].next]
        /\ UNCHANGED <<look, half, sent, outcome>>

-----------------------------------------------------------------------------
(* Spans: runs of characters that are handed to the user in as many calls  *)
(* as there are pieces.                                                    *)

\* Where a span starts.
SpanStarts ==
    [span_start_on_url |-> [cb |-> "on_url", next |-> "url_server"],
     span_start_on_url_1 |-> [cb |-> "on_url", next |-> "url_start"],
     span_start_on_status |-> [cb |-> "on_status", next |-> "res_status"],
     span_start_on_header_field |->
         [cb |-> "on_header_field", next |-> "header_field"],
     span_start_on_header_value |->
         [cb |-> "on_header_value", next |-> "span_end_on_header_value"],
     span_start_on_header_value_1 |->
         [cb |-> "on_header_value", next |-> "invoke_load_header_state_2"],
     span_start_on_body |->
         [cb |-> "on_body", next |-> "consume_content_length"],
     span_start_on_body_1 |->
         [cb |-> "on_body", next |-> "consume_content_length_1"],
     span_start_on_body_2 |-> [cb |-> "on_body", next |-> "eof"]]

\* What a span says of the message: a field begins, or one that is not in
\* the trailer has a value.
Spanned(n) ==
    IF n = "span_start_on_header_field"
    THEN [sent EXCEPT !.field = NoText, !.fields = @ + 1]
    ELSE IF n # "span_start_on_header_value_1" \/ "TRAILING" \in parser.flags
    THEN sent
    ELSE [sent EXCEPT !.cl = @ \/ sent.field = "content-length",
                      !.te = @ \/ sent.field = "transfer-encoding"]

\* A span starts when there is a character; which one a body starts with
\* makes no difference.
SpanStart ==
    LET n == parser.current
    IN  /\ At(n) /\ n \in DOMAIN SpanStarts
        /\ parser' = [parser EXCEPT !.span = SpanStarts[n].cb,
                                    !.current = SpanStarts[n].next]
        /\ look' = IF look = NoChar THEN "Alpha" ELSE look
        /\ sent' = Spanned(n)
        /\ UNCHANGED <<half, event, outcome>>

\* The end of a span: the state that comes next, and whether the character
\* after the span is consumed.
SpanEnds ==
    [span_end_on_url   |-> [next |-> "url_skip_to_http09", eat |-> FALSE],
     span_end_on_url_1 |-> [next |-> "url_skip_lf_to_http09", eat |-> FALSE],
     span_end_on_url_2 |-> [next |-> "url_skip_to_http", eat |-> FALSE],
     span_end_on_status |->
         [next |-> "invoke_on_status_complete", eat |-> TRUE],
     span_end_on_status_1 |-> [next |-> "res_line_almost_done", eat |-> TRUE],
     span_end_on_header_field |->
         [next |-> "header_value_discard_ws", eat |-> TRUE],
     span_end_on_header_field_1 |->
         [next |-> "invoke_on_header_field_complete", eat |-> TRUE],
     span_end_on_header_value |->
         [next |-> "header_field_start", eat |-> FALSE],
     span_end_on_header_value_1 |->
         [next |-> "header_value_almost_done", eat |-> FALSE],
     span_end_on_header_value_2 |->
         [next |-> "header_value_almost_done", eat |-> TRUE],
     span_end_on_header_value_4 |->
         [next |-> "INVALID_CONTENT_LENGTH", eat |-> FALSE],
     span_end_on_header_value_5 |->
         [next |-> "INVALID_CONTENT_LENGTH", eat |-> FALSE],
     span_end_on_body   |-> [next |-> "chunk_data_almost_done", eat |-> FALSE],
     span_end_on_body_1 |->
         [next |-> "invoke_on_message_complete_2", eat |-> FALSE]]

\* What the callback of a span may return.
Results == {"OK", "PAUSED", "USER"}

SpanEnd ==
    LET n == parser.current
    IN  /\ At(n) /\ n \in DOMAIN SpanEnds
        /\ event' = Called(parser.span)
        /\ \E err \in Results :
              parser' = [parser EXCEPT !.span = "none", !.error = err,
                                       !.current = SpanEnds[n].next]
        /\ look' = IF SpanEnds[n].eat THEN NoChar ELSE look
        /\ UNCHANGED <<half, sent, outcome>>

\* p == endp, in a state that needs a character.
WaitingNodes ==
    DOMAIN CharNodes \cup TrieNodes
    \cup {"consume_content_length", "consume_content_length_1",
          "span_start_on_body", "span_start_on_body_1",
          "span_start_on_body_2"}
Waiting == look = NoChar /\ parser.current \in WaitingNodes

\* The end of llhttp__internal_execute(): the open span is handed out.
ExecuteReturns ==
    /\ At(parser.current) /\ Waiting
    /\ parser.span # "none"
    /\ event' = Called(parser.span)
    /\ \E err \in Results : parser' = [parser EXCEPT !.error = err]
    /\ UNCHANGED <<look, half, sent, outcome>>

\* The body or the chunk is taken from the piece, in part or to its end.
Consume ==
    \E k \in 1 .. parser.content_length :
        LET ends == [consume_content_length   |-> "span_end_on_body",
                     consume_content_length_1 |-> "span_end_on_body_1"]
        IN  /\ parser.current \in DOMAIN ends /\ At(parser.current)
            /\ parser' = [parser EXCEPT
                             !.content_length = @ - k,
                             !.current = IF k = parser.content_length
                                         THEN ends[@] ELSE @]
            /\ sent' = [sent EXCEPT !.delivered = @ + k]
            /\ look' = NoChar
            /\ UNCHANGED <<half, event, outcome>>

-----------------------------------------------------------------------------
(* Assignments and tests.                                                  *)

\* A status code is read from its first digit on.
update_status_code_forgotten == [current |-> "res_status_code"]
update_status_code == [status_code |-> 0, current |-> "res_status_code"]

\* States that assign some fields of the parser and go on.
Updates ==
    [invoke_update_finish |->
         [finish |-> "UNSAFE", current |-> "invoke_on_message_begin"],
     invoke_update_type_1 |->
         [type |-> "RESPONSE", current |-> "res_http_major"],
     invoke_update_type_2 |-> [type |-> "REQUEST", current |-> "start_req"],
     invoke_update_http_major |-> [http_major |-> 0, http_minor |-> 9,
                                   current |-> "invoke_on_url_complete"],
     invoke_update_status_code |-> update_status_code,
     invoke_update_header_state_10 |->
         [header_state |-> 0, current |-> "header_field_general"],
     invoke_update_header_state_4 |->
         [header_state |-> 0, current |-> "header_value_connection_token"],
     invoke_update_header_state_7 |->
         [header_state |-> 8, current |-> "header_value_otherwise"],
     invoke_update_header_state_8 |->
         [header_state |-> 0, current |-> "header_value"],
     invoke_after_message_complete |->
         [finish |-> "SAFE", flags |-> {}, current |-> "start"]]

Update ==
    LET n == parser.current
    IN  /\ At(n) /\ n \in DOMAIN Updates
        /\ parser' = [f \in DOMAIN parser |->
                         IF f \in DOMAIN Updates[n] THEN Updates[n][f]
                                                    ELSE parser[f]]
        /\ UNCHANGED <<look, half, sent, event, outcome>>

\* The start of a chunk.
UpdateContentLength ==
    /\ At("invoke_update_content_length")
    /\ parser' = [parser EXCEPT !.content_length = 0,
                                !.current = "chunk_size_digit"]
    /\ sent' = [sent EXCEPT !.length = 0, !.delivered = 0]
    /\ UNCHANGED <<look, half, event, outcome>>

\* llhttp_message_needs_eof().
llhttp_message_needs_eof ==
    /\ parser.type # "REQUEST"
    /\ parser.status_code \div 100 # 1
    /\ parser.status_code \notin {204, 304}
    /\ "SKIPBODY" \notin parser.flags
    /\ \/ "TRANSFER_ENCODING" \in parser.flags /\ "CHUNKED" \notin parser.flags
       \/ parser.flags \cap {"CHUNKED", "CONTENT_LENGTH"} = {}

\* llhttp__after_headers_complete().
llhttp__after_headers_complete ==
    LET has(f) == f \in parser.flags
        hasBody == has("CHUNKED") \/ parser.content_length > 0
    IN  CASE parser.upgrade /\ (\/ parser.method = HTTP_CONNECT
                                \/ has("SKIPBODY") \/ ~hasBody) -> 1
          [] OTHER ->
             IF has("SKIPBODY") THEN 0
             ELSE IF has("CHUNKED") THEN 2
             ELSE IF has("TRANSFER_ENCODING")
                  THEN IF parser.type = "REQUEST" THEN 5 ELSE 4
             ELSE IF ~has("CONTENT_LENGTH")
                  THEN IF llhttp_message_needs_eof THEN 4 ELSE 0
             ELSE IF parser.content_length = 0 THEN 0 ELSE 3

\* States that test the parser and go on.
TestNodes ==
    {"invoke_load_type", "invoke_is_equal_method", "invoke_load_method",
     "invoke_load_method_1", "invoke_load_method_2",
     "invoke_is_equal_upgrade", "invoke_is_equal_content_length",
     "invoke_test_flags", "invoke_after_headers_complete"}
Tests ==
    LET if(test, yes, no) == IF test THEN yes ELSE no
        method(allowed) ==
            if(parser.method \in allowed, "req_http_major", "INVALID_CONSTANT")
    IN  [invoke_load_type |->
             if(parser.type = "REQUEST", "start_req",
                if(parser.type = "RESPONSE", "start_res", "start_req_or_res")),
         invoke_is_equal_method |-> if(parser.method = HTTP_CONNECT,
                                       "span_start_on_url",
                                       "span_start_on_url_1"),
         invoke_load_method   |-> method(HttpMethods),
         invoke_load_method_1 |-> method(IceMethods),
         invoke_load_method_2 |-> method(RtspMethods),
         invoke_is_equal_upgrade |-> if(parser.upgrade, "pause_1",
                                        "invoke_after_message_complete"),
         invoke_is_equal_content_length |->
             if(parser.content_length = 0, "invoke_or_flags",
                "span_start_on_body"),
         invoke_test_flags |->
             if("TRAILING" \in parser.flags, "invoke_on_chunk_complete_1",
                if({"CONTENT_LENGTH", "TRANSFER_ENCODING"}
                       \subseteq parser.flags,
                   "UNEXPECTED_CONTENT_LENGTH",
                   "invoke_before_headers_complete")),
         invoke_after_headers_complete |->
             <<"invoke_on_message_complete", "invoke_on_message_complete_1",
               "invoke_update_content_length", "span_start_on_body_1",
               "invoke_update_finish_2", "INVALID_TRANSFER_ENCODING">>
                 [llhttp__after_headers_complete + 1]]

Test ==
    LET n == parser.current
    IN  /\ At(n) /\ n \in TestNodes
        /\ parser' = [parser EXCEPT !.current = Tests[n]]
        /\ UNCHANGED <<look, half, sent, event, outcome>>

-----------------------------------------------------------------------------
(* The header fields that are read: header_state remembers what a field    *)
(* or the last token of its value was until the value ends, and becomes a  *)
(* flag then.                                                              *)

TokenFlags ==
    [hs \in 5 .. 8 |-> CASE hs = 5 -> "CONNECTION_KEEP_ALIVE"
                         [] hs = 6 -> "CONNECTION_CLOSE"
                         [] hs = 7 -> "CONNECTION_UPGRADE"
                         [] hs = 8 -> "CHUNKED"]

\* invoke_load_header_state at the end of a value that goes on in no other
\* line, _3 at the end of a value and _4 between two tokens.
LoadHeaderState ==
    LET n    == parser.current
        hs   == parser.header_state
        next == [invoke_load_header_state   |-> "span_start_on_header_value",
                 invoke_load_header_state_3 |->
                     "invoke_on_header_value_complete",
                 invoke_load_header_state_4 |-> "header_value_connection"]
    IN  /\ At(n) /\ n \in DOMAIN next
        /\ parser' =
             [parser EXCEPT
                 !.current = IF n = "invoke_load_header_state" /\ hs = 2
                             THEN "INVALID_CONTENT_LENGTH" ELSE next[n],
                 !.flags = IF hs \in DOMAIN TokenFlags
                           THEN @ \cup {TokenFlags[hs]} ELSE @,
                 !.header_state = IF hs \in 5 .. 7 THEN 1 ELSE @]
        /\ UNCHANGED <<look, half, sent, event, outcome>>

\* invoke_load_header_state_2: a value begins.
BeginValue ==
    LET goto(n) == parser' = [parser EXCEPT !.current = n]
        or(f, n) == parser' = [parser EXCEPT !.flags = @ \cup {f},
                                             !.current = n]
    IN  /\ At("invoke_load_header_state_2")
        /\ CASE parser.header_state = 1 -> goto("header_value_connection")
             [] parser.header_state = 2 ->
                    IF "CONTENT_LENGTH" \in parser.flags
                    THEN goto("UNEXPECTED_CONTENT_LENGTH")
                    ELSE goto("header_value_content_length")
             [] parser.header_state = 3 ->
                    or("TRANSFER_ENCODING", "header_value_te_chunked")
             [] parser.header_state = 4 ->
                    or("UPGRADE", "invoke_update_header_state_8")
             [] OTHER -> goto("header_value")
        /\ UNCHANGED <<look, half, sent, event, outcome>>

\* invoke_or_flags_15: a Content-Length is complete.  invoke_or_flags: the
\* last chunk, the fields that follow are the trailer.
OrFlags ==
    LET n  == parser.current
        or == [invoke_or_flags    |-> <<"TRAILING", "header_field_start">>,
               invoke_or_flags_15 |->
                   <<"CONTENT_LENGTH", "header_value_otherwise">>]
    IN  /\ At(n) /\ n \in DOMAIN or
        /\ parser' = [parser EXCEPT !.flags = @ \cup {or[n][1]},
                                    !.current = or[n][2]]
        /\ UNCHANGED <<look, half, sent, event, outcome>>

\* llhttp__before_headers_complete(): whether the message asks for another
\* protocol.
llhttp__before_headers_complete ==
    IF {"UPGRADE", "CONNECTION_UPGRADE"} \subseteq parser.flags
    THEN parser.type = "REQUEST" \/ parser.status_code = 101
    ELSE parser.method = HTTP_CONNECT

\* Then the callback, whose result may say that there is no body (1) or
\* another protocol (2).
HeadersComplete ==
    LET p == [parser EXCEPT !.upgrade = llhttp__before_headers_complete,
                            !.current = "invoke_after_headers_complete"]
    IN  /\ At("invoke_before_headers_complete")
        /\ event' = Called("on_headers_complete")
        /\ parser' \in
             {p, [p EXCEPT !.flags = @ \cup {"SKIPBODY"}],
              [p EXCEPT !.upgrade = TRUE, !.flags = @ \cup {"SKIPBODY"}],
              [p EXCEPT !.error = "PAUSED"],
              [p EXCEPT !.error = "CB_HEADERS_COMPLETE",
                        !.current = "s_error"]}
        /\ UNCHANGED <<look, half, sent, outcome>>

\* A body that lasts until the end of the stream.
UpdateFinish2 ==
    /\ At("invoke_update_finish_2")
    /\ parser' = [parser EXCEPT !.finish = "SAFE_WITH_CB",
                                !.current = "span_start_on_body_2"]
    /\ UNCHANGED <<look, half, sent, event, outcome>>

\* The message was the last one of HTTP.
PauseUpgrade ==
    /\ At("pause_1")
    /\ parser' = [parser EXCEPT !.error = "PAUSED_UPGRADE",
                                !.current = "invoke_after_message_complete"]
    /\ UNCHANGED <<look, half, sent, event, outcome>>

-----------------------------------------------------------------------------
(* The user's calls between two pieces.                                    *)

\* llhttp_resume() and llhttp_resume_after_upgrade(); the user goes on with
\* the character that llhttp_get_error_pos() names.
Resume ==
    /\ outcome = "open" /\ parser.error \in {"PAUSED", "PAUSED_UPGRADE"}
    /\ parser' = [parser EXCEPT !.error = "OK"]
    /\ UNCHANGED <<look, half, sent, event, outcome>>

\* llhttp_pause().
Pause ==
    /\ At(parser.current) /\ Waiting
    /\ parser' = [parser EXCEPT !.error = "PAUSED"]
    /\ UNCHANGED <<look, half, sent, event, outcome>>

\* llhttp_finish().  The connection is over, and with it the parser: only
\* the error is kept.
Finish ==
    /\ outcome = "open"
    /\ parser.error # "OK" \/ Waiting
    /\ \/ /\ parser.error # "OK" \/ parser.finish = "SAFE"
          /\ outcome' = "OK" /\ UNCHANGED event
       \/ /\ parser.error = "OK" /\ parser.finish = "SAFE_WITH_CB"
          /\ event' = Called("on_message_complete")
          /\ outcome' \in Results
       \/ /\ parser.error = "OK" /\ parser.finish = "UNSAFE"
          /\ outcome' = "INVALID_EOF_STATE" /\ UNCHANGED event
    /\ parser' = [llhttp_init EXCEPT !.error = parser.error]
    /\ look' = NoChar /\ half' = 0 /\ sent' = NewMessage

Next ==
    \/ ReadChar \/ Fail
    \/ MatchNext \/ MatchMethod \/ MatchHeader \/ MatchPause \/ Mismatch
    \/ StoreMajor \/ StoreMinor \/ StatusDigit \/ LengthDigit \/ ChunkDigit
    \/ Callback \/ IgnoringCallback
    \/ SpanStart \/ SpanEnd \/ ExecuteReturns \/ Consume
    \/ Update \/ UpdateContentLength \/ Test
    \/ LoadHeaderState \/ BeginValue \/ OrFlags \/ HeadersComplete
    \/ UpdateFinish2 \/ PauseUpgrade
    \/ Resume \/ Pause \/ Finish

Spec == Init /\ [][Next]_vars

-----------------------------------------------------------------------------
(* Properties.                                                             *)

\* When the header of a message is complete, the method, the version and the
\* status code that the user finds in the parser are those of the message
\* that was sent, however the text was cut into pieces and whatever an
\* earlier message of the connection left there.
StartLineMatches ==
    event = "on_headers_complete" /\ outcome = "open" =>
        /\ parser.http_major = sent.major /\ parser.http_minor = sent.minor
        /\ IF parser.type = "REQUEST"
           THEN llhttp_method_name(parser.method) = sent.word
           ELSE parser.status_code = sent.code

\* The user gets as many bytes as were declared: of a chunk when it is
\* complete, and of a body with a Content-Length when the message is; except
\* for CONNECT, for a body that the user said is not there, and after a
\* message that left a length behind.
ChunkDone   == event = "on_chunk_complete"
               /\ parser.current \in {"invoke_update_content_length",
                                      "invoke_on_message_complete_2"}
MessageDone == event = "on_message_complete"
               /\ parser.current \in {"invoke_after_message_complete",
                                      "invoke_is_equal_upgrade"}
DeclaredLength == sent.cl /\ ~sent.leftover /\ parser.method # HTTP_CONNECT
                  /\ "SKIPBODY" \notin parser.flags
BodyAsDeclared ==
    ChunkDone \/ (MessageDone /\ DeclaredLength) =>
        sent.delivered = sent.length

\* A message that declares its length by a Content-Length and by a
\* Transfer-Encoding gets no further than its header: on_headers_complete()
\* and what follows it are never called for it.
LengthUnambiguous ==
    sent.cl /\ sent.te =>
        event \notin {"on_headers_complete", "on_chunk_header", "on_body",
                      "on_chunk_complete", "on_message_complete"}

\* The callbacks come in the order of the parts of a message, none of them
\* twice, across pieces, pauses and errors; llhttp_finish() finds nothing
\* wrong between messages and reports a head or a trailer that was begun as
\* cut off: the parser implements HttpEvents.tla.
BodyEvents == {"on_headers_complete", "on_chunk_header", "on_body",
               "on_chunk_complete", "on_message_complete"}
Events ==
    INSTANCE HttpEvents WITH
        Pauses <- {"PAUSED", "PAUSED_UPGRADE"},
        Errors <- Codes \cup {"PAUSED", "PAUSED_UPGRADE", "USER",
                              "CB_MESSAGE_BEGIN", "CB_HEADERS_COMPLETE",
                              "CB_MESSAGE_COMPLETE", "CB_CHUNK_HEADER",
                              "CB_CHUNK_COMPLETE"},
        part <- IF event \in BodyEvents THEN "body"
                ELSE IF "TRAILING" \in parser.flags THEN "trailer"
                ELSE "head",
        error <- parser.error
RefinesEvents == Events!Spec
=============================================================================
