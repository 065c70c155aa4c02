---------------------------- MODULE LlhttpProofs -----------------------------
(***************************************************************************)
(* Proofs about Llhttp, for every alphabet of headers, every bound on what *)
(* the peer sends and every width of content_length: the callbacks come in *)
(* the order that HttpEvents.tla allows, a message whose length is         *)
(* ambiguous gets no further than its header, the body has the length that *)
(* was declared, and the start line is the one that was sent.              *)
(***************************************************************************)
EXTENDS Llhttp, TLAPS

-----------------------------------------------------------------------------
(* The states, grouped by what the parser has read of a message.           *)

Between     == {"start", "invoke_update_finish", "invoke_on_message_begin"}
Typing      == {"invoke_load_type", "start_req_or_res", "invoke_update_type_2"}
MethodRead  == {"req_first_space_before_url", "req_spaces_before_url",
                "invoke_is_equal_method", "span_start_on_url",
                "span_start_on_url_1"}
UrlText     == {"url_start", "url_schema", "url_schema_delim",
                "url_schema_delim_1", "url_server", "url_server_with_at",
                "url_path", "url_query_or_fragment", "url_query",
                "url_fragment", "span_end_on_url", "span_end_on_url_1",
                "span_end_on_url_2"}
UrlRead     == {"url_skip_to_http", "url_skip_to_http09",
                "url_skip_lf_to_http09", "url_skip_lf_to_http09_LF",
                "invoke_update_http_major", "invoke_on_url_complete_1"}
NoVersion   == {"invoke_on_url_complete"}
ReqProtocol == {"req_http_start", "req_http_start_1", "req_http_start_2",
                "req_http_start_3", "invoke_load_method",
                "invoke_load_method_1", "invoke_load_method_2",
                "req_http_major"}
ReqMinor    == {"req_http_dot", "req_http_minor"}
ReqEnd      == {"req_http_end", "req_http_end_1"}
ResProtocol == {"start_res", "invoke_update_type_1", "res_http_major"}
ResMinor    == {"res_http_dot", "res_http_minor"}
ResEnd      == {"res_http_end", "invoke_update_status_code"}
StatusCode  == {"res_status_code", "res_status_code_otherwise",
                "res_status_start", "span_start_on_status"}
StatusText  == {"res_status", "span_end_on_status", "span_end_on_status_1"}
StatusRead  == {"res_line_almost_done", "invoke_on_status_complete"}

FieldStart   == {"header_field_start", "span_start_on_header_field",
                 "headers_almost_done", "invoke_test_flags"}
FieldWord    == {"header_field", "header_field_1", "header_field_2",
                 "header_field_3", "header_field_4", "header_field_5",
                 "header_field_6", "header_field_7"}
FieldColon   == {"header_field_colon", "span_end_on_header_field"}
FieldGeneral == {"invoke_update_header_state_10", "header_field_general",
                 "header_field_general_otherwise"}
FieldOther   == {"span_end_on_header_field_1"}
FieldText    == FieldWord \cup FieldColon \cup FieldGeneral \cup FieldOther
FieldRead    == {"invoke_on_header_field_complete"}
ValueStart   == {"header_value_discard_ws",
                 "header_value_discard_ws_almost_done",
                 "header_value_discard_lws", "invoke_load_header_state",
                 "span_start_on_header_value", "span_start_on_header_value_1"}
ValueKind    == {"invoke_load_header_state_2"}
ConnectionValue ==
    {"header_value_connection", "header_value_connection_1",
     "header_value_connection_2", "header_value_connection_3",
     "header_value_connection_ws", "header_value_connection_token",
     "invoke_load_header_state_4", "invoke_update_header_state_4"}
LengthValue  == {"header_value_content_length",
                 "header_value_content_length_ws", "invoke_or_flags_15",
                 "span_end_on_header_value_5"}
LengthBad    == {"span_end_on_header_value_4"}
EncodingValue ==
    {"header_value_te_chunked", "header_value_te_chunked_last",
     "header_value_te_token", "header_value_te_token_ows",
     "invoke_update_header_state_7", "invoke_update_header_state_8"}
ValueEnd     == {"header_value", "header_value_otherwise",
                 "span_end_on_header_value", "span_end_on_header_value_1",
                 "span_end_on_header_value_2"}
ValueText    == ValueKind \cup ConnectionValue \cup LengthValue
                \cup LengthBad \cup EncodingValue \cup ValueEnd
ValueRead    == {"header_value_almost_done", "header_value_lws",
                 "invoke_load_header_state_3",
                 "invoke_on_header_value_complete"}
HeadDone     == {"invoke_before_headers_complete"}
HeadReported == {"invoke_after_headers_complete"}

ChunkStart  == {"invoke_update_content_length"}
ChunkSize   == {"chunk_size_digit", "chunk_size", "chunk_size_otherwise",
                "chunk_parameters", "chunk_size_almost_done",
                "invoke_on_chunk_header"}
ChunkSized  == {"invoke_is_equal_content_length", "span_start_on_body"}
LastChunk   == {"invoke_or_flags"}
ChunkText   == {"consume_content_length", "span_end_on_body"}
ChunkRead   == {"chunk_data_almost_done", "chunk_data_almost_done_skip",
                "invoke_on_chunk_complete"}
TrailerRead == {"invoke_on_chunk_complete_1"}
BodyStart   == {"span_start_on_body_1"}
BodyText    == {"consume_content_length_1", "span_end_on_body_1"}
BodyRead    == {"invoke_on_message_complete_2"}
EofStart    == {"invoke_update_finish_2"}
EofText     == {"span_start_on_body_2", "eof"}
NoBody      == {"invoke_on_message_complete", "invoke_on_message_complete_1"}
MessageEnd  == {"pause_1", "invoke_is_equal_upgrade",
                "invoke_after_message_complete"}

\* The start line, without the trie of the methods.
LineStart  == Typing \cup MethodRead \cup ResProtocol \cup ResMinor
              \cup ResEnd \cup StatusCode
ReqVersion == ReqProtocol \cup ReqMinor \cup ReqEnd
LineRest   == LineStart \cup UrlText \cup UrlRead \cup NoVersion
              \cup ReqVersion \cup StatusText \cup StatusRead
Line0      == MethodNodes \cup LineRest
Header == FieldStart \cup FieldText \cup FieldRead \cup ValueStart
          \cup ValueText \cup ValueRead
Chunk == ChunkStart \cup ChunkSize \cup ChunkSized \cup LastChunk
         \cup ChunkText \cup ChunkRead
Body  == Chunk \cup TrailerRead \cup BodyStart \cup BodyText \cup BodyRead
         \cup EofStart \cup EofText \cup NoBody \cup MessageEnd

\* All states but the nodes of the method tries, the errors included.
Others == Between \cup LineRest \cup Header \cup HeadDone \cup HeadReported
          \cup Body \cup Codes \cup {"s_error"}

-----------------------------------------------------------------------------
(* The inductive invariant.                                                *)

Trailing == "TRAILING" \in parser.flags

ParserFields == {"current", "index", "span", "error", "content_length", "type",
                 "method", "http_major", "http_minor", "header_state",
                 "upgrade", "finish", "flags", "status_code"}
SentFields == {"word", "field", "major", "minor", "code", "cl", "te",
               "length", "delivered", "fields", "leftover", "nth"}

TypeOK ==
    /\ DOMAIN parser = ParserFields /\ DOMAIN sent = SentFields
    /\ parser.content_length \in Nat
    /\ sent.length \in Nat /\ sent.delivered \in Nat

\* _index is where the peer is in its word; a word is cut only where one is
\* being matched, and never after "GET", which is followed by one letter.
IndexKept ==
    /\ half = parser.index /\ half \in {0, 1}
    /\ half = 1 => /\ parser.current \in TrieNodes
                   /\ parser.current \notin DOMAIN CharNodes \cup {"start_req_16"}

\* In each state, the callback that was called last, the span that is open,
\* and whether the fields are those of the trailer.
EventAt(nodes, events, span) ==
    parser.current \in nodes => event \in events /\ parser.span = span
LineEvents  == {"on_url_complete", "on_status_complete"}
ValueEvents == {"on_header_value", "on_header_value_complete"}
StartEvents == IF Trailing THEN {"on_chunk_header"} \cup ValueEvents
               ELSE LineEvents \cup ValueEvents

LinePhases ==
    /\ EventAt(Between, {"none", "on_message_complete"}, "none")
    /\ EventAt(MethodNodes \cup LineStart, {"on_message_begin"}, "none")
    /\ EventAt(UrlText, {"on_message_begin", "on_url"}, "on_url")
    /\ EventAt(UrlRead \cup NoVersion, {"on_url"}, "none")
    /\ EventAt(ReqVersion, {"on_url_complete"}, "none")
    /\ EventAt(StatusText, {"on_message_begin", "on_status"}, "on_status")
    /\ EventAt(StatusRead, {"on_message_begin", "on_status"}, "none")
HeaderPhases ==
    /\ EventAt(FieldStart, StartEvents, "none")
    /\ EventAt(FieldText, StartEvents \cup {"on_header_field"},
               "on_header_field")
    /\ EventAt(FieldRead, {"on_header_field"}, "none")
    /\ EventAt(ValueStart, {"on_header_field", "on_header_field_complete",
                            "on_header_value"}, "none")
    /\ EventAt(ValueText, {"on_header_field", "on_header_field_complete",
                           "on_header_value"}, "on_header_value")
    /\ EventAt(ValueRead, {"on_header_value"}, "none")
    /\ EventAt(HeadDone, LineEvents \cup ValueEvents, "none")
    /\ EventAt(HeadReported, {"on_headers_complete"}, "none")
BodyPhases ==
    /\ EventAt(ChunkStart \cup ChunkSize,
               {"on_headers_complete", "on_chunk_complete"}, "none")
    /\ EventAt(ChunkSized \cup LastChunk, {"on_chunk_header"}, "none")
    /\ EventAt(ChunkText, {"on_chunk_header", "on_body"}, "on_body")
    /\ EventAt(ChunkRead, {"on_body"}, "none")
    /\ EventAt(TrailerRead, {"on_chunk_header"} \cup ValueEvents, "none")
    /\ EventAt(BodyStart \cup EofStart \cup {"span_start_on_body_2"} \cup NoBody,
               {"on_headers_complete"}, "none")
    /\ EventAt(BodyText \cup {"eof"}, {"on_headers_complete", "on_body"},
               "on_body")
    /\ EventAt(BodyRead, {"on_body", "on_chunk_complete"}, "none")
    /\ EventAt(MessageEnd, {"on_message_complete"}, "none")
TrailerPhases ==
    /\ parser.current \in Between \cup Line0 \cup HeadDone \cup HeadReported
          \cup Chunk \cup BodyStart \cup BodyText \cup EofStart \cup EofText
          \cup NoBody
       => ~Trailing
    /\ parser.current \in TrailerRead => Trailing
FinishPhases ==
    /\ parser.current \in {"start", "invoke_update_finish"} =>
          parser.finish = "SAFE"
    /\ parser.current \in EofText => parser.finish = "SAFE_WITH_CB"
    /\ parser.current \in {"invoke_on_message_begin"} \cup Line0 \cup Header
          \cup HeadDone \cup HeadReported \cup (Body \ EofText)
       => parser.finish = "UNSAFE"

Phases == /\ LinePhases /\ HeaderPhases /\ BodyPhases
          /\ TrailerPhases /\ FinishPhases

\* The field whose value is read is the one that header_state stands for.
Named == sent.field \in {"content-length", "transfer-encoding"}
FieldRecognised ==
    /\ parser.current \in FieldWord => sent.field = Spelling[parser.current]
    /\ parser.current \in FieldColon \cup FieldRead \cup ValueStart
          \cup ValueText \cup ValueRead =>
          /\ sent.field = "content-length" => parser.header_state = 2
          /\ sent.field = "transfer-encoding" =>
                parser.header_state = 3 \/ "TRANSFER_ENCODING" \in parser.flags
    /\ parser.current \in FieldGeneral /\ Named => look \notin {NoChar, "Colon"}
    /\ parser.current \in FieldOther \cup FieldRead => ~Named
    /\ parser.current \in ConnectionValue \cup EncodingValue =>
          /\ sent.field # "content-length"
          /\ sent.field = "transfer-encoding" =>
                "TRANSFER_ENCODING" \in parser.flags

\* A Content-Length or a Transfer-Encoding that was sent has become a flag,
\* or is being read.
LengthKnown ==
    parser.current \in Header \cup HeadDone \cup HeadReported /\ ~Trailing =>
        /\ sent.cl => \/ "CONTENT_LENGTH" \in parser.flags
                      \/ parser.current \in LengthValue \cup LengthBad
                      \/ parser.current \in ValueKind /\ parser.header_state = 2
        /\ sent.te => \/ "TRANSFER_ENCODING" \in parser.flags
                      \/ parser.current \in ValueKind /\ parser.header_state = 3
LengthFlagged ==
    /\ parser.current \in Line0 => ~sent.cl /\ ~sent.te
    /\ parser.current \in HeadDone \/ event \in BodyEvents \/ Trailing =>
          ~(sent.cl /\ sent.te)

\* What is left to read of a body or of a chunk.
HeadCounted ==
    /\ ~sent.leftover /\ ~Trailing
    /\ parser.current \in Line0 \cup (Header \ LengthBad) \cup HeadDone
          \cup HeadReported
    => parser.content_length = sent.length /\ sent.delivered = 0
ChunkCounted ==
    /\ parser.current \in ChunkSize \cup ChunkSized => sent.delivered = 0
    /\ parser.current \in ChunkSize \cup ChunkSized \cup ChunkText =>
          parser.content_length + sent.delivered = sent.length
    /\ \/ parser.current \in ChunkRead \cup LastChunk
       \/ parser.current = "span_end_on_body" \/ Trailing
       \/ parser.current \in ChunkStart /\ event = "on_chunk_complete"
       => sent.delivered = sent.length
    /\ parser.current \in BodyRead /\ event = "on_chunk_complete" =>
          sent.delivered = sent.length
BodyCounted ==
    /\ parser.current \in BodyStart \cup BodyText /\ ~sent.leftover =>
          parser.content_length + sent.delivered = sent.length
    /\ parser.current = "span_end_on_body_1" => parser.content_length = 0
    /\ parser.current \in BodyRead \cup NoBody \cup MessageEnd
          /\ DeclaredLength => sent.delivered = sent.length

\* The start line, as far as it has been read.
LineSpelled ==
    /\ parser.current \in Typing => sent.word = NoText
    /\ parser.current \in MethodNodes => sent.word = Spelling[parser.current]
    /\ parser.current \in MethodNodes \ Nodes(req_or_res_method) =>
          parser.type = "REQUEST"
    /\ parser.current \in MethodRead \cup UrlText \cup UrlRead \cup NoVersion
          \cup ReqVersion =>
          parser.type = "REQUEST" /\ llhttp_method_name(parser.method) = sent.word
LineNumbers ==
    /\ parser.current \in Typing \cup MethodNodes \cup MethodRead \cup UrlText
          \cup UrlRead \cup NoVersion => sent.major = 0 /\ sent.minor = 9
    /\ parser.current \in ReqMinor \cup ReqEnd \cup ResMinor \cup ResEnd
          \cup StatusCode \cup StatusText \cup StatusRead \cup NoVersion =>
          parser.http_major = sent.major
    /\ parser.current \in ReqEnd \cup ResEnd
          \cup StatusCode \cup StatusText \cup StatusRead \cup NoVersion =>
          parser.http_minor = sent.minor
    /\ parser.current \in Typing \cup MethodNodes \cup ResProtocol
          \cup ResMinor \cup ResEnd => sent.code = 0
    /\ parser.current \in (ResProtocol \ {"invoke_update_type_1"})
          \cup ResMinor \cup ResEnd
          \cup StatusCode \cup StatusText \cup StatusRead =>
          parser.type # "REQUEST"
    /\ parser.current \in StatusCode \cup StatusText \cup StatusRead =>
          parser.status_code = sent.code
LineKnown ==
    /\ parser.http_major = sent.major /\ parser.http_minor = sent.minor
    /\ IF parser.type = "REQUEST"
       THEN llhttp_method_name(parser.method) = sent.word
       ELSE parser.status_code = sent.code
LineKept ==
    \/ parser.current \in Header \cup HeadDone \cup HeadReported \cup Body
    \/ event = "on_headers_complete"
    => LineKnown

StateOK ==
    /\ IndexKept /\ Phases
    /\ FieldRecognised /\ LengthKnown
    /\ HeadCounted /\ ChunkCounted /\ BodyCounted
    /\ LineSpelled /\ LineNumbers /\ LineKept

Good == TypeOK /\ LengthFlagged /\ StateOK

Inv ==
    /\ TypeOK /\ LengthFlagged
    /\ IF outcome = "open" THEN StateOK ELSE parser.current = "start"

-----------------------------------------------------------------------------
(* The tables.  A state that looks at a character goes on in its own part  *)
(* of the message, or in the next one.                                     *)

CharStep(n, m) ==
    \/ m \in Codes
    \/ n = "start" /\ m \in {"start", "invoke_update_finish"}
    \/ n \in Typing /\ m \in {"req_or_res_method", "invoke_update_type_2"}
    \/ n \in MethodRead /\ m \in MethodRead
    \/ n \in UrlText /\ m \in UrlText
    \/ n \in UrlRead /\ m \in UrlRead
    \/ n \in ReqProtocol /\ m \in ReqProtocol
    \/ n \in ReqMinor /\ m \in ReqMinor
    \/ n \in ReqEnd /\ m \in ReqEnd \cup FieldStart
    \/ n \in ResMinor /\ m \in ResMinor
    \/ n \in ResEnd /\ m \in ResEnd
    \/ n \in StatusCode /\ m \in StatusCode \cup StatusRead
    \/ n \in StatusText /\ m \in StatusText
    \/ n \in StatusRead /\ m \in StatusRead
    \/ n \in FieldStart /\ m \in FieldStart
    \/ n = "header_field_colon" /\ m \in FieldColon \cup FieldGeneral
    \/ n \in FieldGeneral /\ m \in FieldGeneral \cup FieldOther
    \/ n \in ValueStart /\ m \in ValueStart
    \/ n \in ConnectionValue /\ m \in ConnectionValue \cup ValueEnd
    \/ n \in LengthValue /\ m \in LengthValue
    \/ n \in EncodingValue /\ m \in EncodingValue
    \/ n \in ValueEnd /\ m \in ValueEnd
    \/ n \in ValueRead /\ m \in ValueRead \cup {"span_start_on_header_value_1"}
    \/ n \in ChunkSize /\ m \in ChunkSize
    \/ n \in ChunkRead /\ m \in ChunkRead
    \/ n = "eof" /\ m = "eof"

Steps(n, f) == \A c \in DOMAIN f : CharStep(n, f[c].to)
Sound(t)    == \A n \in DOMAIN t : Steps(n, t[n])

LEMMA EatSteps ==
    ASSUME NEW n, NEW m, CharStep(n, m), NEW S PROVE Steps(n, Eat(S, m))
BY DEF Steps, Eat
LEMMA GotoSteps ==
    ASSUME NEW n, NEW m, CharStep(n, m), NEW S PROVE Steps(n, Goto(S, m))
BY DEF Steps, Goto
LEMMA OverSteps ==
    ASSUME NEW n, NEW f, NEW g, Steps(n, f), Steps(n, g)
    PROVE  Steps(n, f @@ g)
<1>1. Steps(n, Over(f, g))
  BY DEF Steps, Over
<1> QED BY <1>1 DEF @@
LEMMA OverSound ==
    ASSUME NEW f, NEW g, Sound(f), Sound(g) PROVE Sound(f @@ g)
<1>1. Sound(Over(f, g))
  BY DEF Sound, Over
<1> QED BY <1>1 DEF @@

LEMMA LineSound ==
    /\ Sound(StartNodes) /\ Sound(SpaceNodes) /\ Sound(UrlSchemaNodes)
    /\ Sound(UrlServerNodes) /\ Sound(UrlPathNodes) /\ Sound(UrlTailNodes)
    /\ Sound(Http09Nodes)
<1> USE EatSteps, GotoSteps, OverSteps DEF Sound
<1>1. Sound(StartNodes)
  <2>1. \A n \in {"start"} :
           \A m \in {"start", "invoke_update_finish"} : CharStep(n, m)
    BY DEF CharStep
  <2>2. \A n \in Typing :
           \A m \in {"req_or_res_method", "invoke_update_type_2"} : CharStep(n, m)
    BY DEF CharStep
  <2> QED BY <2>1, <2>2
    DEF StartNodes, Typing
<1>2. Sound(SpaceNodes)
  <2>1. \A n \in MethodRead : \A m \in MethodRead \cup Codes : CharStep(n, m)
    BY DEF CharStep
  <2> QED BY <2>1
    DEF SpaceNodes, MethodRead, Codes
<1>3. Sound(UrlSchemaNodes)
  <2>1. \A n \in UrlText : \A m \in UrlText \cup Codes : CharStep(n, m)
    BY DEF CharStep
  <2> QED BY <2>1
    DEF UrlSchemaNodes, BadUrl, UrlText, Codes
<1>4. Sound(UrlServerNodes)
  <2>1. \A n \in UrlText : \A m \in UrlText \cup Codes : CharStep(n, m)
    BY DEF CharStep
  <2> QED BY <2>1
    DEF UrlServerNodes, UrlEnd, UrlText, Codes
<1>5. Sound(UrlPathNodes)
  <2>1. \A n \in UrlText : \A m \in UrlText : CharStep(n, m)
    BY DEF CharStep
  <2> QED BY <2>1
    DEF UrlPathNodes, UrlText
<1>6. Sound(UrlTailNodes)
  <2>1. \A n \in UrlText : \A m \in UrlText \cup Codes : CharStep(n, m)
    BY DEF CharStep
  <2>2. \A n \in UrlRead : \A m \in UrlRead : CharStep(n, m)
    BY DEF CharStep
  <2> QED BY <2>1, <2>2
    DEF UrlTailNodes, UrlEnd, UrlText, UrlRead, Codes
<1>7. Sound(Http09Nodes)
  <2>1. \A n \in UrlRead : \A m \in UrlRead \cup Codes : CharStep(n, m)
    BY DEF CharStep
  <2> QED BY <2>1
    DEF Http09Nodes, UrlRead, Codes
<1> QED BY <1>1, <1>2, <1>3, <1>4, <1>5, <1>6, <1>7

LEMMA VersionSound ==
    /\ Sound(ReqMajorNodes) /\ Sound(ReqMinorNodes)
    /\ Sound(ResVersionNodes) /\ Sound(StatusNodes)
<1> USE EatSteps, GotoSteps, OverSteps DEF Sound
<1>1. Sound(ReqMajorNodes)
  <2>1. \A n \in ReqProtocol : \A m \in ReqProtocol \cup Codes : CharStep(n, m)
    BY DEF CharStep
  <2>2. \A n \in ReqMinor : \A m \in ReqMinor \cup Codes : CharStep(n, m)
    BY DEF CharStep
  <2> QED BY <2>1, <2>2
    DEF ReqMajorNodes, BadVersion, ReqProtocol, ReqMinor, Codes
<1>2. Sound(ReqMinorNodes)
  <2>1. \A n \in ReqMinor : \A m \in Codes : CharStep(n, m)
    BY DEF CharStep
  <2>2. \A n \in ReqEnd :
           \A m \in ReqEnd \cup FieldStart \cup Codes : CharStep(n, m)
    BY DEF CharStep
  <2> QED BY <2>1, <2>2
    DEF ReqMinorNodes, BadVersion, ReqMinor, ReqEnd, FieldStart, Codes
<1>3. Sound(ResVersionNodes)
  <2>1. \A n \in ResProtocol \cup ResMinor \cup ResEnd :
           \A m \in Codes : CharStep(n, m)
    BY DEF CharStep
  <2>2. \A n \in ResMinor : \A m \in ResMinor : CharStep(n, m)
    BY DEF CharStep
  <2>3. \A n \in ResEnd : \A m \in ResEnd : CharStep(n, m)
    BY DEF CharStep
  <2> QED BY <2>1, <2>2, <2>3
    DEF ResVersionNodes, BadVersion, ResProtocol, ResMinor, ResEnd, Codes
<1>4. Sound(StatusNodes)
  <2>1. \A n \in StatusCode :
           \A m \in StatusCode \cup StatusRead \cup Codes : CharStep(n, m)
    BY DEF CharStep
  <2>2. \A n \in StatusText : \A m \in StatusText : CharStep(n, m)
    BY DEF CharStep
  <2>3. \A n \in StatusRead : \A m \in StatusRead : CharStep(n, m)
    BY DEF CharStep
  <2> QED BY <2>1, <2>2, <2>3
    DEF StatusNodes, StatusCode, StatusText, StatusRead, Codes
<1> QED BY <1>1, <1>2, <1>3, <1>4

LEMMA HeaderSound ==
    /\ Sound(FieldStartNodes) /\ Sound(FieldNodes) /\ Sound(DiscardNodes)
    /\ Sound(ValueNodes) /\ Sound(ValueEndNodes) /\ Sound(ConnectionNodes)
    /\ Sound(ContentLengthNodes) /\ Sound(ChunkedNodes)
    /\ Sound(EncodingNodes)
<1> USE EatSteps, GotoSteps, OverSteps DEF Sound
<1>1. Sound(FieldStartNodes)
  <2>1. \A n \in FieldStart : \A m \in FieldStart : CharStep(n, m)
    BY DEF CharStep
  <2> QED BY <2>1
    DEF FieldStartNodes, FieldStart
<1>2. Sound(FieldNodes)
  <2>1. \A n \in {"header_field_colon"} :
           \A m \in FieldColon \cup FieldGeneral : CharStep(n, m)
    BY DEF CharStep
  <2>2. \A n \in FieldGeneral :
           \A m \in FieldGeneral \cup FieldOther \cup Codes : CharStep(n, m)
    BY DEF CharStep
  <2> QED BY <2>1, <2>2
    DEF FieldNodes, FieldColon, FieldGeneral, FieldOther, Codes
<1>3. Sound(DiscardNodes)
  <2>1. \A n \in ValueStart : \A m \in ValueStart : CharStep(n, m)
    BY DEF CharStep
  <2> QED BY <2>1
    DEF DiscardNodes, ValueStart
<1>4. Sound(ValueNodes)
  <2>1. \A n \in ValueEnd : \A m \in ValueEnd : CharStep(n, m)
    BY DEF CharStep
  <2> QED BY <2>1
    DEF ValueNodes, ValueEnd
<1>5. Sound(ValueEndNodes)
  <2>1. \A n \in ValueEnd : \A m \in ValueEnd \cup Codes : CharStep(n, m)
    BY DEF CharStep
  <2>2. \A n \in ValueRead :
           \A m \in ValueRead \cup Codes \cup {"span_start_on_header_value_1"} : CharStep(n, m)
    BY DEF CharStep
  <2> QED BY <2>1, <2>2
    DEF ValueEndNodes, ValueEnd, ValueRead, Codes
<1>6. Sound(ConnectionNodes)
  <2>1. \A n \in ConnectionValue :
           \A m \in ConnectionValue \cup ValueEnd : CharStep(n, m)
    BY DEF CharStep
  <2> QED BY <2>1
    DEF ConnectionNodes, ConnectionValue, ValueEnd
<1>7. Sound(ContentLengthNodes)
  <2>1. \A n \in LengthValue : \A m \in LengthValue : CharStep(n, m)
    BY DEF CharStep
  <2> QED BY <2>1
    DEF ContentLengthNodes, LengthValue
<1>8. Sound(ChunkedNodes) /\ Sound(EncodingNodes)
  <2>1. \A n \in EncodingValue : \A m \in EncodingValue : CharStep(n, m)
    BY DEF CharStep
  <2> QED BY <2>1
    DEF ChunkedNodes, EncodingNodes, EncodingValue
<1> QED BY <1>1, <1>2, <1>3, <1>4, <1>5, <1>6, <1>7, <1>8

LEMMA ChunkSound ==
    /\ Sound(ChunkSizeNodes) /\ Sound(ChunkLineNodes)
    /\ Sound(ChunkDataNodes) /\ Sound(EofNodes)
<1> USE EatSteps, GotoSteps, OverSteps DEF Sound
<1>1. Sound(ChunkSizeNodes) /\ Sound(ChunkLineNodes)
  <2>1. \A n \in ChunkSize : \A m \in ChunkSize \cup Codes : CharStep(n, m)
    BY DEF CharStep
  <2> QED BY <2>1
    DEF ChunkSizeNodes, ChunkLineNodes, ChunkSize, Codes
<1>2. Sound(ChunkDataNodes)
  <2>1. \A n \in ChunkRead : \A m \in ChunkRead : CharStep(n, m)
    BY DEF CharStep
  <2> QED BY <2>1
    DEF ChunkDataNodes, ChunkRead
<1>3. Sound(EofNodes)
  <2>1. \A n \in {"eof"} : \A m \in {"eof"} : CharStep(n, m)
    BY DEF CharStep
  <2> QED BY <2>1
    DEF EofNodes
<1> QED BY <1>1, <1>2, <1>3

LEMMA CharSteps ==
    ASSUME NEW n \in DOMAIN CharNodes, NEW c \in DOMAIN CharNodes[n]
    PROVE  CharStep(n, CharNodes[n][c].to)
<1>1. Sound(CharNodes)
  BY OverSound, LineSound, VersionSound, HeaderSound, ChunkSound
  DEF CharNodes
<1> QED BY <1>1 DEF Sound, Steps

\* The states that read, and the entries of the states of a field name.
Readers == {"start"} \cup Line0 \cup Header \cup Chunk \cup BodyStart
           \cup BodyText \cup EofText
Fits(t) == \A n \in DOMAIN t :
              n \in Readers /\ (n \in FieldColon \cup FieldGeneral =>
                                  n \in DOMAIN FieldNodes /\ t[n] = FieldNodes[n])

LEMMA OverFits ==
    ASSUME NEW f, NEW g, Fits(f), Fits(g) PROVE Fits(f @@ g)
<1>1. Fits(Over(f, g))
  BY DEF Fits, Over
<1> QED BY <1>1 DEF @@

LEMMA CharNodesFit == Fits(CharNodes)
<1> USE DEF Fits, Readers, FieldColon, FieldGeneral
<1>1. Fits(StartNodes) /\ Fits(SpaceNodes)
  BY DEF StartNodes, SpaceNodes, Line0, LineRest, LineStart, Typing, MethodRead
<1>2. Fits(UrlSchemaNodes) /\ Fits(UrlServerNodes) /\ Fits(UrlPathNodes)
  BY DEF UrlSchemaNodes, UrlServerNodes, UrlPathNodes, Line0, LineRest, UrlText
<1>3. Fits(UrlTailNodes) /\ Fits(Http09Nodes)
  BY DEF UrlTailNodes, Http09Nodes, Line0, LineRest, UrlText, UrlRead
<1>4. Fits(ReqMajorNodes) /\ Fits(ReqMinorNodes)
  BY DEF ReqMajorNodes, ReqMinorNodes, Line0, LineRest, ReqVersion,
         ReqProtocol, ReqMinor, ReqEnd
<1>5. Fits(ResVersionNodes) /\ Fits(StatusNodes)
  BY DEF ResVersionNodes, StatusNodes, Line0, LineRest, LineStart,
         ResProtocol, ResMinor, ResEnd, StatusCode, StatusText, StatusRead
<1>6. Fits(FieldStartNodes) /\ Fits(FieldNodes)
  BY DEF FieldStartNodes, FieldNodes, Header, FieldStart, FieldText
<1>7. Fits(DiscardNodes) /\ Fits(ValueNodes) /\ Fits(ValueEndNodes)
  BY DEF DiscardNodes, ValueNodes, ValueEndNodes, Header, ValueStart,
         ValueText, ValueEnd, ValueRead
<1>8. Fits(ConnectionNodes) /\ Fits(ContentLengthNodes)
  BY DEF ConnectionNodes, ContentLengthNodes, Header, ValueText,
         ConnectionValue, LengthValue
<1>9. Fits(ChunkedNodes) /\ Fits(EncodingNodes)
  BY DEF ChunkedNodes, EncodingNodes, Header, ValueText, EncodingValue
<1>10. Fits(ChunkSizeNodes) /\ Fits(ChunkLineNodes) /\ Fits(ChunkDataNodes)
  BY DEF ChunkSizeNodes, ChunkLineNodes, ChunkDataNodes, Chunk, ChunkSize,
         ChunkRead
<1>11. Fits(EofNodes)
  BY DEF EofNodes, EofText
<1> HIDE DEF Fits
<1> QED BY OverFits, <1>1, <1>2, <1>3, <1>4, <1>5, <1>6, <1>7, <1>8, <1>9,
           <1>10, <1>11 DEF CharNodes

\* After the colon of a field whose value is read there is no other
\* character, and a general name ends at its first colon.
LEMMA FieldEntries ==
    ASSUME NEW n \in FieldColon \cup FieldGeneral, n \in DOMAIN CharNodes,
           NEW c \in DOMAIN CharNodes[n]
    PROVE  LET e == CharNodes[n][c]
           IN  /\ c # NoChar
               /\ n = "header_field_colon" =>
                    \/ e.to \in FieldColon
                    \/ e.to = "invoke_update_header_state_10" /\ ~e.eat
                       /\ c # "Colon"
               /\ n = "header_field_general" =>
                    \/ e.to = "header_field_general" /\ e.eat
                    \/ e.to = "header_field_general_otherwise" /\ ~e.eat
               /\ n = "header_field_general_otherwise" =>
                    \/ e.to = "span_end_on_header_field_1" /\ c = "Colon"
                    \/ e.to \in Codes
<1>1. n \in DOMAIN FieldNodes /\ CharNodes[n] = FieldNodes[n]
  BY CharNodesFit DEF Fits
<1>2. c \in DOMAIN FieldNodes[n]
  BY <1>1
<1> DEFINE colon == Over(Over(Eat({"SP"}, "header_field_colon"),
                              Goto({"Colon"}, "span_end_on_header_field")),
                         Goto(Chars, "invoke_update_header_state_10"))
           general == Over(Eat(TokenChars, "header_field_general"),
                           Goto(Chars, "header_field_general_otherwise"))
           otherwise == Over(Goto({"Colon"}, "span_end_on_header_field_1"),
                             Goto(Chars, "INVALID_HEADER_TOKEN"))
<1>3. /\ FieldNodes["header_field_colon"] = colon
      /\ FieldNodes["header_field_general"] = general
      /\ FieldNodes["header_field_general_otherwise"] = otherwise
  BY DEF FieldNodes, @@
<1>4. CASE n = "header_field_colon"
  <2>1. c \in Chars
    BY <1>2, <1>3, <1>4 DEF Over, Eat, Goto, Chars
  <2>2. /\ c = "SP" => colon[c] = [to |-> "header_field_colon", eat |-> TRUE]
        /\ c = "Colon" =>
             colon[c] = [to |-> "span_end_on_header_field", eat |-> FALSE]
        /\ c \notin {"SP", "Colon"} =>
             colon[c] = [to |-> "invoke_update_header_state_10", eat |-> FALSE]
    BY <2>1 DEF Over, Eat, Goto
  <2> QED BY <1>1, <1>3, <1>4, <2>1, <2>2
          DEF Chars, Letters, NoChar, FieldColon
<1>5. CASE n = "header_field_general"
  <2>1. c \in Chars
    BY <1>2, <1>3, <1>5 DEF Over, Eat, Goto, Chars, TokenChars
  <2>2. /\ c \in TokenChars =>
             general[c] = [to |-> "header_field_general", eat |-> TRUE]
        /\ c \notin TokenChars =>
             general[c] = [to |-> "header_field_general_otherwise",
                           eat |-> FALSE]
    BY <2>1 DEF Over, Eat, Goto
  <2> QED BY <1>1, <1>3, <1>5, <2>1, <2>2 DEF Chars, Letters, NoChar
<1>6. CASE n = "header_field_general_otherwise"
  <2>1. c \in Chars
    BY <1>2, <1>3, <1>6 DEF Over, Goto, Chars
  <2>2. otherwise[c].to = IF c = "Colon" THEN "span_end_on_header_field_1"
                          ELSE "INVALID_HEADER_TOKEN"
    BY <2>1 DEF Over, Goto
  <2> QED BY <1>1, <1>3, <1>6, <2>1, <2>2 DEF Chars, Letters, NoChar, Codes
<1> QED BY <1>1, <1>4, <1>5, <1>6 DEF FieldNodes

-----------------------------------------------------------------------------
(* The tries.                                                              *)

MethodNext == UNION {t.next : t \in MethodTries \cup {req_or_res_method}}
EitherWord == {"req_or_res_method", "req_or_res_method_1",
               "req_or_res_method_2", "req_or_res_method_3"}
WordReaders == {"start_res", "req_http_start", "req_http_start_1",
                "req_http_start_2", "req_http_start_3",
                "header_value_connection", "header_value_connection_1",
                "header_value_connection_2", "header_value_connection_3",
                "header_value_te_chunked"} \cup FieldWord

LEMMA MethodTables ==
    ASSUME NEW t \in MethodTries
    PROVE  /\ \A n \in Nodes(t) : n \notin Others \cup EitherWord
           /\ \A e \in t.next : e[3] \notin Others \cup EitherWord
<1> USE DEF EitherWord, Nodes, Others, Between, LineRest, LineStart, Typing,
      MethodRead, ResProtocol, ResMinor, ResEnd, StatusCode, UrlText, UrlRead,
      NoVersion, ReqVersion, ReqProtocol, ReqMinor, ReqEnd, StatusText,
      StatusRead, Header, FieldStart, FieldText, FieldWord, FieldColon,
      FieldGeneral, FieldOther, FieldRead, ValueStart, ValueText, ValueKind,
      ConnectionValue, LengthValue, LengthBad, EncodingValue, ValueEnd,
      ValueRead, HeadDone, HeadReported, Body, Chunk, ChunkStart, ChunkSize,
      ChunkSized, LastChunk, ChunkText, ChunkRead, TrailerRead, BodyStart,
      BodyText, BodyRead, EofStart, EofText, NoBody, MessageEnd, Codes
<1>1. CASE t = start_req
  BY <1>1 DEF start_req
<1>2. CASE t = WordsAB
  BY <1>2 DEF WordsAB
<1>3. CASE t = WordsC
  BY <1>3 DEF WordsC
<1>4. CASE t = WordsD
  BY <1>4 DEF WordsD
<1>5. CASE t = WordsFGH
  BY <1>5 DEF WordsFGH
<1>6. CASE t = WordsL
  BY <1>6 DEF WordsL
<1>7. CASE t = WordsMK
  BY <1>7 DEF WordsMK
<1>8. CASE t = WordsMNO
  BY <1>8 DEF WordsMNO
<1>9. CASE t = WordsPAtoPO
  BY <1>9 DEF WordsPAtoPO
<1>10. CASE t = WordsPRtoPU
  BY <1>10 DEF WordsPRtoPU
<1>11. CASE t = WordsR
  BY <1>11 DEF WordsR
<1>12. CASE t = WordsSE
  BY <1>12 DEF WordsSE
<1>13. CASE t = WordsS
  BY <1>13 DEF WordsS
<1>14. CASE t = WordsT
  BY <1>14 DEF WordsT
<1>15. CASE t = WordsU
  BY <1>15 DEF WordsU
<1> QED BY <1>1, <1>2, <1>3, <1>4, <1>5, <1>6, <1>7, <1>8, <1>9, <1>10, <1>11,
           <1>12, <1>13, <1>14, <1>15 DEF MethodTries

LEMMA EitherTable ==
    /\ Nodes(req_or_res_method) = EitherWord
    /\ \A e \in req_or_res_method.next :
          e[3] \in EitherWord \cup {"invoke_update_type_1"}
    /\ \A n \in EitherWord : n \notin Others
<1> USE DEF EitherWord
<1>1. Nodes(req_or_res_method) = EitherWord
  BY DEF Nodes, req_or_res_method
<1>2. \A e \in req_or_res_method.next :
         e[3] \in EitherWord \cup {"invoke_update_type_1"}
  BY DEF req_or_res_method
<1>3. \A n \in EitherWord : n \notin Others
  BY DEF Others, Between, LineRest, LineStart, Typing,
      MethodRead, ResProtocol, ResMinor, ResEnd, StatusCode, UrlText, UrlRead,
      NoVersion, ReqVersion, ReqProtocol, ReqMinor, ReqEnd, StatusText,
      StatusRead, Header, FieldStart, FieldText, FieldWord, FieldColon,
      FieldGeneral, FieldOther, FieldRead, ValueStart, ValueText, ValueKind,
      ConnectionValue, LengthValue, LengthBad, EncodingValue, ValueEnd,
      ValueRead, HeadDone, HeadReported, Body, Chunk, ChunkStart, ChunkSize,
      ChunkSized, LastChunk, ChunkText, ChunkRead, TrailerRead, BodyStart,
      BodyText, BodyRead, EofStart, EofText, NoBody, MessageEnd, Codes
<1> QED BY <1>1, <1>2, <1>3

LEMMA MethodNodesApart == \A n \in MethodNodes : n \notin Others
BY MethodTables, EitherTable DEF MethodNodes

\* An edge of the method tries stays in them, or finds the version of a
\* response.
LEMMA MethodEdges ==
    ASSUME NEW e \in MethodNext
    PROVE  /\ e[1] \in MethodNodes
           /\ e[3] \notin Others \ {"invoke_update_type_1"}
           /\ IF e[1] \in EitherWord
              THEN e[3] \in EitherWord \cup {"invoke_update_type_1"}
              ELSE e[3] \notin EitherWord \cup {"invoke_update_type_1"}
           /\ e[3] \in MethodNodes =>
                Spelling[e[1]] \o e[2] = Spelling[e[3]]
<1>1. PICK t \in MethodTries \cup {req_or_res_method} : e \in t.next
  BY DEF MethodNext
<1>2. e[1] \in Nodes(t)
  BY <1>1 DEF Nodes
<1>3. e[1] \in MethodNodes
  BY <1>2 DEF MethodNodes
<1>4. /\ e[3] \notin Others \ {"invoke_update_type_1"}
      /\ IF e[1] \in EitherWord
         THEN e[3] \in EitherWord \cup {"invoke_update_type_1"}
         ELSE e[3] \notin EitherWord \cup {"invoke_update_type_1"}
  <2>1. CASE t \in MethodTries
    BY <1>1, <1>2, <2>1, MethodTables
       DEF Others, LineRest, LineStart, ResProtocol
  <2>2. CASE t = req_or_res_method
    BY <1>1, <1>2, <2>2, EitherTable
  <2> QED BY <2>1, <2>2
<1>5. e \in SpelledNext
  BY <1>1 DEF SpelledNext, SpelledTries
<1>6. MethodNodes \subseteq SpelledNodes
  BY DEF MethodNodes, SpelledNodes, SpelledTries, Nodes
<1> QED BY <1>3, <1>4, <1>5, <1>6, SpellingAssumption

LEMMA MethodMatches ==
    ASSUME NEW e \in MethodWords
    PROVE  /\ e[1] \in MethodNodes
           /\ Spelling[e[1]] \o e[2] = llhttp_method_name(e[3])
<1>1. PICK t \in MethodTries \cup {req_or_res_method} : e \in t.match
  BY DEF MethodWords
<1>2. e[1] \in MethodNodes
  BY <1>1 DEF MethodNodes, Nodes
<1>3. t # header_field
  <2>1. "header_field_3" \in Nodes(header_field)
    BY DEF Nodes, header_field
  <2>2. "header_field_3" \notin Nodes(t)
    BY MethodTables, EitherTable
       DEF Others, Header, FieldText, FieldWord, EitherWord
  <2> QED BY <2>1, <2>2
<1>4. t \in SpelledTries \ {header_field}
  BY <1>3 DEF SpelledTries
<1> QED BY <1>1, <1>2, <1>4, SpellingAssumption

LEMMA FieldEdges ==
    /\ Nodes(header_field) = FieldWord
    /\ \A e \in header_field.next :
          /\ e[1] \in FieldWord /\ e[3] \in FieldWord
          /\ Spelling[e[1]] \o e[2] = Spelling[e[3]]
    /\ \A e \in header_field.match :
          /\ e[1] \in FieldWord
          /\ Spelling[e[1]] \o e[2] = "content-length" => e[3] = 2
          /\ Spelling[e[1]] \o e[2] = "transfer-encoding" => e[3] = 3
<1>1. Nodes(header_field) = FieldWord
  BY DEF Nodes, header_field, FieldWord
<1>2. FieldWord \subseteq SpelledNodes
  BY <1>1 DEF SpelledNodes, SpelledTries, Nodes
<1>3. \A e \in header_field.next : e[1] \in FieldWord /\ e[3] \in FieldWord
  BY DEF header_field, FieldWord
<1>4. header_field.next \subseteq SpelledNext
  BY DEF SpelledNext, SpelledTries
<1>5. \A e \in header_field.match : e[1] \in FieldWord
  BY <1>1 DEF Nodes
<1> QED BY <1>1, <1>2, <1>3, <1>4, <1>5, SpellingAssumption

LEMMA ConnectionEdges ==
    /\ Nodes(header_value_connection) \subseteq ConnectionValue
    /\ \A e \in header_value_connection.next :
          e[1] \in ConnectionValue /\ e[3] \in ConnectionValue
    /\ \A e \in header_value_connection.match : e[1] \in ConnectionValue
BY DEF Nodes, header_value_connection, ConnectionValue

\* An edge of any trie.
LEMMA AllEdges ==
    ASSUME NEW e \in NextEdges
    PROVE  \/ e \in MethodNext
           \/ e[1] = "start_res" /\ e[3] = "res_http_major"
           \/ e[1] \in ReqProtocol /\ e[3] \in ReqProtocol
           \/ e \in header_field.next
           \/ e \in header_value_connection.next
           \/ e[1] = "header_value_te_chunked" /\ e[3] \in EncodingValue
<1>1. PICK t \in MethodTries \cup OtherTries : e \in t.next
  BY DEF NextEdges
<1>2. CASE t \in MethodTries \cup {req_or_res_method}
  BY <1>1, <1>2 DEF MethodNext
<1>3. CASE t = start_res
  BY <1>1, <1>3 DEF start_res
<1>4. CASE t = req_http_start
  BY <1>1, <1>4 DEF req_http_start, ReqProtocol
<1>5. CASE t = header_value_te_chunked
  BY <1>1, <1>5 DEF header_value_te_chunked, EncodingValue
<1> QED BY <1>1, <1>2, <1>3, <1>4, <1>5 DEF OtherTries

LEMMA TrieReaders == TrieNodes \subseteq MethodNodes \cup WordReaders
<1> SUFFICES ASSUME NEW x \in Texts PROVE x[1] \in MethodNodes \cup WordReaders
  BY DEF TrieNodes
<1>1. CASE \E e \in NextEdges : x = <<e[1], e[2]>>
  <2>1. PICK t \in MethodTries \cup OtherTries :
           \E e \in t.next : x = <<e[1], e[2]>>
    BY <1>1 DEF NextEdges
  <2>2. CASE t \in MethodTries \cup {req_or_res_method}
    <3>1. PICK e \in t.next : x = <<e[1], e[2]>>
      BY <2>1
    <3>2. e \in MethodNext
      BY <2>2 DEF MethodNext
    <3> QED BY <3>1, <3>2, MethodEdges
  <2>3. CASE t \in OtherTries \ {req_or_res_method}
    BY <2>1, <2>3 DEF OtherTries, start_res, req_http_start, header_field,
       header_value_connection, header_value_te_chunked, WordReaders, FieldWord
  <2> QED BY <2>1, <2>2, <2>3
<1>2. CASE \E e \in MethodWords : x = <<e[1], e[2]>>
  <2>1. PICK e \in MethodWords : x = <<e[1], e[2]>>
    BY <1>2
  <2> QED BY <2>1, MethodMatches
<1>3. CASE \E e \in header_field.match \cup header_value_connection.match :
             x = <<e[1], e[2]>>
  BY <1>3 DEF header_field, header_value_connection, WordReaders, FieldWord
<1> QED BY <1>1, <1>2, <1>3 DEF Texts

-----------------------------------------------------------------------------
(* Steps.  From here on the groups of states are used as the sets of names *)
(* that they are.                                                          *)

USE DEF Between, LineRest, LineStart, Typing, MethodRead, ResProtocol, ResMinor,
        ResEnd, StatusCode, UrlText, UrlRead, NoVersion, ReqVersion,
        ReqProtocol, ReqMinor, ReqEnd, StatusText, StatusRead, Header,
        FieldStart, FieldText, FieldWord, FieldColon, FieldGeneral, FieldOther,
        FieldRead, ValueStart, ValueText, ValueKind, ConnectionValue,
        LengthValue, LengthBad, EncodingValue, ValueEnd, ValueRead, HeadDone,
        HeadReported, Body, Chunk, ChunkStart, ChunkSize, ChunkSized,
        LastChunk, ChunkText, ChunkRead, TrailerRead, BodyStart, BodyText,
        BodyRead, EofStart, EofText, NoBody, MessageEnd

\* What a step does not change of the parser, and of what was sent.
ParserKept(F) == \A f \in ParserFields \ F : parser'[f] = parser[f]
SentKept(F)   == \A f \in SentFields \ F : sent'[f] = sent[f]

\* A step that reads a character or a word and only moves on, or fails.
QuietStep(n, m) ==
    \/ CharStep(n, m) \/ m = "s_error"
    \/ n \in MethodNodes /\ m \notin Others \ {"invoke_update_type_1"}
    \/ n = "start_res" /\ m = "res_http_major"
    \/ n \in FieldWord /\ m \in FieldWord \cup FieldColon \cup FieldGeneral

LEMMA QuietPhases ==
    ASSUME Phases, QuietStep(parser.current, parser'.current), event' = event,
           parser'.span = parser.span, parser'.flags = parser.flags,
           parser'.finish = parser.finish
    PROVE  Phases'
<1> USE MethodNodesApart DEF QuietStep, CharStep, Codes, Others, Phases, Trailing
<1>1. LinePhases'
  BY DEF LinePhases, EventAt
<1>2. HeaderPhases'
  BY DEF LinePhases, HeaderPhases, TrailerPhases, Line0, EventAt, StartEvents,
         LineEvents, ValueEvents
<1>3. BodyPhases'
  BY DEF BodyPhases, EventAt
<1>4. TrailerPhases'
  BY DEF TrailerPhases, Line0
<1>5. FinishPhases'
  BY DEF FinishPhases, Line0
<1> QED BY <1>1, <1>2, <1>3, <1>4, <1>5

LEMMA QuietLength ==
    ASSUME LengthKnown, LengthFlagged, Phases,
           QuietStep(parser.current, parser'.current), event' = event,
           parser'.flags = parser.flags, sent'.cl = sent.cl, sent'.te = sent.te
    PROVE  LengthKnown' /\ LengthFlagged'
<1> USE MethodNodesApart DEF QuietStep, CharStep, Codes, Others, Trailing
<1>1. LengthKnown'
  BY DEF LengthKnown, LengthFlagged, Line0
<1>2. LengthFlagged'
  BY DEF LengthFlagged, Line0
<1> QED BY <1>1, <1>2

\* The parser's and the peer's counts of a body.
CountsKept ==
    /\ parser'.content_length = parser.content_length
    /\ parser'.method = parser.method /\ parser'.flags = parser.flags
    /\ sent'.length = sent.length /\ sent'.delivered = sent.delivered
    /\ sent'.leftover = sent.leftover /\ sent'.cl = sent.cl

LEMMA QuietCounts ==
    ASSUME HeadCounted, ChunkCounted, BodyCounted,
           QuietStep(parser.current, parser'.current), event' = event,
           CountsKept
    PROVE  HeadCounted' /\ ChunkCounted' /\ BodyCounted'
<1> USE MethodNodesApart
    DEF QuietStep, CharStep, Codes, Others, CountsKept, Trailing
<1>1. HeadCounted'
  BY DEF HeadCounted, Line0
<1>2. ChunkCounted'
  BY DEF ChunkCounted
<1>3. BodyCounted'
  BY DEF BodyCounted, DeclaredLength
<1> QED BY <1>1, <1>2, <1>3

\* The start line in the parser, and as it was sent.
LineFieldsKept ==
    /\ parser'.type = parser.type /\ parser'.method = parser.method
    /\ parser'.http_major = parser.http_major
    /\ parser'.http_minor = parser.http_minor
    /\ parser'.status_code = parser.status_code
    /\ sent'.major = sent.major /\ sent'.minor = sent.minor
    /\ sent'.code = sent.code

LEMMA QuietLine ==
    ASSUME LineNumbers, LineSpelled, LineKept, Phases,
           QuietStep(parser.current, parser'.current), event' = event,
           LineFieldsKept, sent'.word = sent.word \/ parser.current \in MethodNodes
    PROVE  LineNumbers' /\ LineKept'
<1> USE MethodNodesApart
    DEF QuietStep, CharStep, Codes, Others, LineFieldsKept
<1>1. LineNumbers'
  BY DEF LineNumbers
<1>2. LineKept'
  <2>1. CASE parser.current \in MethodNodes
    BY <2>1 DEF LineKept, Phases, LinePhases, EventAt
  <2>2. CASE parser.current \notin MethodNodes
    BY <2>2 DEF LineKept, LineKnown, LineNumbers, LineSpelled
  <2> QED BY <2>1, <2>2
<1> QED BY <1>1, <1>2

-----------------------------------------------------------------------------
(* Characters and words.                                                   *)

LEMMA ReadCharGood == ASSUME Good, ReadChar PROVE Good'
<1> USE DEF Good, StateOK
<1> DEFINE n == parser.current
           m == parser'.current
<1>1. PICK c \in Offered :
         /\ n \in DOMAIN CharNodes /\ c \in DOMAIN CharNodes[n]
         /\ parser' = [parser EXCEPT !.current = CharNodes[n][c].to]
         /\ look' = IF CharNodes[n][c].eat THEN NoChar
                    ELSE Left(c, CharNodes[n][c].to)
         /\ sent' = IF n = "header_field_general" /\ look' = NoChar
                    THEN [sent EXCEPT !.field = "other"] ELSE sent
         /\ half' = half /\ event' = event
  BY DEF ReadChar
<1>2. /\ DOMAIN parser' = ParserFields /\ ParserKept({"current"})
      /\ m = CharNodes[n][c].to
  BY <1>1 DEF TypeOK, ParserKept, ParserFields
<1>3. /\ DOMAIN sent' = SentFields /\ SentKept({"field"})
      /\ sent'.field = IF n = "header_field_general" /\ look' = NoChar
                       THEN "other" ELSE sent.field
  BY <1>1 DEF TypeOK, SentKept, SentFields
<1>4. CharStep(n, m) /\ QuietStep(n, m)
  BY <1>1, <1>2, CharSteps DEF QuietStep
<1>5. /\ CountsKept /\ LineFieldsKept
      /\ parser'.span = parser.span /\ parser'.flags = parser.flags
      /\ parser'.finish = parser.finish /\ parser'.index = parser.index
      /\ parser'.header_state = parser.header_state
      /\ sent'.cl = sent.cl /\ sent'.te = sent.te /\ sent'.word = sent.word
  BY <1>2, <1>3 DEF CountsKept, LineFieldsKept, ParserKept, ParserFields,
     SentKept, SentFields
<1>6. TypeOK'
  BY <1>2, <1>3, <1>5 DEF TypeOK, CountsKept
<1>7. IndexKept'
  BY <1>1, <1>5 DEF IndexKept
<1>8. Phases' /\ LengthKnown' /\ LengthFlagged'
  BY <1>1, <1>4, <1>5, QuietPhases, QuietLength
<1>9. HeadCounted' /\ ChunkCounted' /\ BodyCounted'
  BY <1>1, <1>4, <1>5, QuietCounts
<1>10. LineNumbers' /\ LineKept'
  BY <1>1, <1>4, <1>5, QuietLine
<1>11. LineSpelled'
  BY <1>4, <1>5, MethodNodesApart, EitherTable, SpellingAssumption
     DEF LineSpelled, CharStep, Codes, Others, LineFieldsKept, EitherWord
<1>12. FieldRecognised'
  <2>1. CASE n \in FieldColon \cup FieldGeneral
    <3>1. n = "header_field_colon" => FieldRecognised'
      BY <1>1, <1>2, <1>3, <1>4, <1>5, <2>1, FieldEntries
         DEF FieldRecognised, Named, Left, Codes, NoChar
    <3>2. n = "header_field_general" => FieldRecognised'
      BY <1>1, <1>2, <1>3, <1>4, <1>5, <2>1, FieldEntries
         DEF FieldRecognised, Named, Left, Codes, NoChar, Offered
    <3>3. n = "header_field_general_otherwise" => FieldRecognised'
      BY <1>1, <1>2, <1>3, <1>4, <1>5, <2>1, FieldEntries
         DEF FieldRecognised, Named, Left, Codes, NoChar, Offered
    <3>4. n \in DOMAIN FieldNodes
      BY <1>1, <2>1, CharNodesFit DEF Fits
    <3> QED BY <3>1, <3>2, <3>3, <3>4 DEF FieldNodes
  <2>2. CASE n \notin FieldColon \cup FieldGeneral
    BY <1>3, <1>4, <1>5, <2>2, MethodNodesApart
       DEF FieldRecognised, Named, CharStep, Codes, Others
  <2> QED BY <2>1, <2>2
<1> QED BY <1>6, <1>7, <1>8, <1>9, <1>10, <1>11, <1>12

\* Only a state that matches a word is left in the middle of one.
LEMMA NotCut ==
    ASSUME IndexKept, parser.current \in Others \ WordReaders PROVE half = 0
BY TrieReaders, MethodNodesApart DEF IndexKept

LEMMA FailGood == ASSUME Good, Fail PROVE Good'
<1> USE DEF Good, StateOK
<1>1. /\ parser.current \in Codes
      /\ parser' = [parser EXCEPT !.error = parser.current,
                                  !.current = "s_error"]
      /\ sent' = sent /\ event' = event /\ half' = half /\ look' = look
  BY DEF Fail
<1>2. /\ DOMAIN parser' = ParserFields /\ ParserKept({"current", "error"})
      /\ parser'.current = "s_error"
  BY <1>1 DEF TypeOK, ParserKept, ParserFields
<1>3. /\ CountsKept /\ LineFieldsKept
      /\ parser'.span = parser.span /\ parser'.flags = parser.flags
      /\ parser'.finish = parser.finish /\ parser'.index = parser.index
  BY <1>1, <1>2 DEF CountsKept, LineFieldsKept, ParserKept, ParserFields
<1>4. QuietStep(parser.current, parser'.current)
  BY <1>2 DEF QuietStep
<1>5. TypeOK'
  BY <1>1, <1>2, <1>3 DEF TypeOK, CountsKept
<1>6. IndexKept'
  BY <1>1, <1>3, NotCut DEF IndexKept, Others, Codes, WordReaders
<1>7. Phases' /\ LengthKnown' /\ LengthFlagged'
  BY <1>1, <1>3, <1>4, QuietPhases, QuietLength
<1>8. HeadCounted' /\ ChunkCounted' /\ BodyCounted'
  BY <1>1, <1>3, <1>4, QuietCounts
<1>9. LineNumbers' /\ LineKept'
  BY <1>1, <1>3, <1>4, QuietLine
<1>10. LineSpelled' /\ FieldRecognised'
  BY <1>2, MethodNodesApart DEF LineSpelled, FieldRecognised, Others
<1> QED BY <1>5, <1>6, <1>7, <1>8, <1>9, <1>10

LEMMA MatchNextGood == ASSUME Good, MatchNext PROVE Good'
<1> USE DEF Good, StateOK
<1> DEFINE n == parser.current
           m == parser'.current
<1>1. PICK e \in NextEdges :
         /\ n = e[1] /\ half' = 0 /\ event' = event
         /\ parser' = [parser EXCEPT !.current = e[3], !.index = 0]
         /\ sent' = Spelled(e[1], e[2])
  BY DEF MatchNext, At, Sends
<1>2. /\ DOMAIN parser' = ParserFields /\ ParserKept({"current", "index"})
      /\ m = e[3] /\ parser'.index = 0
  BY <1>1 DEF TypeOK, ParserKept, ParserFields
<1>3. /\ DOMAIN sent' = SentFields /\ SentKept({"field", "word"})
      /\ sent'.word = IF n \in MethodNodes THEN sent.word \o e[2] ELSE sent.word
      /\ n \in MethodNodes \/ n \notin FieldWord => sent'.field = sent.field
      /\ n \notin MethodNodes /\ n \in FieldWord =>
           sent'.field = sent.field \o e[2]
  BY <1>1, FieldEdges DEF TypeOK, SentKept, SentFields, Spelled
<1>4. /\ CountsKept /\ LineFieldsKept
      /\ parser'.span = parser.span /\ parser'.flags = parser.flags
      /\ parser'.finish = parser.finish
      /\ parser'.header_state = parser.header_state
      /\ sent'.cl = sent.cl /\ sent'.te = sent.te
  BY <1>2, <1>3 DEF CountsKept, LineFieldsKept, ParserKept, ParserFields,
     SentKept, SentFields
<1>5. \/ e \in MethodNext
      \/ n = "start_res" /\ m = "res_http_major"
      \/ n \in ReqProtocol /\ m \in ReqProtocol
      \/ e \in header_field.next
      \/ n \in ConnectionValue /\ m \in ConnectionValue
      \/ n \in EncodingValue /\ m \in EncodingValue
  BY <1>1, <1>2, AllEdges, ConnectionEdges
<1>6. QuietStep(n, m)
  BY <1>1, <1>2, <1>5, MethodEdges, FieldEdges DEF QuietStep, CharStep
<1>7. TypeOK' /\ IndexKept'
  BY <1>1, <1>2, <1>3, <1>4 DEF TypeOK, CountsKept, IndexKept
<1>8. Phases' /\ LengthKnown' /\ LengthFlagged'
  BY <1>1, <1>4, <1>6, QuietPhases, QuietLength
<1>9. HeadCounted' /\ ChunkCounted' /\ BodyCounted'
  BY <1>1, <1>4, <1>6, QuietCounts
<1>10. LineNumbers' /\ LineKept'
  BY <1>1, <1>3, <1>4, <1>6, QuietLine
<1>11. CASE e \in MethodNext
  <2>1. /\ n \in MethodNodes /\ m \notin Others \ {"invoke_update_type_1"}
        /\ IF n \in EitherWord
           THEN m \in EitherWord \cup {"invoke_update_type_1"}
           ELSE m \notin EitherWord \cup {"invoke_update_type_1"}
        /\ m \in MethodNodes => Spelling[n] \o e[2] = Spelling[m]
    BY <1>1, <1>2, <1>11, MethodEdges
  <2>2. LineSpelled'
    <3>1. m \in MethodNodes => sent'.word = Spelling[m]
      BY <1>3, <2>1 DEF LineSpelled
    <3>2. m \in MethodNodes \ EitherWord => parser'.type = "REQUEST"
      BY <1>4, <2>1, MethodNodesApart, EitherTable
         DEF LineSpelled, LineFieldsKept, Others
    <3> QED BY <2>1, <3>1, <3>2, EitherTable DEF LineSpelled, Others
  <2>3. FieldRecognised'
    BY <2>1 DEF FieldRecognised, Others
  <2> QED BY <1>7, <1>8, <1>9, <1>10, <2>2, <2>3
<1>12. CASE e \in header_field.next
  <2>1. n \in FieldWord /\ m \in FieldWord
        /\ Spelling[n] \o e[2] = Spelling[m]
    BY <1>1, <1>2, <1>12, FieldEdges
  <2>2. n \notin MethodNodes /\ m \notin MethodNodes
    BY <2>1, MethodNodesApart DEF Others
  <2>3. LineSpelled'
    BY <2>1, <2>2 DEF LineSpelled
  <2>4. FieldRecognised'
    BY <1>3, <2>1, <2>2 DEF FieldRecognised
  <2> QED BY <1>7, <1>8, <1>9, <1>10, <2>3, <2>4
<1>13. CASE \/ n = "start_res" /\ m = "res_http_major"
            \/ n \in ReqProtocol /\ m \in ReqProtocol
            \/ n \in ConnectionValue /\ m \in ConnectionValue
            \/ n \in EncodingValue /\ m \in EncodingValue
  <2>1. n \notin MethodNodes /\ m \notin MethodNodes
    BY <1>13, MethodNodesApart DEF Others
  <2>2. LineSpelled'
    BY <1>3, <1>4, <1>13, <2>1 DEF LineSpelled, LineFieldsKept
  <2>3. FieldRecognised'
    BY <1>3, <1>4, <1>13, <2>1 DEF FieldRecognised, Named
  <2> QED BY <1>7, <1>8, <1>9, <1>10, <2>2, <2>3
<1> QED BY <1>5, <1>11, <1>12, <1>13

LEMMA MatchMethodGood == ASSUME Good, MatchMethod PROVE Good'
<1> USE DEF Good, StateOK
<1> DEFINE n == parser.current
           m == parser'.current
<1>1. PICK e \in MethodWords :
         /\ n = e[1] /\ event' = event
         /\ parser' = StoreMethod(e[1], e[3])
         /\ half' = 0 \/ (e[2] = NoText /\ half' = half)
         /\ sent' = Spelled(e[1], e[2])
  BY DEF MatchMethod, At, Sends
<1>2. /\ n \in MethodNodes
      /\ Spelling[n] \o e[2] = llhttp_method_name(e[3])
  BY <1>1, MethodMatches
<1>3. /\ DOMAIN parser' = ParserFields
      /\ ParserKept({"current", "index", "method", "type"})
      /\ m = "req_first_space_before_url" /\ parser'.index = 0
      /\ parser'.method = e[3]
      /\ parser'.type = IF n \in EitherWord THEN "REQUEST" ELSE parser.type
  BY <1>1, EitherTable DEF TypeOK, ParserKept, ParserFields, StoreMethod
<1>4. /\ DOMAIN sent' = SentFields /\ SentKept({"word"})
      /\ sent'.word = sent.word \o e[2]
  BY <1>1, <1>2 DEF TypeOK, SentKept, SentFields, Spelled
<1>5. /\ parser'.span = parser.span /\ parser'.flags = parser.flags
      /\ parser'.finish = parser.finish
      /\ parser'.content_length = parser.content_length
      /\ sent'.cl = sent.cl /\ sent'.te = sent.te
      /\ sent'.length = sent.length /\ sent'.delivered = sent.delivered
      /\ sent'.leftover = sent.leftover
      /\ sent'.major = sent.major /\ sent'.minor = sent.minor
  BY <1>3, <1>4 DEF ParserKept, ParserFields, SentKept, SentFields
<1>6. n \notin Others /\ m \notin MethodNodes
  BY <1>2, <1>3, MethodNodesApart DEF Others
<1>7. TypeOK'
  BY <1>3, <1>4, <1>5 DEF TypeOK
<1>8. IndexKept'
  <2>1. half' = 0
    BY <1>1, LetterAssumption DEF IndexKept
  <2> QED BY <1>3, <2>1 DEF IndexKept
<1>9. Phases'
  BY <1>1, <1>2, <1>3, <1>5, <1>6
     DEF Phases, LinePhases, HeaderPhases, BodyPhases, TrailerPhases,
         FinishPhases, EventAt, Line0, Trailing
<1>10. LengthKnown' /\ LengthFlagged' /\ FieldRecognised'
  BY <1>1, <1>2, <1>3, <1>5
     DEF LengthKnown, LengthFlagged, FieldRecognised, Line0, Trailing
<1>11. HeadCounted' /\ ChunkCounted' /\ BodyCounted'
  BY <1>1, <1>2, <1>3, <1>5
     DEF HeadCounted, ChunkCounted, BodyCounted, Line0, Trailing
<1>12. LineSpelled'
  BY <1>2, <1>3, <1>4, <1>6, EitherTable DEF LineSpelled
<1>13. LineNumbers' /\ LineKept'
  BY <1>1, <1>2, <1>3, <1>5, <1>6
     DEF LineNumbers, LineKept, Phases, LinePhases, EventAt
<1> QED BY <1>7, <1>8, <1>9, <1>10, <1>11, <1>12, <1>13

LEMMA MatchHeaderGood == ASSUME Good, MatchHeader PROVE Good'
<1> USE DEF Good, StateOK
<1> DEFINE n == parser.current
           m == parser'.current
<1>1. PICK t \in {header_field, header_value_connection} : \E e \in t.match :
         /\ n = e[1] /\ half' = 0 /\ event' = event
         /\ parser' = [parser EXCEPT
                          !.index = 0, !.header_state = e[3],
                          !.current = IF t = header_field
                                      THEN "header_field_colon"
                                      ELSE "header_value_connection_ws"]
         /\ sent' = Spelled(e[1], e[2])
  BY DEF MatchHeader, At, Sends
<1>2. PICK e \in t.match :
         /\ n = e[1] /\ half' = 0 /\ event' = event
         /\ parser' = [parser EXCEPT
                          !.index = 0, !.header_state = e[3],
                          !.current = IF t = header_field
                                      THEN "header_field_colon"
                                      ELSE "header_value_connection_ws"]
         /\ sent' = Spelled(e[1], e[2])
  BY <1>1
<1>3. /\ DOMAIN parser' = ParserFields
      /\ ParserKept({"current", "index", "header_state"})
      /\ parser'.index = 0 /\ parser'.header_state = e[3]
      /\ m = IF t = header_field THEN "header_field_colon"
                                 ELSE "header_value_connection_ws"
  BY <1>2 DEF TypeOK, ParserKept, ParserFields
<1>4. IF t = header_field
      THEN /\ n \in FieldWord /\ m = "header_field_colon"
           /\ Spelling[n] \o e[2] = "content-length" => e[3] = 2
           /\ Spelling[n] \o e[2] = "transfer-encoding" => e[3] = 3
      ELSE n \in ConnectionValue /\ m = "header_value_connection_ws"
  BY <1>2, <1>3, FieldEdges, ConnectionEdges
<1>5. n \notin MethodNodes /\ m \notin MethodNodes
  <2>1. n \in Others /\ m \in Others
    BY <1>4 DEF Others
  <2> QED BY <2>1, MethodNodesApart
<1>6. /\ DOMAIN sent' = SentFields /\ SentKept({"field"})
      /\ sent'.field = IF n \in FieldWord THEN sent.field \o e[2]
                                          ELSE sent.field
  BY <1>2, <1>5, FieldEdges DEF TypeOK, SentKept, SentFields, Spelled
<1>7. /\ CountsKept /\ LineFieldsKept
      /\ parser'.span = parser.span /\ parser'.flags = parser.flags
      /\ parser'.finish = parser.finish
      /\ sent'.cl = sent.cl /\ sent'.te = sent.te /\ sent'.word = sent.word
  BY <1>3, <1>6 DEF CountsKept, LineFieldsKept, ParserKept, ParserFields,
     SentKept, SentFields
<1>8. QuietStep(n, m)
  BY <1>4 DEF QuietStep, CharStep
<1>9. TypeOK' /\ IndexKept'
  BY <1>2, <1>3, <1>6, <1>7 DEF TypeOK, CountsKept, IndexKept
<1>10. Phases' /\ LengthKnown' /\ LengthFlagged'
  BY <1>2, <1>7, <1>8, QuietPhases, QuietLength
<1>11. HeadCounted' /\ ChunkCounted' /\ BodyCounted'
  BY <1>2, <1>7, <1>8, QuietCounts
<1>12. LineNumbers' /\ LineKept'
  BY <1>2, <1>7, <1>8, QuietLine
<1>13. LineSpelled'
  BY <1>4, <1>5 DEF LineSpelled
<1>14. FieldRecognised'
  BY <1>3, <1>4, <1>6, <1>7 DEF FieldRecognised, Named
<1> QED BY <1>9, <1>10, <1>11, <1>12, <1>13, <1>14

LEMMA MatchPauseGood == ASSUME Good, MatchPause PROVE Good'
<1> USE DEF Good, StateOK
<1>1. PICK e \in Texts :
         /\ parser.current = e[1] /\ Len(e[2]) > 1 /\ look' = NoChar
         /\ half' = 1 /\ parser' = [parser EXCEPT !.index = 1]
         /\ sent' = sent /\ event' = event
  BY DEF MatchPause, At
<1>2. /\ DOMAIN parser' = ParserFields /\ ParserKept({"index"})
      /\ parser'.index = 1
  BY <1>1 DEF TypeOK, ParserKept, ParserFields
<1>3. /\ CountsKept /\ LineFieldsKept
      /\ parser'.span = parser.span /\ parser'.flags = parser.flags
      /\ parser'.finish = parser.finish
      /\ parser'.header_state = parser.header_state
      /\ parser'.current = parser.current
  BY <1>1, <1>2 DEF CountsKept, LineFieldsKept, ParserKept, ParserFields
<1>4. TypeOK'
  BY <1>1, <1>2, <1>3 DEF TypeOK, CountsKept
<1>5. IndexKept'
  BY <1>1, <1>2, <1>3, LetterAssumption DEF IndexKept, TrieNodes
<1>6. parser.current \in MethodNodes \cup WordReaders
  BY <1>1, TrieReaders DEF TrieNodes
<1>7. Phases' /\ LengthKnown' /\ LengthFlagged'
  BY <1>1, <1>3 DEF Phases, LinePhases, HeaderPhases, BodyPhases,
     TrailerPhases, FinishPhases, EventAt, StartEvents, Trailing, LengthKnown,
     LengthFlagged
<1>8. HeadCounted' /\ ChunkCounted' /\ BodyCounted'
  BY <1>1, <1>3
     DEF HeadCounted, ChunkCounted, BodyCounted, DeclaredLength, CountsKept,
         Trailing
<1>9. LineSpelled' /\ LineNumbers' /\ LineKept'
  BY <1>1, <1>3
     DEF LineSpelled, LineNumbers, LineKept, LineKnown, LineFieldsKept
<1>10. FieldRecognised'
  BY <1>1, <1>3, <1>6, MethodNodesApart
     DEF FieldRecognised, Named, WordReaders, Others
<1> QED BY <1>4, <1>5, <1>7, <1>8, <1>9, <1>10

LEMMA MismatchGood == ASSUME Good, Mismatch PROVE Good'
<1> USE DEF Good, StateOK
<1> DEFINE n == parser.current
           m == parser'.current
<1>1. /\ n \in TrieNodes
      /\ parser' = [parser EXCEPT !.current = Miss(n), !.index = 0]
      /\ half' = 0 /\ event' = event
      /\ sent' = [sent EXCEPT !.field = "other"]
  BY DEF Mismatch, Finds, IndexKept
<1>2. /\ DOMAIN parser' = ParserFields /\ ParserKept({"current", "index"})
      /\ m = Miss(n) /\ parser'.index = 0
  BY <1>1 DEF TypeOK, ParserKept, ParserFields
<1>3. /\ DOMAIN sent' = SentFields /\ SentKept({"field"})
      /\ sent'.field = "other"
  BY <1>1 DEF TypeOK, SentKept, SentFields
<1>4. /\ CountsKept /\ LineFieldsKept
      /\ parser'.span = parser.span /\ parser'.flags = parser.flags
      /\ parser'.finish = parser.finish
      /\ sent'.cl = sent.cl /\ sent'.te = sent.te /\ sent'.word = sent.word
  BY <1>2, <1>3 DEF CountsKept, LineFieldsKept, ParserKept, ParserFields,
     SentKept, SentFields
<1>5. \/ m \in Codes
      \/ n \in FieldWord /\ m = "invoke_update_header_state_10"
      \/ n \in ConnectionValue /\ m = "header_value_connection_token"
      \/ n = "header_value_te_chunked" /\ m = "header_value_te_token"
  <2>1. Nodes(header_value_te_chunked) = {"header_value_te_chunked"}
    BY DEF Nodes, header_value_te_chunked
  <2> QED BY <1>2, <2>1, FieldEdges, ConnectionEdges DEF Miss, Codes
<1>6. QuietStep(n, m) /\ m \notin MethodNodes
  BY <1>5, MethodNodesApart DEF QuietStep, CharStep, Others
<1>7. TypeOK' /\ IndexKept'
  BY <1>1, <1>2, <1>3, <1>4 DEF TypeOK, CountsKept, IndexKept
<1>8. Phases' /\ LengthKnown' /\ LengthFlagged'
  BY <1>1, <1>4, <1>6, QuietPhases, QuietLength
<1>9. HeadCounted' /\ ChunkCounted' /\ BodyCounted'
  BY <1>1, <1>4, <1>6, QuietCounts
<1>10. LineNumbers' /\ LineKept'
  BY <1>1, <1>4, <1>6, QuietLine
<1>11. LineSpelled'
  BY <1>5, <1>6 DEF LineSpelled, Codes
<1>12. FieldRecognised'
  BY <1>3, <1>5, <1>6 DEF FieldRecognised, Named, Codes
<1> QED BY <1>7, <1>8, <1>9, <1>10, <1>11, <1>12

-----------------------------------------------------------------------------
(* Digits.                                                                 *)

\* Where no word is matched, _index is 0 and stays so.
LEMMA StillUncut ==
    ASSUME IndexKept, parser.current \in Others \ WordReaders, half' = half,
           parser'.index = parser.index
    PROVE  IndexKept'
BY NotCut DEF IndexKept

LEMMA StoreMajorGood == ASSUME Good, StoreMajor PROVE Good'
<1> USE DEF Good, StateOK
<1> DEFINE n == parser.current
           m == parser'.current
<1> DEFINE to == [req_http_major |-> "req_http_dot",
                  res_http_major |-> "res_http_dot"]
<1>1. PICK d \in VersionDigits :
         /\ n \in DOMAIN to
         /\ parser' = [parser EXCEPT !.http_major = d, !.current = to[n]]
         /\ sent' = [sent EXCEPT !.major = d]
         /\ half' = half /\ event' = event
  BY DEF StoreMajor
<1>2. /\ DOMAIN parser' = ParserFields
      /\ ParserKept({"current", "http_major"}) /\ parser'.http_major = d
      /\ m = to[n]
  BY <1>1 DEF TypeOK, ParserKept, ParserFields
<1>3. /\ DOMAIN sent' = SentFields
      /\ SentKept({"major"}) /\ sent'.major = d
  BY <1>1 DEF TypeOK, SentKept, SentFields
<1>4. /\ CountsKept
      /\ parser'.span = parser.span /\ parser'.flags = parser.flags
      /\ parser'.finish = parser.finish /\ parser'.index = parser.index
      /\ parser'.type = parser.type /\ parser'.method = parser.method
      /\ parser'.http_minor = parser.http_minor
      /\ sent'.minor = sent.minor /\ sent'.code = sent.code
      /\ sent'.word = sent.word /\ sent'.te = sent.te
  BY <1>2, <1>3 DEF CountsKept, ParserKept, ParserFields, SentKept, SentFields
<1>5. n \in Others \ WordReaders /\ n \notin MethodNodes /\ m \notin MethodNodes
  BY <1>1, <1>2, MethodNodesApart DEF Others, WordReaders
<1>6. TypeOK'
  BY <1>2, <1>3, <1>4 DEF TypeOK, CountsKept
<1>7. IndexKept'
  BY <1>1, <1>2, <1>4, <1>5, StillUncut
<1>8. Phases'
  BY <1>1, <1>2, <1>4, <1>5
     DEF Phases, LinePhases, HeaderPhases, BodyPhases, TrailerPhases,
         FinishPhases, EventAt, Line0, Trailing
<1>9. LengthKnown' /\ LengthFlagged' /\ FieldRecognised'
  BY <1>1, <1>2, <1>4
     DEF LengthKnown, LengthFlagged, FieldRecognised, Line0, Trailing,
         CountsKept
<1>10. HeadCounted' /\ ChunkCounted' /\ BodyCounted'
  BY <1>1, <1>2, <1>4
     DEF HeadCounted, ChunkCounted, BodyCounted, Line0, Trailing, CountsKept
<1>11. LineSpelled' /\ LineNumbers'
  BY <1>1, <1>2, <1>3, <1>4, <1>5 DEF LineSpelled, LineNumbers
<1>12. LineKept'
  BY <1>1, <1>2 DEF LineKept, Phases, LinePhases, EventAt
<1> QED BY <1>6, <1>7, <1>8, <1>9, <1>10, <1>11, <1>12

LEMMA StoreMinorGood == ASSUME Good, StoreMinor PROVE Good'
<1> USE DEF Good, StateOK
<1> DEFINE n == parser.current
           m == parser'.current
<1> DEFINE to == [req_http_minor |-> "req_http_end",
                  res_http_minor |-> "res_http_end"]
<1>1. PICK d \in VersionDigits :
         /\ n \in DOMAIN to
         /\ parser' = [parser EXCEPT !.http_minor = d, !.current = to[n]]
         /\ sent' = [sent EXCEPT !.minor = d]
         /\ half' = half /\ event' = event
  BY DEF StoreMinor
<1>2. /\ DOMAIN parser' = ParserFields
      /\ ParserKept({"current", "http_minor"}) /\ parser'.http_minor = d
      /\ m = to[n]
  BY <1>1 DEF TypeOK, ParserKept, ParserFields
<1>3. /\ DOMAIN sent' = SentFields
      /\ SentKept({"minor"}) /\ sent'.minor = d
  BY <1>1 DEF TypeOK, SentKept, SentFields
<1>4. /\ CountsKept
      /\ parser'.span = parser.span /\ parser'.flags = parser.flags
      /\ parser'.finish = parser.finish /\ parser'.index = parser.index
      /\ parser'.type = parser.type /\ parser'.method = parser.method
      /\ parser'.http_major = parser.http_major
      /\ sent'.major = sent.major /\ sent'.code = sent.code
      /\ sent'.word = sent.word /\ sent'.te = sent.te
  BY <1>2, <1>3 DEF CountsKept, ParserKept, ParserFields, SentKept, SentFields
<1>5. n \in Others \ WordReaders /\ n \notin MethodNodes /\ m \notin MethodNodes
  BY <1>1, <1>2, MethodNodesApart DEF Others, WordReaders
<1>6. TypeOK'
  BY <1>2, <1>3, <1>4 DEF TypeOK, CountsKept
<1>7. IndexKept'
  BY <1>1, <1>2, <1>4, <1>5, StillUncut
<1>8. Phases'
  BY <1>1, <1>2, <1>4, <1>5
     DEF Phases, LinePhases, HeaderPhases, BodyPhases, TrailerPhases,
         FinishPhases, EventAt, Line0, Trailing
<1>9. LengthKnown' /\ LengthFlagged' /\ FieldRecognised'
  BY <1>1, <1>2, <1>4
     DEF LengthKnown, LengthFlagged, FieldRecognised, Line0, Trailing,
         CountsKept
<1>10. HeadCounted' /\ ChunkCounted' /\ BodyCounted'
  BY <1>1, <1>2, <1>4
     DEF HeadCounted, ChunkCounted, BodyCounted, Line0, Trailing, CountsKept
<1>11. LineSpelled' /\ LineNumbers'
  BY <1>1, <1>2, <1>3, <1>4, <1>5 DEF LineSpelled, LineNumbers
<1>12. LineKept'
  BY <1>1, <1>2 DEF LineKept, Phases, LinePhases, EventAt
<1> QED BY <1>6, <1>7, <1>8, <1>9, <1>10, <1>11, <1>12

LEMMA StatusDigitGood == ASSUME Good, StatusDigit PROVE Good'
<1> USE DEF Good, StateOK
<1> DEFINE n == parser.current
           m == parser'.current
<1>1. PICK d \in StatusDigits :
         /\ n = "res_status_code"
         /\ m \in {"res_status_code", "INVALID_STATUS"}
         /\ parser' = [parser EXCEPT !.status_code = @ * 10 + d, !.current = m]
         /\ sent' = [sent EXCEPT !.code = @ * 10 + d]
         /\ half' = half /\ event' = event
  BY DEF StatusDigit, At, TypeOK, ParserFields
<1>2. /\ DOMAIN parser' = ParserFields
      /\ ParserKept({"current", "status_code"})
      /\ parser'.status_code = parser.status_code * 10 + d
  BY <1>1 DEF TypeOK, ParserKept, ParserFields
<1>3. /\ DOMAIN sent' = SentFields
      /\ SentKept({"code"}) /\ sent'.code = sent.code * 10 + d
  BY <1>1 DEF TypeOK, SentKept, SentFields
<1>4. /\ CountsKept
      /\ parser'.span = parser.span /\ parser'.flags = parser.flags
      /\ parser'.finish = parser.finish /\ parser'.index = parser.index
      /\ parser'.type = parser.type /\ parser'.http_major = parser.http_major
      /\ parser'.http_minor = parser.http_minor
      /\ sent'.major = sent.major /\ sent'.minor = sent.minor
      /\ sent'.word = sent.word /\ sent'.te = sent.te
  BY <1>2, <1>3 DEF CountsKept, ParserKept, ParserFields, SentKept, SentFields
<1>5. n \in Others \ WordReaders /\ m \notin MethodNodes /\ m \notin Body
  BY <1>1, MethodNodesApart DEF Others, WordReaders, Codes
<1>6. TypeOK'
  BY <1>2, <1>3, <1>4 DEF TypeOK, CountsKept
<1>7. IndexKept'
  BY <1>1, <1>4, <1>5, StillUncut
<1>8. Phases'
  BY <1>1, <1>4, <1>5
     DEF Phases, LinePhases, HeaderPhases, BodyPhases, TrailerPhases,
         FinishPhases, EventAt, Line0, Trailing
<1>9. LengthKnown' /\ LengthFlagged' /\ FieldRecognised'
  BY <1>1, <1>4
     DEF LengthKnown, LengthFlagged, FieldRecognised, Line0, Trailing,
         CountsKept
<1>10. HeadCounted' /\ ChunkCounted' /\ BodyCounted'
  BY <1>1, <1>4
     DEF HeadCounted, ChunkCounted, BodyCounted, Line0, Trailing, CountsKept
<1>11. LineSpelled' /\ LineNumbers'
  <2>1. parser'.status_code = sent'.code
    BY <1>1, <1>2, <1>3 DEF LineNumbers
  <2> QED BY <1>1, <1>4, <1>5, <2>1 DEF LineSpelled, LineNumbers
<1>12. LineKept'
  BY <1>1 DEF LineKept, Phases, LinePhases, EventAt
<1> QED BY <1>6, <1>7, <1>8, <1>9, <1>10, <1>11, <1>12

\* A sum that was found not to overflow is the one of the numbers.
LEMMA MulAddExact ==
    ASSUME NEW base \in {10, 16}, NEW v \in Nat, NEW d \in 0 .. 15,
           ~Overflows(base, v, d)
    PROVE  MulAdd(base, v, d) = v * base + d
<1>1. v * base \in Nat /\ v * base + d <= LengthMax /\ v * base + d \in Nat
  BY LengthAssumption DEF Overflows
<1>2. \A x \in Nat : x <= LengthMax => x % (LengthMax + 1) = x
  BY LengthAssumption
<1> QED BY <1>1, <1>2 DEF MulAdd

LEMMA LengthDigitGood == ASSUME Good, LengthDigit PROVE Good'
<1> USE DEF Good, StateOK
<1> DEFINE n == parser.current
           m == parser'.current
           v == parser.content_length
<1>1. PICK d \in LengthDigits :
         /\ n = "header_value_content_length"
         /\ parser' = IF Overflows(10, v, d)
                      THEN [parser EXCEPT
                               !.current = "span_end_on_header_value_4"]
                      ELSE [parser EXCEPT !.content_length = MulAdd(10, v, d)]
         /\ sent' = IF Trailing THEN sent
                    ELSE [sent EXCEPT !.length = @ * 10 + d]
         /\ half' = half /\ event' = event
  BY DEF LengthDigit, At, Trailing
<1>2. d \in 0 .. 15 /\ d \in Nat
  BY DigitsAssumption
<1>3. /\ DOMAIN parser' = ParserFields
      /\ ParserKept({"current", "content_length"})
      /\ \/ m = "span_end_on_header_value_4" /\ parser'.content_length = v
         \/ m = n /\ parser'.content_length = v * 10 + d
  BY <1>1, <1>2, MulAddExact DEF TypeOK, ParserKept, ParserFields
<1>4. /\ DOMAIN sent' = SentFields /\ SentKept({"length"})
      /\ sent'.length = IF Trailing THEN sent.length ELSE sent.length * 10 + d
  BY <1>1 DEF TypeOK, SentKept, SentFields
<1>5. /\ LineFieldsKept
      /\ parser'.span = parser.span /\ parser'.flags = parser.flags
      /\ parser'.finish = parser.finish /\ parser'.index = parser.index
      /\ parser'.header_state = parser.header_state
      /\ sent'.word = sent.word /\ sent'.field = sent.field
      /\ sent'.cl = sent.cl /\ sent'.te = sent.te
      /\ sent'.delivered = sent.delivered /\ sent'.leftover = sent.leftover
  BY <1>3, <1>4
     DEF LineFieldsKept, ParserKept, ParserFields, SentKept, SentFields
<1>6. /\ n \in Others \ WordReaders /\ m \notin MethodNodes
      /\ n \in LengthValue /\ m \in LengthValue \cup LengthBad
  BY <1>1, <1>3, MethodNodesApart DEF Others, WordReaders
<1>7. TypeOK'
  BY <1>2, <1>3, <1>4, <1>5 DEF TypeOK
<1>8. IndexKept'
  BY <1>1, <1>5, <1>6, StillUncut
<1>9. Phases'
  BY <1>1, <1>5, <1>6
     DEF Phases, LinePhases, HeaderPhases, BodyPhases, TrailerPhases,
         FinishPhases, EventAt, Line0, Trailing
<1>10. LengthKnown' /\ LengthFlagged' /\ FieldRecognised'
  BY <1>1, <1>5, <1>6
     DEF LengthKnown, LengthFlagged, FieldRecognised, Line0, Trailing
<1>11. HeadCounted'
  BY <1>1, <1>3, <1>4, <1>5, <1>6 DEF HeadCounted, Line0, Trailing
<1>12. ChunkCounted' /\ BodyCounted'
  BY <1>1, <1>4, <1>5, <1>6 DEF ChunkCounted, BodyCounted, Trailing
<1>13. LineSpelled' /\ LineNumbers' /\ LineKept'
  BY <1>1, <1>5, <1>6
     DEF LineSpelled, LineNumbers, LineKept, LineKnown, LineFieldsKept
<1> QED BY <1>7, <1>8, <1>9, <1>10, <1>11, <1>12, <1>13

LEMMA ChunkDigitGood == ASSUME Good, ChunkDigit PROVE Good'
<1> USE DEF Good, StateOK
<1> DEFINE n == parser.current
           m == parser'.current
           v == parser.content_length
<1>1. PICK d \in ChunkDigits :
         /\ n \in {"chunk_size_digit", "chunk_size"}
         /\ parser' = IF Overflows(16, v, d)
                      THEN [parser EXCEPT !.current = "INVALID_CHUNK_SIZE"]
                      ELSE [parser EXCEPT !.current = "chunk_size",
                               !.content_length = MulAdd(16, v, d)]
         /\ sent' = [sent EXCEPT !.length = @ * 16 + d]
         /\ half' = half /\ event' = event
  BY DEF ChunkDigit, At
<1>2. d \in 0 .. 15 /\ d \in Nat
  BY DigitsAssumption
<1>3. /\ DOMAIN parser' = ParserFields
      /\ ParserKept({"current", "content_length"})
      /\ \/ m = "INVALID_CHUNK_SIZE" /\ parser'.content_length = v
         \/ m = "chunk_size" /\ parser'.content_length = v * 16 + d
  BY <1>1, <1>2, MulAddExact DEF TypeOK, ParserKept, ParserFields
<1>4. /\ DOMAIN sent' = SentFields /\ SentKept({"length"})
      /\ sent'.length = sent.length * 16 + d
  BY <1>1 DEF TypeOK, SentKept, SentFields
<1>5. /\ LineFieldsKept
      /\ parser'.span = parser.span /\ parser'.flags = parser.flags
      /\ parser'.finish = parser.finish /\ parser'.index = parser.index
      /\ sent'.word = sent.word
      /\ sent'.cl = sent.cl /\ sent'.te = sent.te
      /\ sent'.delivered = sent.delivered /\ sent'.leftover = sent.leftover
  BY <1>3, <1>4
     DEF LineFieldsKept, ParserKept, ParserFields, SentKept, SentFields
<1>6. n \in Others \ WordReaders /\ m \notin MethodNodes
  BY <1>1, <1>3, MethodNodesApart DEF Others, WordReaders, Codes
<1>7. TypeOK'
  BY <1>2, <1>3, <1>4, <1>5 DEF TypeOK
<1>8. IndexKept'
  BY <1>1, <1>5, <1>6, StillUncut
<1>9. Phases'
  BY <1>1, <1>3, <1>5, <1>6
     DEF Phases, LinePhases, HeaderPhases, BodyPhases, TrailerPhases,
         FinishPhases, EventAt, Line0, Trailing
<1>10. LengthKnown' /\ LengthFlagged' /\ FieldRecognised'
  BY <1>1, <1>3, <1>5, <1>6
     DEF LengthKnown, LengthFlagged, FieldRecognised, Line0, Trailing
<1>11. HeadCounted' /\ BodyCounted'
  BY <1>1, <1>3, <1>5, <1>6 DEF HeadCounted, BodyCounted, Line0
<1>12. ChunkCounted'
  <2>1. ~Trailing' /\ parser.content_length + sent.delivered = sent.length
    BY <1>1, <1>5 DEF Phases, TrailerPhases, ChunkCounted, Trailing
  <2>2. sent.delivered = 0 /\ sent'.delivered = 0
    BY <1>1, <1>5 DEF ChunkCounted
  <2>3. v = sent.length
    BY <2>1, <2>2 DEF TypeOK
  <2>4. CASE m = "chunk_size"
    <3>1. parser'.content_length + sent'.delivered = sent'.length
      BY <1>2, <1>3, <1>4, <2>2, <2>3, <2>4 DEF TypeOK
    <3> QED BY <2>1, <2>2, <2>4, <3>1 DEF ChunkCounted
  <2>5. CASE m = "INVALID_CHUNK_SIZE"
    BY <2>1, <2>5 DEF ChunkCounted
  <2> QED BY <1>3, <2>4, <2>5
<1>13. LineSpelled' /\ LineNumbers' /\ LineKept'
  BY <1>1, <1>3, <1>5, <1>6
     DEF LineSpelled, LineNumbers, LineKept, LineKnown, LineFieldsKept
<1> QED BY <1>7, <1>8, <1>9, <1>10, <1>11, <1>12, <1>13

-----------------------------------------------------------------------------
(* Callbacks.                                                              *)

LEMMA CallbackGood == ASSUME Good, Callback PROVE Good'
<1> USE DEF Good, StateOK
<1> DEFINE n == parser.current
           m == parser'.current
           begins == n = "invoke_on_message_begin"
<1>1. /\ n \in DOMAIN PausingNodes /\ event' = Called(PausingNodes[n].cb)
      /\ \E err : parser' = [parser EXCEPT !.error = err,
                                !.current = IF err = PausingNodes[n].code
                                            THEN "s_error"
                                            ELSE PausingNodes[n].next]
      /\ sent' = IF begins
                 THEN [NewMessage EXCEPT
                          !.leftover = parser.content_length # 0,
                          !.nth = sent.nth + 1]
                 ELSE sent
      /\ half' = half
  BY DEF Callback
<1>2. /\ DOMAIN parser' = ParserFields /\ ParserKept({"current", "error"})
      /\ m \in {PausingNodes[n].next, "s_error"}
  BY <1>1 DEF TypeOK, ParserKept, ParserFields
<1>3. /\ ~begins => sent' = sent
      /\ begins => /\ DOMAIN sent' = SentFields
                   /\ sent'.word = NoText /\ sent'.major = 0 /\ sent'.minor = 9
                   /\ sent'.code = 0 /\ ~sent'.cl /\ ~sent'.te
                   /\ sent'.length = 0 /\ sent'.delivered = 0
                   /\ sent'.leftover = (parser.content_length # 0)
  BY <1>1 DEF NewMessage, SentFields
<1>4. /\ LineFieldsKept \/ begins
      /\ parser'.span = parser.span /\ parser'.flags = parser.flags
      /\ parser'.finish = parser.finish /\ parser'.index = parser.index
      /\ parser'.content_length = parser.content_length
      /\ parser'.method = parser.method
  BY <1>2, <1>3 DEF LineFieldsKept, ParserKept, ParserFields
<1>5. \/ /\ begins /\ m \in {"invoke_load_type", "s_error"}
         /\ event' = "on_message_begin"
      \/ /\ n \in NoBody \cup BodyRead /\ m \in MessageEnd \cup {"s_error"}
         /\ event' = "on_message_complete"
      \/ /\ n = "invoke_on_chunk_header"
         /\ m \in {"invoke_is_equal_content_length", "s_error"}
         /\ event' = "on_chunk_header"
      \/ /\ n = "invoke_on_chunk_complete" /\ m \in ChunkStart \cup {"s_error"}
         /\ event' = "on_chunk_complete"
      \/ /\ n \in TrailerRead /\ m \in BodyRead \cup {"s_error"}
         /\ event' = "on_chunk_complete"
  <2>1. n \in {"invoke_on_message_begin", "invoke_on_chunk_header",
               "invoke_on_chunk_complete"} \cup NoBody \cup BodyRead
              \cup TrailerRead
    BY <1>1 DEF PausingNodes
  <2>2. event # PausingNodes[n].cb
    BY <2>1 DEF Phases, LinePhases, BodyPhases, EventAt, ValueEvents,
       PausingNodes, Complete, TrailerComplete, Pausing
  <2> QED BY <1>1, <1>2, <2>1, <2>2
          DEF Called, PausingNodes, Complete, TrailerComplete, Pausing
<1>6. n \in Others \ WordReaders /\ n \notin MethodNodes /\ m \notin MethodNodes
  BY <1>5, MethodNodesApart DEF Others, WordReaders
<1>7. TypeOK'
  BY <1>2, <1>3, <1>4 DEF TypeOK
<1>8. IndexKept'
  BY <1>1, <1>4, <1>6, StillUncut
<1>9. Phases'
  <2>1. LinePhases' /\ HeaderPhases'
    BY <1>4, <1>5, <1>6 DEF Phases, LinePhases, HeaderPhases, EventAt, Trailing
  <2>2. BodyPhases'
    BY <1>4, <1>5 DEF Phases, BodyPhases, EventAt, Trailing
  <2>3. TrailerPhases'
    BY <1>4, <1>5, <1>6 DEF Phases, TrailerPhases, Line0, Trailing
  <2>4. FinishPhases'
    BY <1>4, <1>5, <1>6 DEF Phases, FinishPhases, Line0
  <2> QED BY <2>1, <2>2, <2>3, <2>4 DEF Phases
<1>10. LengthKnown' /\ FieldRecognised'
  BY <1>3, <1>5 DEF LengthKnown, FieldRecognised
<1>11. LengthFlagged'
  BY <1>3, <1>4, <1>5, <1>6
     DEF LengthFlagged, Line0, Trailing, BodyEvents, Phases, BodyPhases,
         TrailerPhases, EventAt
<1>12. HeadCounted'
  BY <1>3, <1>4, <1>5, <1>6 DEF HeadCounted, Line0, Trailing
<1>13. ChunkCounted'
  BY <1>3, <1>4, <1>5 DEF ChunkCounted, Trailing, Phases, TrailerPhases, TypeOK
<1>14. BodyCounted'
  BY <1>3, <1>4, <1>5
     DEF BodyCounted, ChunkCounted, DeclaredLength, Trailing, Phases,
         TrailerPhases
<1>15. LineSpelled' /\ LineNumbers'
  BY <1>3, <1>4, <1>5, <1>6 DEF LineSpelled, LineNumbers
<1>16. LineKept'
  BY <1>3, <1>4, <1>5 DEF LineKept, LineKnown, LineFieldsKept
<1> QED BY <1>7, <1>8, <1>9, <1>10, <1>11, <1>12, <1>13, <1>14, <1>15, <1>16

LEMMA IgnoringCallbackGood == ASSUME Good, IgnoringCallback PROVE Good'
<1> USE DEF Good, StateOK
<1> DEFINE n == parser.current
           m == parser'.current
<1>1. /\ n \in DOMAIN IgnoringNodes /\ event' = Called(IgnoringNodes[n].cb)
      /\ parser' = [parser EXCEPT !.current = IgnoringNodes[n].next]
      /\ sent' = sent /\ half' = half /\ look' = look
  BY DEF IgnoringCallback
<1>2. /\ DOMAIN parser' = ParserFields /\ ParserKept({"current"})
      /\ m = IgnoringNodes[n].next
  BY <1>1 DEF TypeOK, ParserKept, ParserFields
<1>3. /\ CountsKept /\ LineFieldsKept
      /\ parser'.span = parser.span /\ parser'.flags = parser.flags
      /\ parser'.finish = parser.finish /\ parser'.index = parser.index
      /\ parser'.header_state = parser.header_state
  BY <1>1, <1>2 DEF CountsKept, LineFieldsKept, ParserKept, ParserFields
<1>4. \/ /\ n \in NoVersion /\ m = "header_field_start"
         /\ event' = "on_url_complete"
      \/ /\ n = "invoke_on_url_complete_1" /\ m = "req_http_start"
         /\ event' = "on_url_complete"
      \/ /\ n = "invoke_on_status_complete" /\ m = "header_field_start"
         /\ event' = "on_status_complete"
      \/ /\ n \in FieldRead /\ m = "header_value_discard_ws"
         /\ event' = "on_header_field_complete"
      \/ /\ n = "invoke_on_header_value_complete" /\ m = "header_field_start"
         /\ event' = "on_header_value_complete"
  <2>1. event # IgnoringNodes[n].cb
    BY <1>1 DEF Phases, LinePhases, HeaderPhases, EventAt, IgnoringNodes
  <2> QED BY <1>1, <1>2, <2>1 DEF Called, IgnoringNodes
<1>5. n \in Others \ WordReaders /\ n \notin MethodNodes /\ m \notin MethodNodes
  BY <1>4, MethodNodesApart DEF Others, WordReaders
<1>6. TypeOK'
  BY <1>1, <1>2, <1>3 DEF TypeOK, CountsKept
<1>7. IndexKept'
  BY <1>1, <1>3, <1>5, StillUncut
<1>8. Phases'
  <2>1. LinePhases' /\ BodyPhases'
    BY <1>3, <1>4, <1>5 DEF Phases, LinePhases, BodyPhases, EventAt
  <2>2. HeaderPhases'
    BY <1>3, <1>4
       DEF Phases, LinePhases, HeaderPhases, TrailerPhases, Line0, EventAt,
           StartEvents, LineEvents, ValueEvents, Trailing
  <2>3. TrailerPhases' /\ FinishPhases'
    BY <1>3, <1>4, <1>5
       DEF Phases, TrailerPhases, FinishPhases, Line0, Trailing
  <2> QED BY <2>1, <2>2, <2>3 DEF Phases
<1>9. LengthKnown' /\ LengthFlagged'
  BY <1>1, <1>3, <1>4, <1>5
     DEF LengthKnown, LengthFlagged, Line0, Trailing, BodyEvents
<1>10. FieldRecognised'
  BY <1>1, <1>3, <1>4 DEF FieldRecognised, Named
<1>11. HeadCounted' /\ ChunkCounted' /\ BodyCounted'
  BY <1>3, <1>4, <1>5
     DEF HeadCounted, ChunkCounted, BodyCounted, Line0, Trailing, CountsKept
<1>12. LineSpelled' /\ LineNumbers'
  BY <1>1, <1>3, <1>4, <1>5 DEF LineSpelled, LineNumbers, LineFieldsKept
<1>13. LineKept'
  BY <1>1, <1>3, <1>4
     DEF LineKept, LineKnown, LineSpelled, LineNumbers, LineFieldsKept
<1> QED BY <1>6, <1>7, <1>8, <1>9, <1>10, <1>11, <1>12, <1>13

-----------------------------------------------------------------------------
(* Spans.                                                                  *)

LEMMA SpanStartGood == ASSUME Good, SpanStart PROVE Good'
<1> USE DEF Good, StateOK
<1> DEFINE n == parser.current
           m == parser'.current
           values == n = "span_start_on_header_value_1" /\ ~Trailing
<1>1. /\ n \in DOMAIN SpanStarts
      /\ parser' = [parser EXCEPT !.span = SpanStarts[n].cb,
                                  !.current = SpanStarts[n].next]
      /\ sent' = Spanned(n) /\ half' = half /\ event' = event
  BY DEF SpanStart
<1>2. /\ DOMAIN parser' = ParserFields /\ ParserKept({"current", "span"})
      /\ m = SpanStarts[n].next /\ parser'.span = SpanStarts[n].cb
  BY <1>1 DEF TypeOK, ParserKept, ParserFields
<1>3. /\ DOMAIN sent' = SentFields /\ SentKept({"field", "fields", "cl", "te"})
      /\ sent'.field = IF n = "span_start_on_header_field" THEN NoText
                       ELSE sent.field
      /\ ~values => sent'.cl = sent.cl /\ sent'.te = sent.te
      /\ values => /\ sent'.cl => sent.cl \/ sent.field = "content-length"
                   /\ sent'.te => sent.te \/ sent.field = "transfer-encoding"
  BY <1>1 DEF TypeOK, SentKept, SentFields, Spanned, Trailing
<1>4. /\ LineFieldsKept
      /\ parser'.flags = parser.flags /\ parser'.finish = parser.finish
      /\ parser'.index = parser.index /\ parser'.method = parser.method
      /\ parser'.header_state = parser.header_state
      /\ parser'.content_length = parser.content_length
      /\ sent'.word = sent.word /\ sent'.length = sent.length
      /\ sent'.delivered = sent.delivered /\ sent'.leftover = sent.leftover
  BY <1>2, <1>3
     DEF LineFieldsKept, ParserKept, ParserFields, SentKept, SentFields
<1>5. \/ n \in MethodRead /\ m \in UrlText /\ parser'.span = "on_url"
      \/ n \in StatusCode /\ m \in {"res_status"} /\ parser'.span = "on_status"
      \/ /\ n = "span_start_on_header_field" /\ m = "header_field"
         /\ parser'.span = "on_header_field"
      \/ /\ n = "span_start_on_header_value" /\ m \in ValueEnd
         /\ parser'.span = "on_header_value"
      \/ /\ n = "span_start_on_header_value_1" /\ m \in ValueKind
         /\ parser'.span = "on_header_value"
      \/ /\ n = "span_start_on_body" /\ m = "consume_content_length"
         /\ parser'.span = "on_body"
      \/ /\ n = "span_start_on_body_1" /\ m = "consume_content_length_1"
         /\ parser'.span = "on_body"
      \/ /\ n = "span_start_on_body_2" /\ m = "eof" /\ parser'.span = "on_body"
  BY <1>1, <1>2 DEF SpanStarts
<1>6. n \in Others \ WordReaders /\ n \notin MethodNodes /\ m \notin MethodNodes
  BY <1>5, MethodNodesApart DEF Others, WordReaders
<1>7. TypeOK'
  BY <1>2, <1>3, <1>4 DEF TypeOK
<1>8. IndexKept'
  BY <1>1, <1>4, <1>6, StillUncut
<1>9. Phases'
  <2>1. LinePhases'
    BY <1>1, <1>5, <1>6 DEF Phases, LinePhases, EventAt
  <2>2. HeaderPhases'
    BY <1>1, <1>4, <1>5 DEF Phases, HeaderPhases, EventAt, StartEvents, Trailing
  <2>3. BodyPhases'
    BY <1>1, <1>5 DEF Phases, BodyPhases, EventAt
  <2>4. TrailerPhases' /\ FinishPhases'
    BY <1>4, <1>5, <1>6
       DEF Phases, TrailerPhases, FinishPhases, Line0, Trailing
  <2> QED BY <2>1, <2>2, <2>3, <2>4 DEF Phases
<1>10. LengthKnown'
  BY <1>3, <1>4, <1>5, <1>6 DEF LengthKnown, FieldRecognised, Trailing
<1>11. LengthFlagged'
  <2>1. values => event' \notin BodyEvents /\ ~Trailing'
    BY <1>1, <1>4 DEF Phases, HeaderPhases, EventAt, BodyEvents, Trailing
  <2> QED BY <1>1, <1>3, <1>4, <1>5, <1>6, <2>1
          DEF LengthFlagged, Line0, Trailing
<1>12. FieldRecognised'
  BY <1>3, <1>4, <1>5, SpellingAssumption DEF FieldRecognised, Named
<1>13. HeadCounted' /\ ChunkCounted'
  BY <1>1, <1>4, <1>5, <1>6 DEF HeadCounted, ChunkCounted, Line0, Trailing
<1>14. BodyCounted'
  BY <1>1, <1>4, <1>5 DEF BodyCounted
<1>15. LineSpelled' /\ LineNumbers' /\ LineKept'
  BY <1>1, <1>4, <1>5, <1>6
     DEF LineSpelled, LineNumbers, LineKept, LineKnown, LineFieldsKept
<1> QED BY <1>7, <1>8, <1>9, <1>10, <1>11, <1>12, <1>13, <1>14, <1>15

\* The callback of a span may be called again and again.
LEMMA SpanCalled ==
    ASSUME Phases, parser.span # "none",
           parser.current \in MethodNodes \cup (Others \ ({"s_error"} \cup Codes))
    PROVE  parser.span \in Data
BY DEF Phases, LinePhases, HeaderPhases, BodyPhases, EventAt, Data, Others

LEMMA SpanEndGood == ASSUME Good, SpanEnd PROVE Good'
<1> USE DEF Good, StateOK
<1> DEFINE n == parser.current
           m == parser'.current
<1>1. /\ n \in DOMAIN SpanEnds /\ event' = Called(parser.span)
      /\ \E err : parser' = [parser EXCEPT !.span = "none", !.error = err,
                                           !.current = SpanEnds[n].next]
      /\ sent' = sent /\ half' = half
  BY DEF SpanEnd
<1>2. /\ DOMAIN parser' = ParserFields
      /\ ParserKept({"current", "span", "error"})
      /\ m = SpanEnds[n].next /\ parser'.span = "none"
  BY <1>1 DEF TypeOK, ParserKept, ParserFields
<1>3. /\ CountsKept /\ LineFieldsKept
      /\ parser'.flags = parser.flags
      /\ parser'.finish = parser.finish /\ parser'.index = parser.index
      /\ parser'.header_state = parser.header_state
  BY <1>1, <1>2 DEF CountsKept, LineFieldsKept, ParserKept, ParserFields
<1>4. /\ event' = parser.span
      /\ \/ n \in UrlText /\ m \in UrlRead /\ event' = "on_url"
         \/ n \in StatusText /\ m \in StatusRead /\ event' = "on_status"
         \/ /\ n = "span_end_on_header_field" /\ m = "header_value_discard_ws"
            /\ event' = "on_header_field"
         \/ n \in FieldOther /\ m \in FieldRead /\ event' = "on_header_field"
         \/ /\ n \in ValueEnd
            /\ m \in {"header_field_start", "header_value_almost_done"}
            /\ event' = "on_header_value"
         \/ /\ n \in LengthValue \cup LengthBad /\ m \in Codes
            /\ event' = "on_header_value"
         \/ /\ n = "span_end_on_body" /\ m \in ChunkRead /\ event' = "on_body"
         \/ /\ n = "span_end_on_body_1" /\ m \in BodyRead
            /\ event' = "on_body"
  <2>1. \/ n \in UrlText /\ m \in UrlRead
        \/ n \in StatusText /\ m \in StatusRead
        \/ n = "span_end_on_header_field" /\ m = "header_value_discard_ws"
        \/ n \in FieldOther /\ m \in FieldRead
        \/ n \in ValueEnd /\ m \in {"header_field_start",
                                    "header_value_almost_done"}
        \/ n \in LengthValue \cup LengthBad /\ m \in Codes
        \/ n = "span_end_on_body" /\ m \in ChunkRead
        \/ n = "span_end_on_body_1" /\ m \in BodyRead
    BY <1>1, <1>2 DEF SpanEnds, Codes
  <2>2. parser.span \in Data => event' = parser.span
    BY <1>1 DEF Called
  <2> QED BY <2>1, <2>2
          DEF Phases, LinePhases, HeaderPhases, BodyPhases, EventAt, Data
<1>5. n \in Others \ WordReaders /\ n \notin MethodNodes /\ m \notin MethodNodes
  BY <1>4, MethodNodesApart DEF Others, WordReaders
<1>6. TypeOK'
  BY <1>1, <1>2, <1>3 DEF TypeOK, CountsKept
<1>7. IndexKept'
  BY <1>1, <1>3, <1>5, StillUncut
<1>8. Phases'
  <2>1. LinePhases'
    BY <1>2, <1>4, <1>5 DEF LinePhases, EventAt, Codes
  <2>2. HeaderPhases'
    BY <1>2, <1>4 DEF HeaderPhases, EventAt, StartEvents, ValueEvents, Codes
  <2>3. BodyPhases'
    BY <1>2, <1>4 DEF BodyPhases, EventAt, Codes
  <2>4. TrailerPhases' /\ FinishPhases'
    BY <1>3, <1>4, <1>5
       DEF Phases, TrailerPhases, FinishPhases, Line0, Trailing, Codes
  <2> QED BY <2>1, <2>2, <2>3, <2>4 DEF Phases
<1>9. LengthKnown'
  BY <1>1, <1>3, <1>4, <1>5 DEF LengthKnown, LengthFlagged, Line0, Trailing, Codes
<1>10. LengthFlagged'
  BY <1>1, <1>3, <1>4, <1>5
     DEF LengthFlagged, Line0, Trailing, BodyEvents, Phases, BodyPhases,
         EventAt, Codes
<1>11. FieldRecognised'
  BY <1>1, <1>3, <1>4 DEF FieldRecognised, Named, Codes
<1>12. HeadCounted' /\ ChunkCounted'
  BY <1>3, <1>4, <1>5
     DEF HeadCounted, ChunkCounted, Line0, Trailing, CountsKept, Codes
<1>13. BodyCounted'
  BY <1>3, <1>4 DEF BodyCounted, CountsKept, DeclaredLength, TypeOK, Codes
<1>14. LineSpelled' /\ LineNumbers' /\ LineKept'
  BY <1>1, <1>3, <1>4, <1>5
     DEF LineSpelled, LineNumbers, LineKept, LineKnown, LineFieldsKept, Codes
<1> QED BY <1>6, <1>7, <1>8, <1>9, <1>10, <1>11, <1>12, <1>13, <1>14

\* The states in which the parser may run out of input.
LEMMA WaitingReaders ==
    ASSUME parser.current \in WaitingNodes PROVE parser.current \in Readers
BY CharNodesFit, TrieReaders
   DEF WaitingNodes, Fits, Readers, WordReaders, Line0

\* A step that only calls the callback of the open span, or sets the error.
LEMMA SameState ==
    ASSUME Good, DOMAIN parser' = ParserFields, ParserKept({"error"}),
           sent' = sent, half' = half, look' = look,
           \/ event' = event
           \/ /\ event' = parser.span /\ parser.span \in Data
              /\ parser.current \in Readers /\ look = NoChar
    PROVE  Good'
<1> USE DEF Good, StateOK
<1> DEFINE n == parser.current
<1>1. /\ CountsKept /\ LineFieldsKept /\ parser'.current = n
      /\ parser'.span = parser.span /\ parser'.flags = parser.flags
      /\ parser'.finish = parser.finish /\ parser'.index = parser.index
      /\ parser'.header_state = parser.header_state
  BY DEF CountsKept, LineFieldsKept, ParserKept, ParserFields
<1>2. TypeOK' /\ IndexKept'
  BY <1>1 DEF TypeOK, CountsKept, IndexKept
<1>3. Phases'
  <2>1. CASE event' = event
    BY <1>1, <2>1
       DEF Phases, LinePhases, HeaderPhases, BodyPhases, TrailerPhases,
           FinishPhases, EventAt, StartEvents, Trailing
  <2>2. CASE event' = parser.span /\ parser.span \in Data /\ n \in Readers
    <3>1. LinePhases'
      BY <1>1, <2>2, MethodNodesApart
         DEF Phases, LinePhases, EventAt, Data, Readers, Line0, Others
    <3>2. HeaderPhases'
      BY <1>1, <2>2, MethodNodesApart
         DEF Phases, HeaderPhases, EventAt, Data, StartEvents, Trailing
    <3>3. BodyPhases'
      BY <1>1, <2>2, MethodNodesApart
         DEF Phases, BodyPhases, EventAt, Data
    <3>4. TrailerPhases' /\ FinishPhases'
      BY <1>1 DEF Phases, TrailerPhases, FinishPhases, Trailing
    <3> QED BY <3>1, <3>2, <3>3, <3>4 DEF Phases
  <2> QED BY <2>1, <2>2
<1>4. event' # event => event' \notin {"on_headers_complete",
                           "on_chunk_complete", "on_message_complete"}
  BY DEF Data
<1>5. LengthKnown' /\ FieldRecognised'
  BY <1>1 DEF LengthKnown, FieldRecognised, Named, Trailing
<1>6. LengthFlagged'
  <2>1. event' \in BodyEvents /\ event' # event => event \in BodyEvents
    BY MethodNodesApart
       DEF BodyEvents, Data, Phases, LinePhases, HeaderPhases, BodyPhases,
           EventAt, Readers, Line0, Others
  <2> QED BY <1>1, <2>1 DEF LengthFlagged, Trailing
<1>7. HeadCounted' /\ ChunkCounted' /\ BodyCounted'
  BY <1>1, <1>4
     DEF HeadCounted, ChunkCounted, BodyCounted, DeclaredLength, CountsKept,
         Trailing
<1>8. LineSpelled' /\ LineNumbers' /\ LineKept'
  BY <1>1, <1>4
     DEF LineSpelled, LineNumbers, LineKept, LineKnown, LineFieldsKept
<1> QED BY <1>2, <1>3, <1>5, <1>6, <1>7, <1>8

LEMMA ExecuteReturnsGood == ASSUME Good, ExecuteReturns PROVE Good'
<1> USE DEF Good, StateOK
<1>1. /\ parser.current \in WaitingNodes /\ look = NoChar
      /\ parser.span # "none" /\ event' = Called(parser.span)
      /\ \E err : parser' = [parser EXCEPT !.error = err]
      /\ sent' = sent /\ half' = half /\ look' = look
  BY DEF ExecuteReturns, Waiting
<1>2. DOMAIN parser' = ParserFields /\ ParserKept({"error"})
  BY <1>1 DEF TypeOK, ParserKept, ParserFields
<1>3. parser.current \in Readers
  BY <1>1, WaitingReaders
<1>4. parser.span \in Data
  BY <1>1, <1>3, SpanCalled DEF Readers, Line0, Others, Codes
<1>5. event' = parser.span
  BY <1>1, <1>4 DEF Called
<1> QED BY <1>1, <1>2, <1>3, <1>4, <1>5, SameState

LEMMA ConsumeGood == ASSUME Good, Consume PROVE Good'
<1> USE DEF Good, StateOK
<1> DEFINE n == parser.current
           m == parser'.current
           v == parser.content_length
           ends == [consume_content_length   |-> "span_end_on_body",
                    consume_content_length_1 |-> "span_end_on_body_1"]
<1>1. PICK k \in 1 .. v :
         /\ n \in DOMAIN ends
         /\ parser' = [parser EXCEPT !.content_length = @ - k,
                                     !.current = IF k = v THEN ends[n] ELSE n]
         /\ sent' = [sent EXCEPT !.delivered = @ + k]
         /\ half' = half /\ event' = event
  BY DEF Consume
<1>2. /\ DOMAIN parser' = ParserFields
      /\ ParserKept({"current", "content_length"})
      /\ parser'.content_length = v - k
      /\ m = IF k = v THEN ends[n] ELSE n
  BY <1>1 DEF TypeOK, ParserKept, ParserFields
<1>3. /\ DOMAIN sent' = SentFields /\ SentKept({"delivered"})
      /\ sent'.delivered = sent.delivered + k
  BY <1>1 DEF TypeOK, SentKept, SentFields
<1>4. /\ LineFieldsKept
      /\ parser'.span = parser.span /\ parser'.flags = parser.flags
      /\ parser'.finish = parser.finish /\ parser'.index = parser.index
      /\ parser'.method = parser.method
      /\ sent'.word = sent.word /\ sent'.length = sent.length
      /\ sent'.cl = sent.cl /\ sent'.te = sent.te
      /\ sent'.leftover = sent.leftover
  BY <1>2, <1>3
     DEF LineFieldsKept, ParserKept, ParserFields, SentKept, SentFields
<1>5. \/ n = "consume_content_length" /\ m \in ChunkText
      \/ n = "consume_content_length_1" /\ m \in BodyText
  BY <1>1, <1>2
<1>6. n \in Others \ WordReaders /\ m \notin MethodNodes
  BY <1>5, MethodNodesApart DEF Others, WordReaders
<1>7. TypeOK'
  BY <1>1, <1>2, <1>3, <1>4 DEF TypeOK
<1>8. IndexKept'
  BY <1>1, <1>4, <1>6, StillUncut
<1>9. Phases'
  BY <1>1, <1>4, <1>5, <1>6
     DEF Phases, LinePhases, HeaderPhases, BodyPhases, TrailerPhases,
         FinishPhases, EventAt, Line0, Trailing
<1>10. LengthKnown' /\ LengthFlagged' /\ FieldRecognised'
  BY <1>1, <1>4, <1>5, <1>6
     DEF LengthKnown, LengthFlagged, FieldRecognised, Line0, Trailing
<1>11. HeadCounted'
  BY <1>5, <1>6 DEF HeadCounted, Line0
<1>12. /\ v + sent.delivered = sent.length =>
            parser'.content_length + sent'.delivered = sent'.length
       /\ m \in {"span_end_on_body", "span_end_on_body_1"} =>
            parser'.content_length = 0
  BY <1>1, <1>2, <1>3, <1>4, <1>5 DEF TypeOK
<1>13. ~Trailing'
  BY <1>4, <1>5 DEF Phases, TrailerPhases, Trailing
<1>14. ChunkCounted'
  BY <1>1, <1>3, <1>5, <1>7, <1>12, <1>13 DEF ChunkCounted, TypeOK
<1>15. BodyCounted'
  BY <1>4, <1>5, <1>12 DEF BodyCounted
<1>16. LineSpelled' /\ LineNumbers' /\ LineKept'
  BY <1>1, <1>4, <1>5, <1>6
     DEF LineSpelled, LineNumbers, LineKept, LineKnown, LineFieldsKept
<1> QED BY <1>7, <1>8, <1>9, <1>10, <1>11, <1>14, <1>15, <1>16

-----------------------------------------------------------------------------
(* Assignments and tests.                                                  *)

LEMMA StartReq ==
    /\ "start_req" \notin Others \cup EitherWord /\ "start_req" \in MethodNodes
    /\ "start_req" \notin Nodes(req_or_res_method)
<1>1. "start_req" \in Nodes(start_req)
  BY DEF Nodes, start_req
<1>2. start_req \in MethodTries
  BY DEF MethodTries
<1> QED BY <1>1, <1>2, MethodTables, EitherTable DEF MethodNodes

LEMMA UpdateGood == ASSUME Good, Update PROVE Good'
<1> USE DEF Good, StateOK
<1> DEFINE n == parser.current
           m == parser'.current
<1>1. /\ n \in DOMAIN Updates
      /\ parser' = [f \in ParserFields |->
                       IF f \in DOMAIN Updates[n] THEN Updates[n][f]
                                                  ELSE parser[f]]
      /\ sent' = sent /\ half' = half /\ event' = event /\ look' = look
  BY DEF Update, TypeOK
<1>2. /\ DOMAIN parser' = ParserFields
      /\ ParserKept(DOMAIN Updates[n])
      /\ \A f \in ParserFields : f \in DOMAIN Updates[n] =>
                                   parser'[f] = Updates[n][f]
  BY <1>1 DEF ParserKept
<1>3. \/ /\ n = "invoke_update_finish" /\ m = "invoke_on_message_begin"
         /\ parser'.finish = "UNSAFE" /\ ParserKept({"current", "finish"})
      \/ /\ n = "invoke_update_type_1" /\ m = "res_http_major"
         /\ parser'.type = "RESPONSE" /\ ParserKept({"current", "type"})
      \/ /\ n = "invoke_update_type_2" /\ m = "start_req"
         /\ parser'.type = "REQUEST" /\ ParserKept({"current", "type"})
      \/ /\ n = "invoke_update_http_major" /\ m = "invoke_on_url_complete"
         /\ parser'.http_major = 0 /\ parser'.http_minor = 9
         /\ ParserKept({"current", "http_major", "http_minor"})
      \/ /\ n = "invoke_update_status_code" /\ m = "res_status_code"
         /\ parser'.status_code = 0 /\ ParserKept({"current", "status_code"})
      \/ /\ n = "invoke_update_header_state_10" /\ m = "header_field_general"
         /\ ParserKept({"current", "header_state"})
      \/ /\ n = "invoke_update_header_state_4"
         /\ m = "header_value_connection_token"
         /\ ParserKept({"current", "header_state"})
      \/ /\ n = "invoke_update_header_state_7" /\ m = "header_value_otherwise"
         /\ ParserKept({"current", "header_state"})
      \/ /\ n = "invoke_update_header_state_8" /\ m = "header_value"
         /\ ParserKept({"current", "header_state"})
      \/ /\ n = "invoke_after_message_complete" /\ m = "start"
         /\ parser'.finish = "SAFE" /\ parser'.flags = {}
         /\ ParserKept({"current", "finish", "flags"})
  BY <1>1, <1>2 DEF Updates, update_status_code, ParserFields

<1>4. /\ parser'.index = parser.index /\ parser'.span = parser.span
      /\ parser'.content_length = parser.content_length
      /\ parser'.method = parser.method
      /\ n # "invoke_after_message_complete" => parser'.flags = parser.flags
      /\ n \notin {"invoke_after_message_complete", "invoke_update_finish"} =>
           parser'.finish = parser.finish
      /\ n \notin {"invoke_update_type_1", "invoke_update_type_2"} =>
           parser'.type = parser.type
      /\ n # "invoke_update_http_major" =>
           /\ parser'.http_major = parser.http_major
           /\ parser'.http_minor = parser.http_minor
      /\ n # "invoke_update_status_code" =>
           parser'.status_code = parser.status_code
  BY <1>3 DEF ParserKept, ParserFields
<1>5. \/ /\ n = "invoke_update_finish" /\ m = "invoke_on_message_begin"
         /\ parser'.finish = "UNSAFE"
      \/ /\ n = "invoke_update_type_1" /\ m = "res_http_major"
         /\ parser'.type = "RESPONSE"
      \/ /\ n = "invoke_update_type_2" /\ m = "start_req"
         /\ parser'.type = "REQUEST"
      \/ /\ n = "invoke_update_http_major" /\ m = "invoke_on_url_complete"
         /\ parser'.http_major = 0 /\ parser'.http_minor = 9
      \/ /\ n = "invoke_update_status_code" /\ m = "res_status_code"
         /\ parser'.status_code = 0
      \/ n = "invoke_update_header_state_10" /\ m = "header_field_general"
      \/ n \in ConnectionValue /\ m = "header_value_connection_token"
      \/ n \in EncodingValue /\ m \in {"header_value_otherwise", "header_value"}
      \/ /\ n = "invoke_after_message_complete" /\ m = "start"
         /\ parser'.finish = "SAFE" /\ parser'.flags = {}
  BY <1>3
<1>6. /\ n \in Others \ WordReaders /\ n \notin MethodNodes
      /\ m # "start_req" => m \notin MethodNodes
  BY <1>3, MethodNodesApart DEF Others, WordReaders
<1>7. "start_req" \in MethodNodes
  BY StartReq
<1>8. TypeOK'
  BY <1>1, <1>2, <1>4 DEF TypeOK
<1>9. IndexKept'
  BY <1>1, <1>4, <1>6, StillUncut
<1>10. Phases'
  <2>1. LinePhases'
    BY <1>1, <1>4, <1>5, <1>6, <1>7 DEF Phases, LinePhases, BodyPhases, EventAt
  <2>2. HeaderPhases' /\ BodyPhases'
    BY <1>1, <1>4, <1>5, <1>7
       DEF Phases, HeaderPhases, BodyPhases, EventAt, StartEvents, Trailing
  <2>3. TrailerPhases' /\ FinishPhases'
    BY <1>4, <1>5, <1>6, <1>7
       DEF Phases, TrailerPhases, FinishPhases, Line0, Trailing
  <2> QED BY <2>1, <2>2, <2>3 DEF Phases
<1>11. LengthKnown' /\ LengthFlagged'
  BY <1>1, <1>4, <1>5, <1>6, <1>7
     DEF LengthKnown, LengthFlagged, Line0, Trailing
<1>12. FieldRecognised'
  BY <1>1, <1>4, <1>5, <1>7 DEF FieldRecognised, Named
<1>13. HeadCounted' /\ ChunkCounted'
  BY <1>1, <1>4, <1>5, <1>6, <1>7
     DEF HeadCounted, ChunkCounted, Line0, Trailing
<1>14. BodyCounted'
  BY <1>3, <1>7 DEF BodyCounted
<1>15. LineSpelled'
  BY <1>1, <1>4, <1>5, <1>6, <1>7, SpellingAssumption
     DEF LineSpelled
<1>16. LineNumbers'
  BY <1>1, <1>4, <1>5, <1>6, <1>7, EitherTable DEF LineNumbers
<1>17. LineKept'
  <2>1. \/ n \in Header /\ LineFieldsKept /\ sent'.word = sent.word
        \/ /\ m \notin Header \cup HeadDone \cup HeadReported \cup Body
           /\ event' # "on_headers_complete"
    <3>1. CASE n \in Header
      BY <1>1, <1>4, <3>1 DEF LineFieldsKept
    <3>2. CASE n \notin Header
      <4>1. event \in {"none", "on_message_begin", "on_url",
                       "on_message_complete"}
        BY <1>5, <3>2 DEF Phases, LinePhases, BodyPhases, EventAt
      <4> QED BY <1>1, <1>5, <3>2, <4>1
    <3> QED BY <3>1, <3>2
  <2> QED BY <2>1 DEF LineKept, LineKnown, LineFieldsKept
<1> QED BY <1>8, <1>9, <1>10, <1>11, <1>12, <1>13, <1>14, <1>15, <1>16, <1>17

LEMMA UpdateContentLengthGood == ASSUME Good, UpdateContentLength PROVE Good'
<1> USE DEF Good, StateOK
<1> DEFINE n == parser.current
           m == parser'.current
<1>1. /\ n = "invoke_update_content_length"
      /\ parser' = [parser EXCEPT !.content_length = 0,
                                  !.current = "chunk_size_digit"]
      /\ sent' = [sent EXCEPT !.length = 0, !.delivered = 0]
      /\ half' = half /\ event' = event
  BY DEF UpdateContentLength, At
<1>2. /\ DOMAIN parser' = ParserFields
      /\ ParserKept({"current", "content_length"})
      /\ m = "chunk_size_digit" /\ parser'.content_length = 0
  BY <1>1 DEF TypeOK, ParserKept, ParserFields
<1>3. /\ DOMAIN sent' = SentFields /\ SentKept({"length", "delivered"})
      /\ sent'.length = 0 /\ sent'.delivered = 0
  BY <1>1 DEF TypeOK, SentKept, SentFields
<1>4. /\ LineFieldsKept
      /\ parser'.span = parser.span /\ parser'.flags = parser.flags
      /\ parser'.finish = parser.finish /\ parser'.index = parser.index
      /\ sent'.word = sent.word /\ sent'.cl = sent.cl /\ sent'.te = sent.te
  BY <1>2, <1>3
     DEF LineFieldsKept, ParserKept, ParserFields, SentKept, SentFields
<1>5. n \in Others \ WordReaders /\ m \notin MethodNodes
  BY <1>1, <1>2, MethodNodesApart DEF Others, WordReaders
<1>6. TypeOK'
  BY <1>2, <1>3 DEF TypeOK
<1>7. IndexKept'
  BY <1>1, <1>4, <1>5, StillUncut
<1>8. Phases'
  BY <1>1, <1>2, <1>4, <1>5
     DEF Phases, LinePhases, HeaderPhases, BodyPhases, TrailerPhases,
         FinishPhases, EventAt, Line0, Trailing
<1>9. LengthKnown' /\ LengthFlagged' /\ FieldRecognised'
  BY <1>1, <1>2, <1>4, <1>5
     DEF LengthKnown, LengthFlagged, FieldRecognised, Line0, Trailing
<1>10. HeadCounted' /\ ChunkCounted' /\ BodyCounted'
  BY <1>2, <1>3, <1>5 DEF HeadCounted, ChunkCounted, BodyCounted, Line0
<1>11. LineSpelled' /\ LineNumbers' /\ LineKept'
  BY <1>1, <1>2, <1>4, <1>5
     DEF LineSpelled, LineNumbers, LineKept, LineKnown, LineFieldsKept
<1> QED BY <1>6, <1>7, <1>8, <1>9, <1>10, <1>11

\* Where the tests lead.  The results of llhttp__after_headers_complete()
\* that end the message need no body: none was declared, or it is empty.
TestStep(n, m) ==
    \/ /\ n = "invoke_load_type"
       /\ \/ m = "start_req" /\ parser.type = "REQUEST"
          \/ m = "start_res" /\ parser.type = "RESPONSE"
          \/ m = "start_req_or_res"
    \/ n \in MethodRead /\ m \in MethodRead
    \/ n \in ReqProtocol /\ m \in {"req_http_major", "INVALID_CONSTANT"}
    \/ n \in MessageEnd /\ m \in MessageEnd
    \/ n = "invoke_is_equal_content_length" /\ m = "span_start_on_body"
    \/ /\ n = "invoke_is_equal_content_length" /\ m = "invoke_or_flags"
       /\ parser.content_length = 0
    \/ n = "invoke_test_flags" /\ m \in TrailerRead /\ Trailing
    \/ n = "invoke_test_flags" /\ m = "UNEXPECTED_CONTENT_LENGTH"
    \/ /\ n = "invoke_test_flags" /\ m \in HeadDone /\ ~Trailing
       /\ ~({"CONTENT_LENGTH", "TRANSFER_ENCODING"} \subseteq parser.flags)
    \/ /\ n \in HeadReported
       /\ m \in ChunkStart \cup BodyStart \cup EofStart
             \cup {"INVALID_TRANSFER_ENCODING"}
    \/ /\ n \in HeadReported /\ m \in NoBody
       /\ \/ parser.method = HTTP_CONNECT \/ "SKIPBODY" \in parser.flags
          \/ "CONTENT_LENGTH" \notin parser.flags
          \/ ~(parser.content_length > 0)

LEMMA TestSteps ==
    ASSUME TypeOK, parser.current \in TestNodes
    PROVE  TestStep(parser.current, Tests[parser.current])
<1> DEFINE n == parser.current
<1>1. CASE n = "invoke_load_type"
  BY <1>1 DEF Tests, TestStep
<1>2. CASE n = "invoke_is_equal_method"
  BY <1>2 DEF Tests, TestStep
<1>3. CASE n \in {"invoke_load_method", "invoke_load_method_1",
                  "invoke_load_method_2"}
  BY <1>3 DEF Tests, TestStep
<1>4. CASE n = "invoke_is_equal_upgrade"
  BY <1>4 DEF Tests, TestStep
<1>5. CASE n = "invoke_is_equal_content_length"
  BY <1>5 DEF Tests, TestStep
<1>6. CASE n = "invoke_test_flags"
  BY <1>6 DEF Tests, TestStep, Trailing
<1>7. CASE n = "invoke_after_headers_complete"
  <2> DEFINE r == llhttp__after_headers_complete
  <2>1. /\ r \in 0 .. 5
        /\ r \in {0, 1} =>
             \/ parser.method = HTTP_CONNECT \/ "SKIPBODY" \in parser.flags
             \/ "CONTENT_LENGTH" \notin parser.flags
             \/ ~(parser.content_length > 0)
    BY DEF llhttp__after_headers_complete, TypeOK
  <2>2. Tests[n] = <<"invoke_on_message_complete",
           "invoke_on_message_complete_1", "invoke_update_content_length",
           "span_start_on_body_1", "invoke_update_finish_2",
           "INVALID_TRANSFER_ENCODING">>[r + 1]
    BY <1>7 DEF Tests
  <2> HIDE DEF r
  <2> QED BY <1>7, <2>1, <2>2 DEF TestStep
<1> QED BY <1>1, <1>2, <1>3, <1>4, <1>5, <1>6, <1>7 DEF TestNodes

LEMMA TestGood == ASSUME Good, Test PROVE Good'
<1> USE DEF Good, StateOK
<1> DEFINE n == parser.current
           m == parser'.current
<1>1. /\ n \in TestNodes /\ parser' = [parser EXCEPT !.current = Tests[n]]
      /\ sent' = sent /\ half' = half /\ event' = event /\ look' = look
  BY DEF Test
<1>2. /\ DOMAIN parser' = ParserFields /\ ParserKept({"current"})
      /\ m = Tests[n]
  BY <1>1 DEF TypeOK, ParserKept, ParserFields
<1>3. TestStep(n, m)
  BY <1>1, <1>2, TestSteps
<1>4. /\ CountsKept /\ LineFieldsKept
      /\ parser'.span = parser.span /\ parser'.flags = parser.flags
      /\ parser'.finish = parser.finish /\ parser'.index = parser.index
  BY <1>1, <1>2 DEF CountsKept, LineFieldsKept, ParserKept, ParserFields
<1>5. /\ n \in Others \ WordReaders /\ n \notin MethodNodes
      /\ m # "start_req" => m \notin MethodNodes
  <2>1. /\ n \in Others \ WordReaders
        /\ m # "start_req" => m \in Others
    BY <1>1, <1>3 DEF TestNodes, TestStep, Others, WordReaders, Codes
  <2> QED BY <2>1, MethodNodesApart
<1>6. "start_req" \notin Others /\ "start_req" \in MethodNodes
  BY StartReq
<1>7. TypeOK'
  BY <1>1, <1>2, <1>4 DEF TypeOK, CountsKept
<1>8. IndexKept'
  BY <1>1, <1>4, <1>5, StillUncut
<1>9. Phases'
  <2> USE <1>1, <1>3, <1>4, <1>5, <1>6 DEF TestStep
  <2>1. LinePhases'
    BY DEF Phases, LinePhases, EventAt, Others
  <2>2. HeaderPhases'
    BY DEF Phases, HeaderPhases, EventAt, StartEvents, Trailing, Others
  <2>3. BodyPhases'
    BY DEF Phases, HeaderPhases, BodyPhases, EventAt, StartEvents, Others
  <2>4. TrailerPhases'
    BY DEF Phases, TrailerPhases, Line0, Trailing, Others
  <2>5. FinishPhases'
    BY DEF Phases, FinishPhases, Line0, Others
  <2> QED BY <2>1, <2>2, <2>3, <2>4, <2>5 DEF Phases
<1>10. LengthKnown' /\ FieldRecognised'
  BY <1>1, <1>3, <1>4, <1>6
     DEF TestStep, LengthKnown, FieldRecognised, Trailing, Others
<1>11. LengthFlagged'
  BY <1>1, <1>3, <1>4, <1>5, <1>6
     DEF TestStep, LengthFlagged, LengthKnown, Line0, Trailing, Others
<1>12. HeadCounted'
  BY <1>3, <1>4, <1>5, <1>6
     DEF TestStep, HeadCounted, Line0, Trailing, CountsKept, Others
<1>13. ChunkCounted'
  BY <1>1, <1>3, <1>4, <1>6
     DEF TestStep, ChunkCounted, Trailing, CountsKept, Others, Phases,
         HeaderPhases, BodyPhases, EventAt, TypeOK
<1>14. BodyCounted'
  <2>1. CASE n \in HeadReported
    BY <1>3, <1>4, <2>1
       DEF TestStep, BodyCounted, HeadCounted, LengthKnown, DeclaredLength,
           CountsKept, Phases, TrailerPhases, TypeOK
  <2>2. CASE n \notin HeadReported
    BY <1>3, <1>4, <1>6, <2>2
       DEF TestStep, BodyCounted, DeclaredLength, CountsKept, Others
  <2> QED BY <2>1, <2>2
<1>15. LineSpelled'
  BY <1>1, <1>3, <1>4, <1>5, <1>6, SpellingAssumption
     DEF TestStep, LineSpelled, LineFieldsKept, Others
<1>16. LineNumbers'
  BY <1>1, <1>3, <1>4, <1>5, <1>6
     DEF TestStep, LineNumbers, LineFieldsKept, Others
<1>17. LineKept'
  BY <1>1, <1>3, <1>4, <1>6
     DEF TestStep, LineKept, LineKnown, LineFieldsKept, Others
<1> QED BY <1>7, <1>8, <1>9, <1>10, <1>11, <1>12, <1>13, <1>14, <1>15, <1>16,
           <1>17

-----------------------------------------------------------------------------
(* Header fields.                                                          *)

LEMMA LoadHeaderStateGood == ASSUME Good, LoadHeaderState PROVE Good'
<1> USE DEF Good, StateOK
<1> DEFINE n == parser.current
           m == parser'.current
           hs == parser.header_state
           next == [invoke_load_header_state   |-> "span_start_on_header_value",
                    invoke_load_header_state_3 |->
                        "invoke_on_header_value_complete",
                    invoke_load_header_state_4 |-> "header_value_connection"]
<1>1. /\ n \in DOMAIN next
      /\ parser' =
           [parser EXCEPT
               !.current = IF n = "invoke_load_header_state" /\ hs = 2
                           THEN "INVALID_CONTENT_LENGTH" ELSE next[n],
               !.flags = IF hs \in DOMAIN TokenFlags
                         THEN @ \cup {TokenFlags[hs]} ELSE @,
               !.header_state = IF hs \in 5 .. 7 THEN 1 ELSE @]
      /\ sent' = sent /\ half' = half /\ event' = event /\ look' = look
  BY DEF LoadHeaderState
<1>2. /\ DOMAIN parser' = ParserFields
      /\ ParserKept({"current", "flags", "header_state"})
      /\ m = IF n = "invoke_load_header_state" /\ hs = 2
             THEN "INVALID_CONTENT_LENGTH" ELSE next[n]
      /\ parser'.flags = IF hs \in DOMAIN TokenFlags
                         THEN parser.flags \cup {TokenFlags[hs]}
                         ELSE parser.flags
      /\ parser'.header_state = IF hs \in 5 .. 7 THEN 1 ELSE hs
  BY <1>1 DEF TypeOK, ParserKept, ParserFields
<1>3. /\ LineFieldsKept
      /\ parser'.span = parser.span /\ parser'.finish = parser.finish
      /\ parser'.index = parser.index
      /\ parser'.content_length = parser.content_length
  BY <1>1, <1>2 DEF LineFieldsKept, ParserKept, ParserFields
<1>4. /\ \/ /\ n = "invoke_load_header_state"
            /\ m \in {"INVALID_CONTENT_LENGTH", "span_start_on_header_value"}
         \/ /\ n = "invoke_load_header_state_3"
            /\ m = "invoke_on_header_value_complete"
         \/ /\ n = "invoke_load_header_state_4"
            /\ m = "header_value_connection"
      /\ \A f \in {"TRAILING", "CONTENT_LENGTH", "TRANSFER_ENCODING"} :
            f \in parser'.flags <=> f \in parser.flags
      /\ hs \in {2, 3} => parser'.header_state = hs
  BY <1>1, <1>2 DEF TokenFlags
<1>5. n \in Others \ WordReaders /\ m \notin MethodNodes
  BY <1>4, MethodNodesApart DEF Others, WordReaders, Codes
<1>6. TypeOK'
  BY <1>1, <1>2, <1>3 DEF TypeOK
<1>7. IndexKept'
  BY <1>1, <1>3, <1>5, StillUncut
<1>8. Phases'
  <2>1. LinePhases' /\ BodyPhases'
    BY <1>1, <1>3, <1>4, <1>5 DEF Phases, LinePhases, BodyPhases, EventAt
  <2>2. HeaderPhases'
    BY <1>1, <1>3, <1>4 DEF Phases, HeaderPhases, EventAt
  <2>3. TrailerPhases' /\ FinishPhases'
    BY <1>3, <1>4, <1>5 DEF Phases, TrailerPhases, FinishPhases, Line0
  <2> QED BY <2>1, <2>2, <2>3 DEF Phases
<1>9. LengthKnown' /\ LengthFlagged'
  BY <1>1, <1>4, <1>5 DEF LengthKnown, LengthFlagged, Line0, Trailing
<1>10. FieldRecognised'
  BY <1>1, <1>4 DEF FieldRecognised, Named
<1>11. HeadCounted' /\ ChunkCounted' /\ BodyCounted'
  BY <1>1, <1>3, <1>4, <1>5
     DEF HeadCounted, ChunkCounted, BodyCounted, Line0, Trailing
<1>12. LineSpelled' /\ LineNumbers' /\ LineKept'
  BY <1>1, <1>3, <1>4, <1>5
     DEF LineSpelled, LineNumbers, LineKept, LineKnown, LineFieldsKept
<1> QED BY <1>6, <1>7, <1>8, <1>9, <1>10, <1>11, <1>12

LEMMA BeginValueGood == ASSUME Good, BeginValue PROVE Good'
<1> USE DEF Good, StateOK
<1> DEFINE n == parser.current
           m == parser'.current
           hs == parser.header_state
<1>1. /\ n = "invoke_load_header_state_2"
      /\ sent' = sent /\ half' = half /\ event' = event /\ look' = look
  BY DEF BeginValue, At
<1>2. /\ DOMAIN parser' = ParserFields /\ ParserKept({"current", "flags"})
      /\ \/ /\ hs = 1 /\ m = "header_value_connection"
            /\ parser'.flags = parser.flags
         \/ /\ hs = 2 /\ parser'.flags = parser.flags
            /\ m \in {"UNEXPECTED_CONTENT_LENGTH",
                      "header_value_content_length"}
         \/ /\ hs = 3 /\ m = "header_value_te_chunked"
            /\ parser'.flags = parser.flags \cup {"TRANSFER_ENCODING"}
         \/ /\ hs = 4 /\ m = "invoke_update_header_state_8"
            /\ parser'.flags = parser.flags \cup {"UPGRADE"}
         \/ /\ hs \notin {1, 2, 3, 4} /\ m = "header_value"
            /\ parser'.flags = parser.flags
  BY DEF BeginValue, TypeOK, ParserKept, ParserFields
<1>3. /\ LineFieldsKept
      /\ parser'.span = parser.span /\ parser'.finish = parser.finish
      /\ parser'.index = parser.index /\ parser'.header_state = hs
      /\ parser'.content_length = parser.content_length
  BY <1>1, <1>2 DEF LineFieldsKept, ParserKept, ParserFields
<1>4. /\ m \in ConnectionValue \cup LengthValue \cup EncodingValue
            \cup ValueEnd \cup {"UNEXPECTED_CONTENT_LENGTH"}
      /\ \A f \in {"TRAILING", "CONTENT_LENGTH"} :
            f \in parser'.flags <=> f \in parser.flags
      /\ "TRANSFER_ENCODING" \in parser'.flags <=>
           "TRANSFER_ENCODING" \in parser.flags \/ hs = 3
  BY <1>2
<1>5. n \in Others \ WordReaders /\ m \notin MethodNodes
  BY <1>1, <1>4, MethodNodesApart DEF Others, WordReaders, Codes
<1>6. TypeOK'
  BY <1>1, <1>2, <1>3 DEF TypeOK
<1>7. IndexKept'
  BY <1>1, <1>3, <1>5, StillUncut
<1>8. Phases'
  <2>1. LinePhases' /\ BodyPhases'
    BY <1>1, <1>4, <1>5 DEF LinePhases, BodyPhases, EventAt
  <2>2. HeaderPhases'
    BY <1>1, <1>3, <1>4 DEF Phases, HeaderPhases, EventAt
  <2>3. TrailerPhases' /\ FinishPhases'
    BY <1>1, <1>3, <1>4, <1>5 DEF Phases, TrailerPhases, FinishPhases, Line0
  <2> QED BY <2>1, <2>2, <2>3 DEF Phases
<1>9. LengthKnown'
  BY <1>1, <1>2, <1>4 DEF LengthKnown, Trailing
<1>10. LengthFlagged'
  BY <1>1, <1>4, <1>5 DEF LengthFlagged, Line0, Trailing
<1>11. FieldRecognised'
  BY <1>1, <1>2, <1>3, <1>4 DEF FieldRecognised, Named
<1>12. HeadCounted' /\ ChunkCounted' /\ BodyCounted'
  BY <1>1, <1>3, <1>4, <1>5
     DEF HeadCounted, ChunkCounted, BodyCounted, Line0, Trailing
<1>13. LineSpelled' /\ LineNumbers' /\ LineKept'
  BY <1>1, <1>3, <1>4, <1>5
     DEF LineSpelled, LineNumbers, LineKept, LineKnown, LineFieldsKept
<1> QED BY <1>6, <1>7, <1>8, <1>9, <1>10, <1>11, <1>12, <1>13

LEMMA OrFlagsGood == ASSUME Good, OrFlags PROVE Good'
<1> USE DEF Good, StateOK
<1> DEFINE n == parser.current
           m == parser'.current
           or == [invoke_or_flags    |-> <<"TRAILING", "header_field_start">>,
                  invoke_or_flags_15 |->
                      <<"CONTENT_LENGTH", "header_value_otherwise">>]
<1>1. /\ n \in DOMAIN or
      /\ parser' = [parser EXCEPT !.flags = @ \cup {or[n][1]},
                                  !.current = or[n][2]]
      /\ sent' = sent /\ half' = half /\ event' = event /\ look' = look
  BY DEF OrFlags
<1>2. /\ DOMAIN parser' = ParserFields /\ ParserKept({"current", "flags"})
      /\ m = or[n][2] /\ parser'.flags = parser.flags \cup {or[n][1]}
  BY <1>1 DEF TypeOK, ParserKept, ParserFields
<1>3. \/ /\ n \in LastChunk /\ m = "header_field_start"
         /\ parser'.flags = parser.flags \cup {"TRAILING"}
      \/ /\ n = "invoke_or_flags_15" /\ m = "header_value_otherwise"
         /\ parser'.flags = parser.flags \cup {"CONTENT_LENGTH"}
  BY <1>1, <1>2
<1>4. /\ LineFieldsKept
      /\ parser'.span = parser.span /\ parser'.finish = parser.finish
      /\ parser'.index = parser.index
      /\ parser'.header_state = parser.header_state
      /\ parser'.content_length = parser.content_length
  BY <1>1, <1>2 DEF LineFieldsKept, ParserKept, ParserFields
<1>5. n \in Others \ WordReaders /\ m \notin MethodNodes
  BY <1>3, MethodNodesApart DEF Others, WordReaders
<1>6. TypeOK'
  BY <1>1, <1>2, <1>4 DEF TypeOK
<1>7. IndexKept'
  BY <1>1, <1>4, <1>5, StillUncut
<1>8. Phases'
  <2>1. LinePhases' /\ BodyPhases'
    BY <1>3, <1>5 DEF LinePhases, BodyPhases, EventAt
  <2>2. HeaderPhases'
    BY <1>1, <1>3, <1>4
       DEF Phases, HeaderPhases, BodyPhases, EventAt, StartEvents, Trailing
  <2>3. TrailerPhases' /\ FinishPhases'
    BY <1>3, <1>4, <1>5 DEF Phases, TrailerPhases, FinishPhases, Line0
  <2> QED BY <2>1, <2>2, <2>3 DEF Phases
<1>9. LengthKnown'
  BY <1>1, <1>3 DEF LengthKnown, Trailing
<1>10. LengthFlagged'
  BY <1>1, <1>3, <1>5
     DEF LengthFlagged, Line0, Trailing, Phases, BodyPhases, EventAt, BodyEvents
<1>11. FieldRecognised'
  BY <1>1, <1>3, <1>4 DEF FieldRecognised, Named
<1>12. HeadCounted' /\ BodyCounted'
  BY <1>1, <1>3, <1>4, <1>5 DEF HeadCounted, BodyCounted, Line0, Trailing
<1>13. ChunkCounted'
  BY <1>1, <1>3, <1>4 DEF ChunkCounted, Trailing
<1>14. LineSpelled' /\ LineNumbers' /\ LineKept'
  BY <1>1, <1>3, <1>4, <1>5
     DEF LineSpelled, LineNumbers, LineKept, LineKnown, LineFieldsKept
<1> QED BY <1>6, <1>7, <1>8, <1>9, <1>10, <1>11, <1>12, <1>13, <1>14

LEMMA HeadersCompleteGood == ASSUME Good, HeadersComplete PROVE Good'
<1> USE DEF Good, StateOK
<1> DEFINE n == parser.current
           m == parser'.current
<1>1. /\ n \in HeadDone /\ event' = Called("on_headers_complete")
      /\ sent' = sent /\ half' = half
  BY DEF HeadersComplete, At
<1>2. /\ DOMAIN parser' = ParserFields
      /\ ParserKept({"current", "flags", "upgrade", "error"})
      /\ m \in HeadReported \cup {"s_error"}
      /\ parser'.flags \in {parser.flags, parser.flags \cup {"SKIPBODY"}}
  BY DEF HeadersComplete, TypeOK, ParserKept, ParserFields
<1>3. /\ LineFieldsKept
      /\ parser'.span = parser.span /\ parser'.finish = parser.finish
      /\ parser'.index = parser.index
      /\ parser'.content_length = parser.content_length
      /\ \A f \in {"TRAILING", "CONTENT_LENGTH", "TRANSFER_ENCODING"} :
            f \in parser'.flags <=> f \in parser.flags
  BY <1>1, <1>2 DEF LineFieldsKept, ParserKept, ParserFields
<1>4. event' = "on_headers_complete" /\ ~Trailing
  BY <1>1 DEF Called, Phases, HeaderPhases, TrailerPhases, EventAt,
     LineEvents, ValueEvents
<1>5. n \in Others \ WordReaders /\ m \notin MethodNodes
  BY <1>1, <1>2, MethodNodesApart DEF Others, WordReaders
<1>6. TypeOK'
  BY <1>1, <1>2, <1>3 DEF TypeOK
<1>7. IndexKept'
  BY <1>1, <1>3, <1>5, StillUncut
<1>8. Phases'
  BY <1>1, <1>2, <1>3, <1>4, <1>5
     DEF Phases, LinePhases, HeaderPhases, BodyPhases, TrailerPhases,
         FinishPhases, EventAt, Line0, Trailing
<1>9. LengthKnown' /\ LengthFlagged' /\ FieldRecognised'
  BY <1>1, <1>2, <1>3, <1>5
     DEF LengthKnown, LengthFlagged, FieldRecognised, Line0, Trailing
<1>10. HeadCounted' /\ ChunkCounted' /\ BodyCounted'
  BY <1>1, <1>2, <1>3, <1>4, <1>5
     DEF HeadCounted, ChunkCounted, BodyCounted, Line0, Trailing
<1>11. LineSpelled' /\ LineNumbers' /\ LineKept'
  BY <1>1, <1>2, <1>3, <1>5
     DEF LineSpelled, LineNumbers, LineKept, LineKnown, LineFieldsKept
<1> QED BY <1>6, <1>7, <1>8, <1>9, <1>10, <1>11

LEMMA UpdateFinish2Good == ASSUME Good, UpdateFinish2 PROVE Good'
<1> USE DEF Good, StateOK
<1> DEFINE n == parser.current
           m == parser'.current
<1>1. /\ n = "invoke_update_finish_2"
      /\ parser' = [parser EXCEPT !.finish = "SAFE_WITH_CB",
                                  !.current = "span_start_on_body_2"]
      /\ sent' = sent /\ half' = half /\ event' = event
  BY DEF UpdateFinish2, At
<1>2. /\ DOMAIN parser' = ParserFields /\ ParserKept({"current", "finish"})
      /\ m = "span_start_on_body_2" /\ parser'.finish = "SAFE_WITH_CB"
  BY <1>1 DEF TypeOK, ParserKept, ParserFields
<1>3. /\ CountsKept /\ LineFieldsKept
      /\ parser'.span = parser.span /\ parser'.flags = parser.flags
      /\ parser'.index = parser.index
  BY <1>1, <1>2 DEF CountsKept, LineFieldsKept, ParserKept, ParserFields
<1>4. n \in Others \ WordReaders /\ m \notin MethodNodes
  BY <1>1, <1>2, MethodNodesApart DEF Others, WordReaders
<1>5. TypeOK'
  BY <1>1, <1>2, <1>3 DEF TypeOK, CountsKept
<1>6. IndexKept'
  BY <1>1, <1>3, <1>4, StillUncut
<1>7. Phases'
  BY <1>1, <1>2, <1>3, <1>4
     DEF Phases, LinePhases, HeaderPhases, BodyPhases, TrailerPhases,
         FinishPhases, EventAt, Line0, Trailing
<1>8. LengthKnown' /\ LengthFlagged' /\ FieldRecognised'
  BY <1>1, <1>2, <1>3, <1>4
     DEF LengthKnown, LengthFlagged, FieldRecognised, Line0, Trailing
<1>9. HeadCounted' /\ ChunkCounted' /\ BodyCounted'
  BY <1>1, <1>2, <1>3, <1>4
     DEF HeadCounted, ChunkCounted, BodyCounted, Line0, Trailing, CountsKept
<1>10. LineSpelled' /\ LineNumbers' /\ LineKept'
  BY <1>1, <1>2, <1>3, <1>4
     DEF LineSpelled, LineNumbers, LineKept, LineKnown, LineFieldsKept
<1> QED BY <1>5, <1>6, <1>7, <1>8, <1>9, <1>10

LEMMA PauseUpgradeGood == ASSUME Good, PauseUpgrade PROVE Good'
<1> USE DEF Good, StateOK
<1> DEFINE n == parser.current
           m == parser'.current
<1>1. /\ n = "pause_1"
      /\ parser' = [parser EXCEPT !.error = "PAUSED_UPGRADE",
                                  !.current = "invoke_after_message_complete"]
      /\ sent' = sent /\ half' = half /\ event' = event
  BY DEF PauseUpgrade, At
<1>2. /\ DOMAIN parser' = ParserFields /\ ParserKept({"current", "error"})
      /\ m = "invoke_after_message_complete"
  BY <1>1 DEF TypeOK, ParserKept, ParserFields
<1>3. /\ CountsKept /\ LineFieldsKept
      /\ parser'.span = parser.span /\ parser'.flags = parser.flags
      /\ parser'.finish = parser.finish /\ parser'.index = parser.index
  BY <1>1, <1>2 DEF CountsKept, LineFieldsKept, ParserKept, ParserFields
<1>4. n \in Others \ WordReaders /\ m \notin MethodNodes
  BY <1>1, <1>2, MethodNodesApart DEF Others, WordReaders
<1>5. TypeOK'
  BY <1>1, <1>2, <1>3 DEF TypeOK, CountsKept
<1>6. IndexKept'
  BY <1>1, <1>3, <1>4, StillUncut
<1>7. Phases'
  BY <1>1, <1>2, <1>3, <1>4
     DEF Phases, LinePhases, HeaderPhases, BodyPhases, TrailerPhases,
         FinishPhases, EventAt, Line0, Trailing
<1>8. LengthKnown' /\ LengthFlagged' /\ FieldRecognised'
  BY <1>1, <1>2, <1>3, <1>4
     DEF LengthKnown, LengthFlagged, FieldRecognised, Line0, Trailing
<1>9. HeadCounted' /\ ChunkCounted' /\ BodyCounted'
  BY <1>1, <1>2, <1>3, <1>4
     DEF HeadCounted, ChunkCounted, BodyCounted, DeclaredLength, Line0,
         Trailing, CountsKept
<1>10. LineSpelled' /\ LineNumbers' /\ LineKept'
  BY <1>1, <1>2, <1>3, <1>4
     DEF LineSpelled, LineNumbers, LineKept, LineKnown, LineFieldsKept
<1> QED BY <1>5, <1>6, <1>7, <1>8, <1>9, <1>10

LEMMA ResumeGood == ASSUME Good, Resume \/ Pause PROVE Good'
<1>1. /\ \E err : parser' = [parser EXCEPT !.error = err]
      /\ sent' = sent /\ half' = half /\ look' = look /\ event' = event
  BY DEF Resume, Pause
<1>2. DOMAIN parser' = ParserFields /\ ParserKept({"error"})
  BY <1>1 DEF Good, TypeOK, ParserKept, ParserFields
<1> QED BY <1>1, <1>2, SameState

-----------------------------------------------------------------------------
(* The invariant holds.                                                    *)

LEMMA InitInv == Init => Inv
<1> SUFFICES ASSUME Init PROVE Inv
  OBVIOUS
<1>1. /\ parser = llhttp_init /\ sent = NewMessage
      /\ half = 0 /\ event = "none" /\ outcome = "open"
  BY DEF Init
<1>2. /\ DOMAIN parser = ParserFields /\ DOMAIN sent = SentFields
      /\ parser.current = "start" /\ parser.index = 0 /\ parser.span = "none"
      /\ parser.finish = "SAFE" /\ parser.flags = {}
      /\ parser.content_length = 0
      /\ ~sent.cl /\ sent.length = 0 /\ sent.delivered = 0
  BY <1>1 DEF llhttp_init, NewMessage, ParserFields, SentFields
<1>3. "start" \notin MethodNodes
  BY MethodNodesApart DEF Others
<1>4. TypeOK /\ IndexKept
  BY <1>1, <1>2 DEF TypeOK, IndexKept
<1>5. Phases
  BY <1>1, <1>2, <1>3
     DEF Phases, LinePhases, HeaderPhases, BodyPhases, TrailerPhases,
         FinishPhases, EventAt, Line0, Trailing
<1>6. FieldRecognised /\ LengthKnown /\ LengthFlagged
  BY <1>1, <1>2, <1>3
     DEF FieldRecognised, LengthKnown, LengthFlagged, Line0, Trailing, BodyEvents
<1>7. HeadCounted /\ ChunkCounted /\ BodyCounted
  BY <1>1, <1>2, <1>3
     DEF HeadCounted, ChunkCounted, BodyCounted, Line0, Trailing
<1>8. LineSpelled /\ LineNumbers /\ LineKept
  BY <1>1, <1>2, <1>3 DEF LineSpelled, LineNumbers, LineKept
<1> QED BY <1>1, <1>4, <1>5, <1>6, <1>7, <1>8 DEF Inv, StateOK

LEMMA FinishInv == ASSUME Finish PROVE Inv'
<1>1. /\ outcome' # "open" /\ sent' = NewMessage
      /\ parser' = [llhttp_init EXCEPT !.error = parser.error]
  BY DEF Finish, Results
<1>2. /\ DOMAIN parser' = ParserFields /\ DOMAIN sent' = SentFields
      /\ parser'.current = "start" /\ parser'.flags = {}
      /\ parser'.content_length = 0
      /\ ~sent'.cl /\ sent'.length = 0 /\ sent'.delivered = 0
  BY <1>1 DEF llhttp_init, NewMessage, ParserFields, SentFields
<1>3. TypeOK'
  BY <1>2 DEF TypeOK
<1>4. LengthFlagged'
  BY <1>2, MethodNodesApart DEF LengthFlagged, Line0, Others
<1> QED BY <1>1, <1>2, <1>3, <1>4 DEF Inv

\* Nothing happens after llhttp_finish(), and only it ends the connection.
LEMMA OutcomeKept ==
    ASSUME Next PROVE outcome = "open" /\ (Finish \/ outcome' = "open")
BY DEF Next, At, OnTrie, ReadChar, Fail, MatchNext, MatchMethod, MatchHeader,
   MatchPause, Mismatch, StoreMajor, StoreMinor, StatusDigit, LengthDigit,
   ChunkDigit, Callback, IgnoringCallback, SpanStart, SpanEnd, ExecuteReturns,
   Consume, Update, UpdateContentLength, Test, LoadHeaderState, BeginValue,
   OrFlags, HeadersComplete, UpdateFinish2, PauseUpgrade, Resume, Pause, Finish

LEMMA NextInv == Inv /\ [Next]_vars => Inv'
<1> SUFFICES ASSUME Inv, [Next]_vars PROVE Inv'
  OBVIOUS
<1>1. CASE Finish
  BY <1>1, FinishInv
<1>2. CASE Next /\ ~Finish
  <2>1. outcome = "open" /\ outcome' = "open" /\ Good
    BY <1>2, OutcomeKept DEF Inv, Good
  <2>2. Good'
    BY <1>2, <2>1, ReadCharGood, FailGood, MatchNextGood, MatchMethodGood,
       MatchHeaderGood, MatchPauseGood, MismatchGood, StoreMajorGood,
       StoreMinorGood, StatusDigitGood, LengthDigitGood, ChunkDigitGood,
       CallbackGood, IgnoringCallbackGood, SpanStartGood, SpanEndGood,
       ExecuteReturnsGood, ConsumeGood, UpdateGood, UpdateContentLengthGood,
       TestGood, LoadHeaderStateGood, BeginValueGood, OrFlagsGood,
       HeadersCompleteGood, UpdateFinish2Good, PauseUpgradeGood, ResumeGood
       DEF Next
  <2> QED BY <2>1, <2>2 DEF Inv, Good
<1>3. CASE UNCHANGED vars
  <2>1. (DOMAIN parser)' = DOMAIN parser /\ (DOMAIN sent)' = DOMAIN sent
    BY <1>3 DEF vars
  <2> QED BY <1>3, <2>1
     DEF vars, Inv, TypeOK, LengthFlagged, StateOK, IndexKept, Phases,
         LinePhases, HeaderPhases, BodyPhases, TrailerPhases, FinishPhases,
         EventAt, StartEvents, FieldRecognised, Named, LengthKnown,
         HeadCounted, ChunkCounted, BodyCounted, DeclaredLength, LineSpelled,
         LineNumbers, LineKept, LineKnown, Trailing
<1> QED BY <1>1, <1>2, <1>3

\* The inductive invariant: what each state of the parser says of the
\* callback that was called last, of the open span, of the field and of the
\* length that are being read and of the start line, compared with what the
\* peer has sent.
THEOREM Invariance == Spec => []Inv
<1>1. Init => Inv
  BY InitInv
<1>2. Inv /\ [Next]_vars => Inv'
  BY NextInv
<1> QED BY <1>1, <1>2, PTL DEF Spec

\* on_headers_complete() finds the method, the version and the status code
\* of the message that was sent (llhttp.c), whatever the methods' trie, the
\* cuts between the pieces and the earlier messages of the connection.
THEOREM StartLine == Spec => []StartLineMatches
<1>1. Inv => StartLineMatches
  BY DEF Inv, StateOK, LineKept, LineKnown, StartLineMatches
<1> QED BY <1>1, Invariance, PTL

\* on_body() hands out as many bytes as the Content-Length or the chunk size
\* declares: the overflow tests of mul_add are exact for every width of
\* content_length.
THEOREM DeclaredBody == Spec => []BodyAsDeclared
<1>1. Inv => BodyAsDeclared
  BY DEF Inv, StateOK, ChunkCounted, BodyCounted, BodyAsDeclared, ChunkDone,
     MessageDone
<1> QED BY <1>1, Invariance, PTL

\* No on_headers_complete() and nothing after it for a message that declares
\* its length twice, by a Content-Length and by a Transfer-Encoding.
THEOREM LengthOnce == Spec => []LengthUnambiguous
<1>1. Inv => LengthUnambiguous
  BY DEF Inv, LengthFlagged, LengthUnambiguous, BodyEvents
<1> QED BY <1>1, Invariance, PTL

-----------------------------------------------------------------------------
(* The parser implements HttpEvents.                                       *)

\* The part of the message, as Events sees it.
Part == IF event \in BodyEvents THEN "body"
        ELSE IF Trailing THEN "trailer" ELSE "head"

\* A step in which the user sees nothing.
Silent ==
    /\ event' = event /\ outcome' = outcome /\ parser'.error = parser.error
    /\ \/ parser'.flags = parser.flags \/ event \in BodyEvents
       \/ Trailing' = Trailing

LEMMA SilentStep == ASSUME Silent PROVE UNCHANGED Events!vars
BY DEF Silent, Events!vars, Trailing

\* The results of callbacks.
CallErrors == Codes \cup
    {"OK", "PAUSED", "PAUSED_UPGRADE", "USER", "CB_MESSAGE_BEGIN",
     "CB_HEADERS_COMPLETE", "CB_MESSAGE_COMPLETE", "CB_CHUNK_HEADER",
     "CB_CHUNK_COMPLETE"}

\* A callback of the parser is one of Events.
LEMMA CallStep ==
    ASSUME outcome = "open", outcome' = outcome, parser.error = "OK",
           parser'.error \in CallErrors,
           NEW from, event \in from
    PROVE  Events!Call(from, event', Part')
BY DEF Events!Call, Events!Working, CallErrors, Part, Trailing

LEMMA SilentActions ==
    ASSUME Good,
           \/ ReadChar \/ MatchNext \/ MatchMethod \/ MatchHeader
           \/ MatchPause \/ Mismatch \/ StoreMajor \/ StoreMinor
           \/ StatusDigit \/ LengthDigit \/ ChunkDigit \/ SpanStart
           \/ Consume \/ Update \/ UpdateContentLength \/ Test
           \/ LoadHeaderState \/ BeginValue \/ OrFlags \/ UpdateFinish2
    PROVE  Silent
<1> USE DEF Good, TypeOK, ParserFields, Silent
<1>1. CASE ReadChar \/ MatchNext \/ MatchMethod
  BY <1>1 DEF ReadChar, MatchNext, MatchMethod, StoreMethod
<1>2. CASE MatchHeader \/ MatchPause \/ Mismatch
  BY <1>2 DEF MatchHeader, MatchPause, Mismatch
<1>3. CASE StoreMajor \/ StoreMinor \/ StatusDigit
  BY <1>3 DEF StoreMajor, StoreMinor, StatusDigit
<1>4. CASE LengthDigit \/ ChunkDigit \/ SpanStart \/ Consume
  BY <1>4 DEF LengthDigit, ChunkDigit, SpanStart, Consume
<1>5. CASE Update
  <2>1. /\ event' = event /\ outcome' = outcome
        /\ parser.current \in DOMAIN Updates
        /\ \A f \in ParserFields \ DOMAIN Updates[parser.current] :
              parser'[f] = parser[f]
    BY <1>5 DEF Update
  <2>2. parser'.error = parser.error
    BY <2>1 DEF Updates, update_status_code
  <2>3. CASE parser.current = "invoke_after_message_complete"
    BY <2>1, <2>2, <2>3 DEF StateOK, Phases, BodyPhases, EventAt, BodyEvents
  <2>4. CASE parser.current # "invoke_after_message_complete"
    <3>1. parser'.flags = parser.flags
      BY <2>1, <2>4 DEF Updates, update_status_code
    <3> QED BY <2>1, <2>2, <3>1
  <2> QED BY <2>3, <2>4
<1>6. CASE UpdateContentLength \/ Test \/ UpdateFinish2
  BY <1>6 DEF UpdateContentLength, Test, UpdateFinish2
<1>7. CASE LoadHeaderState
  BY <1>7 DEF LoadHeaderState, TokenFlags, Trailing
<1>8. CASE BeginValue
  <2>1. event' = event /\ outcome' = outcome
    BY <1>8 DEF BeginValue
  <2>2. /\ parser'.error = parser.error
        /\ parser'.flags \in {parser.flags, parser.flags \cup {"UPGRADE"},
                              parser.flags \cup {"TRANSFER_ENCODING"}}
    BY <1>8 DEF BeginValue
  <2> QED BY <2>1, <2>2 DEF Trailing
<1>9. CASE OrFlags
  <2>1. parser.current \in LastChunk => event \in BodyEvents
    BY DEF StateOK, Phases, BodyPhases, EventAt, BodyEvents
  <2> QED BY <1>9, <2>1 DEF OrFlags, Trailing
<1> QED BY <1>1, <1>2, <1>3, <1>4, <1>5, <1>6, <1>7, <1>8, <1>9

LEMMA ErrorActions ==
    ASSUME Good, Fail \/ PauseUpgrade \/ Pause \/ Resume PROVE Events!Next
<1> USE DEF Good, TypeOK, ParserFields
<1>1. event' = event /\ outcome' = outcome /\ parser'.flags = parser.flags
  BY DEF Fail, PauseUpgrade, Pause, Resume
<1>2. CASE Fail \/ PauseUpgrade \/ Pause
  <2>1. /\ outcome = "open" /\ parser.error = "OK"
        /\ parser'.error \in Codes \cup {"PAUSED", "PAUSED_UPGRADE"}
    BY <1>2 DEF Fail, PauseUpgrade, Pause, At
  <2>2. Events!Fail
    BY <1>1, <2>1 DEF Events!Fail, Events!Working
  <2> QED BY <2>2 DEF Events!Next
<1>3. CASE Resume
  <2>1. /\ outcome = "open" /\ parser.error \in {"PAUSED", "PAUSED_UPGRADE"}
        /\ parser'.error = "OK"
    BY <1>3 DEF Resume
  <2>2. Events!Resume
    BY <1>1, <2>1 DEF Events!Resume
  <2> QED BY <2>2 DEF Events!Next
<1> QED BY <1>2, <1>3

LEMMA CallbackRefines == ASSUME Good, Callback PROVE Events!Next
<1> USE DEF Good, StateOK
<1> DEFINE n == parser.current
<1>1. /\ n \in DOMAIN PausingNodes /\ event' = Called(PausingNodes[n].cb)
      /\ outcome = "open" /\ outcome' = outcome /\ parser.error = "OK"
      /\ parser'.error \in {"OK", "PAUSED", PausingNodes[n].code}
      /\ parser'.flags = parser.flags
  BY DEF Callback, At, TypeOK, ParserFields
<1>2. parser'.error \in CallErrors
  BY <1>1 DEF PausingNodes, Complete, TrailerComplete, Pausing, CallErrors
<1>3. event \notin {"repeated", PausingNodes[n].cb}
  BY <1>1 DEF Phases, LinePhases, BodyPhases, EventAt, ValueEvents,
     PausingNodes, Complete, TrailerComplete, Pausing
<1>4. event' = PausingNodes[n].cb
  BY <1>1, <1>3 DEF Called
<1>5. \A from : event \in from => Events!Call(from, event', Part')
  BY <1>1, <1>2, CallStep
<1>6. CASE n = "invoke_on_message_begin"
  <2>1. /\ event' = "on_message_begin" /\ Part' = "head"
        /\ event \in {"none", "on_message_complete"}
    BY <1>1, <1>4, <1>6 DEF PausingNodes, Pausing, Part, BodyEvents, Trailing,
       Phases, LinePhases, TrailerPhases, EventAt
  <2>2. Events!Begin
    BY <1>5, <2>1 DEF Events!Begin
  <2> QED BY <2>2 DEF Events!Next
<1>7. CASE n # "invoke_on_message_begin"
  <2>1. /\ Part' = "body"
        /\ \/ /\ event' = "on_message_complete"
              /\ event \in {"on_headers_complete", "on_body",
                            "on_chunk_complete"}
           \/ /\ event' = "on_chunk_header"
              /\ event \in {"on_headers_complete", "on_chunk_complete"}
           \/ /\ event' = "on_chunk_complete"
              /\ event \in {"on_body", "on_chunk_header"}
           \/ /\ event' = "on_chunk_complete"
              /\ event \in ValueEvents /\ Part = "trailer"
    BY <1>1, <1>4, <1>7
       DEF PausingNodes, Complete, TrailerComplete, Pausing, Part, BodyEvents,
           ValueEvents, Phases, BodyPhases, TrailerPhases, EventAt
  <2>2. Events!Body
    BY <1>5, <2>1 DEF Events!Body, Events!ValueEnds, ValueEvents, Part, Trailing
  <2> QED BY <2>2 DEF Events!Next
<1> QED BY <1>6, <1>7

LEMMA IgnoringCallbackRefines ==
    ASSUME Good, IgnoringCallback PROVE Events!Next
<1> USE DEF Good, StateOK
<1> DEFINE n == parser.current
<1>1. /\ n \in DOMAIN IgnoringNodes /\ event' = Called(IgnoringNodes[n].cb)
      /\ outcome = "open" /\ outcome' = outcome /\ parser.error = "OK"
      /\ parser'.error = "OK" /\ parser'.flags = parser.flags
  BY DEF IgnoringCallback, At, TypeOK, ParserFields
<1>2. event # IgnoringNodes[n].cb
  BY <1>1 DEF Phases, LinePhases, HeaderPhases, EventAt, IgnoringNodes
<1>3. event' = IgnoringNodes[n].cb
  BY <1>1, <1>2 DEF Called
<1>4. \A from : event \in from => Events!Call(from, event', Part')
  BY <1>1, CallStep DEF CallErrors
<1>5. CASE n \in UrlRead \cup NoVersion \cup StatusRead
  <2>1. /\ Part' = "head"
        /\ \/ event' = "on_url_complete" /\ event = "on_url"
           \/ /\ event' = "on_status_complete"
              /\ event \in {"on_message_begin", "on_status"}
    BY <1>1, <1>3, <1>5
       DEF IgnoringNodes, Part, BodyEvents, Trailing, Phases, LinePhases,
           TrailerPhases, Line0, EventAt
  <2>2. Events!StartLine
    BY <1>4, <2>1 DEF Events!StartLine
  <2> QED BY <2>2 DEF Events!Next
<1>6. CASE n \in FieldRead \cup ValueRead
  <2>1. /\ Part' = Part
        /\ \/ event' = "on_header_field_complete" /\ event = "on_header_field"
           \/ event' = "on_header_value_complete" /\ event = "on_header_value"
    BY <1>1, <1>3, <1>6
       DEF IgnoringNodes, Part, BodyEvents, Trailing, Phases, HeaderPhases,
           EventAt
  <2>2. Events!Header
    BY <1>4, <2>1 DEF Events!Header, Part, Trailing
  <2> QED BY <2>2 DEF Events!Next
<1> QED BY <1>1, <1>5, <1>6 DEF IgnoringNodes

\* A span is handed out, at its end or at the end of a piece.
LEMMA SpanRefines == ASSUME Good, SpanEnd \/ ExecuteReturns PROVE Events!Next
<1> USE DEF Good, StateOK
<1> DEFINE n == parser.current
<1>1. /\ event' = Called(parser.span)
      /\ outcome = "open" /\ outcome' = outcome /\ parser.error = "OK"
      /\ parser'.error \in {"OK", "PAUSED", "USER"}
      /\ parser'.flags = parser.flags
  BY DEF SpanEnd, ExecuteReturns, At, Results, TypeOK, ParserFields
<1>2. /\ parser.span # "none"
      /\ n \in Readers \cup UrlText \cup StatusText \cup FieldText
            \cup ValueText \cup ChunkText \cup BodyText
  <2>1. CASE SpanEnd
    BY <2>1 DEF SpanEnd, SpanEnds, Phases, LinePhases, HeaderPhases,
       BodyPhases, EventAt
  <2>2. CASE ExecuteReturns
    BY <2>2, WaitingReaders DEF ExecuteReturns, Waiting
  <2> QED BY <2>1, <2>2
<1>3. n \in UrlText \cup StatusText \cup FieldText \cup ValueText
         \cup ChunkText \cup BodyText \cup {"eof"}
  BY <1>2 DEF Phases, LinePhases, HeaderPhases, BodyPhases, EventAt, Readers,
     Line0
<1>4. parser.span \in Data => event' = parser.span
  BY <1>1 DEF Called
<1>5. \A from : event \in from => Events!Call(from, event', Part')
  BY <1>1, CallStep DEF CallErrors
<1>6. CASE n \in UrlText \cup StatusText
  <2>1. /\ Part' = "head"
        /\ \/ event' = "on_url" /\ event \in {"on_message_begin", "on_url"}
           \/ /\ event' = "on_status"
              /\ event \in {"on_message_begin", "on_status"}
    BY <1>1, <1>4, <1>6
       DEF Part, BodyEvents, Trailing, Phases, LinePhases, TrailerPhases,
           Line0, EventAt, Data
  <2>2. Events!StartLine
    BY <1>5, <2>1 DEF Events!StartLine
  <2> QED BY <2>2 DEF Events!Next
<1>7. CASE n \in FieldText
  <2>1. /\ event' = "on_header_field"
        /\ \/ event \in LineEvents \cup ValueEvents \cup {"on_header_field"}
              /\ Part' = Part
           \/ event = "on_chunk_header" /\ Part' = "trailer"
    BY <1>1, <1>4, <1>7
       DEF Part, BodyEvents, Trailing, Phases, HeaderPhases, EventAt, Data,
           StartEvents, LineEvents, ValueEvents
  <2>2. Events!Header
    BY <1>5, <2>1
       DEF Events!Header, Events!LineEnds, Events!ValueEnds, LineEvents,
           ValueEvents, Part, Trailing
  <2> QED BY <2>2 DEF Events!Next
<1>8. CASE n \in ValueText
  <2>1. /\ event' = "on_header_value" /\ Part' = Part
        /\ event \in {"on_header_field", "on_header_field_complete",
                      "on_header_value"}
    BY <1>1, <1>4, <1>8
       DEF Part, BodyEvents, Trailing, Phases, HeaderPhases, EventAt, Data
  <2>2. Events!Header
    BY <1>5, <2>1 DEF Events!Header, Part, Trailing
  <2> QED BY <2>2 DEF Events!Next
<1>9. CASE n \in ChunkText \cup BodyText \cup {"eof"}
  <2>1. /\ event' = "on_body" /\ Part' = "body"
        /\ event \in {"on_headers_complete", "on_chunk_header", "on_body"}
    BY <1>1, <1>4, <1>9
       DEF Part, BodyEvents, Phases, BodyPhases, EventAt, Data
  <2>2. Events!Body
    BY <1>5, <2>1 DEF Events!Body
  <2> QED BY <2>2 DEF Events!Next
<1> QED BY <1>3, <1>6, <1>7, <1>8, <1>9

LEMMA HeadersCompleteRefines ==
    ASSUME Good, HeadersComplete PROVE Events!Next
<1> USE DEF Good, StateOK
<1>1. /\ parser.current \in HeadDone /\ event' = Called("on_headers_complete")
      /\ outcome = "open" /\ outcome' = outcome /\ parser.error = "OK"
      /\ parser'.error \in {"OK", "PAUSED", "CB_HEADERS_COMPLETE"}
  BY DEF HeadersComplete, At, TypeOK, ParserFields
<1>2. /\ event \in LineEvents \cup ValueEvents /\ Part = "head"
      /\ event' = "on_headers_complete" /\ Part' = "body"
  BY <1>1 DEF Called, Part, BodyEvents, Phases, HeaderPhases, TrailerPhases,
     EventAt, LineEvents, ValueEvents
<1>3. \A from : event \in from => Events!Call(from, event', Part')
  BY <1>1, CallStep DEF CallErrors
<1>4. Events!Header
  BY <1>2, <1>3
     DEF Events!Header, Events!LineEnds, Events!ValueEnds, LineEvents,
         ValueEvents, Part, Trailing
<1> QED BY <1>4 DEF Events!Next

LEMMA FinishRefines == ASSUME Good, Finish PROVE Events!Next
<1> USE DEF Good, StateOK
<1>1. parser'.error = parser.error /\ outcome = "open"
  BY DEF Finish, llhttp_init
<1>2. parser.error = "OK" => parser.current \in Readers
  BY WaitingReaders DEF Finish, Waiting
<1>3. parser.error = "OK" =>
        /\ parser.finish = "SAFE" => event \in {"none", "on_message_complete"}
        /\ parser.finish = "SAFE_WITH_CB" =>
             event \in {"on_headers_complete", "on_body"}
        /\ parser.finish = "UNSAFE" =>
             event \notin {"none", "on_message_complete"}
  <2>1. parser.current = "start" =>
          /\ parser.finish = "SAFE" /\ event \in {"none", "on_message_complete"}
    BY DEF Phases, LinePhases, FinishPhases, EventAt
  <2>2. parser.current \in EofText =>
          /\ parser.finish = "SAFE_WITH_CB"
          /\ event \in {"on_headers_complete", "on_body"}
    BY DEF Phases, BodyPhases, FinishPhases, EventAt
  <2>3. parser.current \in Readers \ ({"start"} \cup EofText) =>
          /\ parser.finish = "UNSAFE"
          /\ event \notin {"none", "on_message_complete"}
    BY DEF Phases, LinePhases, HeaderPhases, BodyPhases, FinishPhases, EventAt,
       Readers, Line0, StartEvents, LineEvents, ValueEvents
  <2> QED BY <1>2, <2>1, <2>2, <2>3
<1>4. \/ /\ parser.error # "OK" \/ event \in {"none", "on_message_complete"}
         /\ outcome' = "OK" /\ event' = event
      \/ /\ parser.error = "OK" /\ event \in {"on_headers_complete", "on_body"}
         /\ event' = "on_message_complete" /\ outcome' # "open"
      \/ /\ parser.error = "OK" /\ event \notin {"none", "on_message_complete"}
         /\ outcome' = "INVALID_EOF_STATE" /\ event' = event
  BY <1>3 DEF Finish, Called, Results
<1>5. Events!Finish
  BY <1>1, <1>4 DEF Events!Finish
<1> QED BY <1>5 DEF Events!Next

\* The callbacks of every connection, and what llhttp_finish() answers, are
\* those that HttpEvents.tla allows, for every text, every cut into pieces,
\* every pause and every error.
THEOREM EventsRefined == Spec => RefinesEvents
<1>1. Init => Events!Init
  BY DEF Init, llhttp_init, Events!Init, BodyEvents
<1>2. Inv /\ [Next]_vars => [Events!Next]_Events!vars
  <2> SUFFICES ASSUME Inv, [Next]_vars PROVE [Events!Next]_Events!vars
    OBVIOUS
  <2>1. CASE UNCHANGED vars
    BY <2>1 DEF vars, Events!vars
  <2>2. CASE Next
    <3>1. Good
      BY <2>2, OutcomeKept DEF Inv, Good
    <3> QED BY <2>2, <3>1, SilentActions, SilentStep, ErrorActions,
               CallbackRefines, IgnoringCallbackRefines, SpanRefines,
               HeadersCompleteRefines, FinishRefines DEF Next
  <2> QED BY <2>1, <2>2
<1> QED BY <1>1, <1>2, Invariance, PTL DEF Spec, RefinesEvents, Events!Spec
=============================================================================
