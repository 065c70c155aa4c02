----------------------------- MODULE LlhttpChars -----------------------------
(***************************************************************************)
(* The states of llhttp that look at a single character                    *)
(* (src/CEventLoop/ThirdParty/llhttp/src/llhttp.c, compiled without        *)
(* LLHTTP_STRICT_MODE): what each does with each class of characters.      *)
(* Eat(S, n) consumes a character of S and goes on at n, Goto(S, n) leaves *)
(* it to n; the first of the alternatives that has the character applies,  *)
(* as with a lookup table or a switch and its default.  A state named by   *)
(* an error code fails with it.  The names are those of the source.        *)
(*                                                                         *)
(* Digits that are read as numbers, and words, have no entry here: the     *)
(* actions of Llhttp.tla take them.                                        *)
(***************************************************************************)

\* Function f, and g where f is not defined.
Over(f, g) == [x \in DOMAIN f \cup DOMAIN g |->
                  IF x \in DOMAIN f THEN f[x] ELSE g[x]]
f @@ g == Over(f, g)

\* The classes that some state tells apart.  Tok stands for !$%&'+-_~, Par
\* for ()=[], Bar for ^`|, Oth for "<>\{} and all bytes from 128 on, H for
\* the letter, Alpha for the other letters, Ctl for the rest below 32.
Letters == {"Alpha", "H"}
Chars ==
    Letters \cup {"Ctl", "Tab", "LF", "FF", "CR", "SP", "Tok", "Par", "Bar",
                  "Oth", "Hash", "Star", "Comma", "Dot", "Slash", "Digit",
                  "Colon", "Semi", "Quest", "At"}
Blank == {"SP", "Tab"}
Line  == {"LF", "CR"}
Other == Chars \ {"Digit"}

Eat(S, n)  == [c \in S |-> [to |-> n, eat |-> TRUE]]
Goto(S, n) == [c \in S |-> [to |-> n, eat |-> FALSE]]

-----------------------------------------------------------------------------
(* The start of a message.                                                 *)

StartNodes ==
    [start |-> Eat(Line, "start") @@ Goto(Chars, "invoke_update_finish"),
     start_req_or_res |-> Goto({"H"}, "req_or_res_method")
                          @@ Goto(Chars, "invoke_update_type_2")]

SpaceNodes ==
    [req_first_space_before_url |->
         Eat({"SP"}, "req_spaces_before_url") @@ Goto(Chars, "INVALID_METHOD"),
     req_spaces_before_url |->
         Eat({"SP"}, "req_spaces_before_url")
         @@ Goto(Chars, "invoke_is_equal_method")]

-----------------------------------------------------------------------------
(* The url.                                                                *)

UrlChars == Chars \ ({"Ctl", "LF", "CR", "SP", "Hash", "Quest"})
ServerChars ==
    Letters \cup {"Tok", "Par", "Star", "Comma", "Dot", "Digit", "Colon",
                  "Semi"}
BadUrl == Eat(Line \cup {"SP"}, "INVALID_URL") @@ Goto(Chars, "INVALID_URL")

\* Each state of the url has span ends of its own, all with these targets:
\* a blank is followed by the protocol, the end of the line is HTTP/0.9.
UrlEnd ==
    Goto({"LF"}, "span_end_on_url") @@ Goto({"CR"}, "span_end_on_url_1")
    @@ Goto({"SP"}, "span_end_on_url_2")

UrlSchemaNodes ==
    [url_start |-> Eat({"Star", "Slash"}, "url_path")
                   @@ Goto(Letters, "url_schema") @@ BadUrl,
     url_schema |-> Eat({"Colon"}, "url_schema_delim")
                    @@ Eat(Letters, "url_schema") @@ BadUrl,
     url_schema_delim |-> Eat({"Slash"}, "url_schema_delim_1") @@ BadUrl,
     url_schema_delim_1 |->
         Eat({"Slash"}, "url_server") @@ Goto(Chars, "INVALID_URL")]

UrlServerNodes ==
    LET Server(afterAt) ==
            UrlEnd @@ Eat(ServerChars, "url_server")
            @@ Eat({"Slash"}, "url_path") @@ Eat({"Quest"}, "url_query")
            @@ Eat({"At"}, afterAt) @@ Goto(Chars, "INVALID_URL")
    IN  [url_server         |-> Server("url_server_with_at"),
         url_server_with_at |-> Server("INVALID_URL")]

UrlPathNodes ==
    [url_path |-> Eat(UrlChars, "url_path")
                  @@ Goto(Chars, "url_query_or_fragment")]

UrlTailNodes ==
    [url_query_or_fragment |->
         UrlEnd @@ Eat({"Hash"}, "url_fragment") @@ Eat({"Quest"}, "url_query")
         @@ Goto(Chars, "INVALID_URL"),
     url_query |-> UrlEnd @@ Eat(UrlChars \cup {"Quest"}, "url_query")
                   @@ Eat({"Hash"}, "url_fragment")
                   @@ Goto(Chars, "INVALID_URL"),
     url_fragment |-> UrlEnd
                      @@ Eat(UrlChars \cup {"Quest", "Hash"}, "url_fragment")
                      @@ Goto(Chars, "INVALID_URL"),
     url_skip_to_http |-> Eat(Chars, "invoke_on_url_complete_1")]

\* CR and LF are a sequence of two, whose second _index is a state here.
Http09Nodes ==
    [url_skip_to_http09 |-> Eat(Chars, "invoke_update_http_major"),
     url_skip_lf_to_http09 |-> Eat({"CR"}, "url_skip_lf_to_http09_LF")
                               @@ Goto(Chars, "INVALID_URL"),
     url_skip_lf_to_http09_LF |-> Eat({"LF"}, "invoke_update_http_major")
                                  @@ Goto(Chars, "INVALID_URL")]

-----------------------------------------------------------------------------
(* The versions and the status line.                                       *)

BadVersion == Goto(Other, "INVALID_VERSION")

ReqMajorNodes ==
    [req_http_start |-> Eat({"SP"}, "req_http_start"),
     req_http_major |-> BadVersion,
     req_http_dot |-> Eat({"Dot"}, "req_http_minor")
                      @@ Goto(Chars, "INVALID_VERSION")]
ReqMinorNodes ==
    [req_http_minor |-> BadVersion,
     req_http_end |-> Eat({"LF"}, "header_field_start")
                      @@ Eat({"CR"}, "req_http_end_1")
                      @@ Goto(Chars, "INVALID_VERSION"),
     req_http_end_1 |-> Eat({"LF"}, "header_field_start")
                        @@ Goto(Chars, "INVALID_VERSION")]

ResVersionNodes ==
    [res_http_major |-> BadVersion,
     res_http_dot |-> Eat({"Dot"}, "res_http_minor")
                      @@ Goto(Chars, "INVALID_VERSION"),
     res_http_minor |-> BadVersion,
     res_http_end |-> Eat({"SP"}, "invoke_update_status_code")
                      @@ Goto(Chars, "INVALID_VERSION")]

StatusNodes ==
    [res_status_code |-> Goto(Other, "res_status_code_otherwise"),
     res_status_code_otherwise |->
         Goto(Line, "res_status_start") @@ Eat({"SP"}, "res_status_start")
         @@ Goto(Chars, "INVALID_STATUS"),
     res_status_start |-> Eat({"LF"}, "invoke_on_status_complete")
                          @@ Eat({"CR"}, "res_line_almost_done")
                          @@ Goto(Chars, "span_start_on_status"),
     res_status |-> Goto({"LF"}, "span_end_on_status")
                    @@ Goto({"CR"}, "span_end_on_status_1")
                    @@ Eat(Chars, "res_status"),
     res_line_almost_done |-> Eat(Chars, "invoke_on_status_complete")]

-----------------------------------------------------------------------------
(* The header fields.                                                      *)

TokenChars ==
    Letters \cup {"SP", "Tok", "Hash", "Star", "Dot", "Digit", "Bar"}
ValueChars == Chars \ {"Ctl", "LF", "FF", "CR"}

FieldStartNodes ==
    [header_field_start |-> Goto({"LF"}, "headers_almost_done")
                            @@ Eat({"CR"}, "headers_almost_done")
                            @@ Goto(Chars, "span_start_on_header_field"),
     headers_almost_done |-> Eat(Chars, "invoke_test_flags")]

FieldNodes ==
    [header_field_colon |-> Eat({"SP"}, "header_field_colon")
                            @@ Goto({"Colon"}, "span_end_on_header_field")
                            @@ Goto(Chars, "invoke_update_header_state_10"),
     header_field_general |-> Eat(TokenChars, "header_field_general")
                              @@ Goto(Chars, "header_field_general_otherwise"),
     header_field_general_otherwise |->
         Goto({"Colon"}, "span_end_on_header_field_1")
         @@ Goto(Chars, "INVALID_HEADER_TOKEN")]

DiscardNodes ==
    [header_value_discard_ws |->
         Eat(Blank, "header_value_discard_ws")
         @@ Eat({"LF"}, "header_value_discard_lws")
         @@ Eat({"CR"}, "header_value_discard_ws_almost_done")
         @@ Goto(Chars, "span_start_on_header_value_1"),
     header_value_discard_ws_almost_done |->
         Eat(Chars, "header_value_discard_lws"),
     header_value_discard_lws |-> Eat(Blank, "header_value_discard_ws")
                                  @@ Goto(Chars, "invoke_load_header_state")]

ValueNodes ==
    [header_value |-> Eat(ValueChars, "header_value")
                      @@ Goto(Chars, "header_value_otherwise")]

ValueEndNodes ==
    [header_value_otherwise |-> Goto({"LF"}, "span_end_on_header_value_1")
                                @@ Goto({"CR"}, "span_end_on_header_value_2")
                                @@ Goto(Chars, "INVALID_HEADER_TOKEN"),
     header_value_almost_done |-> Eat({"LF"}, "header_value_lws")
                                  @@ Goto(Chars, "LF_EXPECTED"),
     header_value_lws |-> Goto(Blank, "span_start_on_header_value_1")
                          @@ Goto(Chars, "invoke_load_header_state_3")]

ConnectionNodes ==
    [header_value_connection |-> Eat(Blank, "header_value_connection"),
     header_value_connection_ws |->
         Goto(Line, "header_value_otherwise")
         @@ Eat({"SP"}, "header_value_connection_ws")
         @@ Eat({"Comma"}, "invoke_load_header_state_4")
         @@ Goto(Chars, "invoke_update_header_state_4"),
     header_value_connection_token |->
         Eat({"Comma"}, "header_value_connection")
         @@ Eat(ValueChars, "header_value_connection_token")
         @@ Goto(Chars, "header_value_otherwise")]

ContentLengthNodes ==
    [header_value_content_length |->
         Goto(Other, "header_value_content_length_ws"),
     header_value_content_length_ws |->
         Goto(Line, "invoke_or_flags_15")
         @@ Eat({"SP"}, "header_value_content_length_ws")
         @@ Goto(Chars, "span_end_on_header_value_5")]

ChunkedNodes ==
    [header_value_te_chunked_last |->
         Goto(Line, "invoke_update_header_state_7")
         @@ Eat({"SP"}, "header_value_te_chunked_last")
         @@ Goto(Chars, "header_value_te_chunked"),
     header_value_te_token_ows |-> Eat(Blank, "header_value_te_token_ows")
                                   @@ Goto(Chars, "header_value_te_chunked")]
EncodingNodes ==
    [header_value_te_token |-> Eat({"Comma"}, "header_value_te_token_ows")
                               @@ Eat(ValueChars, "header_value_te_token")
                               @@ Goto(Chars, "invoke_update_header_state_8")]

-----------------------------------------------------------------------------
(* The body.  A chunk size is read up to a character that is no hex digit. *)

ChunkSizeNodes ==
    [chunk_size_digit |-> Goto(Other, "INVALID_CHUNK_SIZE"),
     chunk_size |-> Goto(Other, "chunk_size_otherwise")]
ChunkLineNodes ==
    [chunk_size_otherwise |-> Eat({"CR"}, "chunk_size_almost_done")
                              @@ Eat({"SP", "Semi"}, "chunk_parameters")
                              @@ Goto(Chars, "INVALID_CHUNK_SIZE"),
     chunk_parameters |-> Eat({"CR"}, "chunk_size_almost_done")
                          @@ Eat(Chars, "chunk_parameters"),
     chunk_size_almost_done |-> Eat(Chars, "invoke_on_chunk_header")]
ChunkDataNodes ==
    [chunk_data_almost_done |-> Eat(Chars, "chunk_data_almost_done_skip"),
     chunk_data_almost_done_skip |-> Eat(Chars, "invoke_on_chunk_complete")]
EofNodes == [eof |-> Eat(Chars, "eof")]

CharNodes ==
    StartNodes @@ SpaceNodes @@ UrlSchemaNodes @@ UrlServerNodes
    @@ UrlPathNodes @@ UrlTailNodes @@ Http09Nodes @@ ReqMajorNodes
    @@ ReqMinorNodes @@ ResVersionNodes @@ StatusNodes @@ FieldStartNodes
    @@ FieldNodes @@ DiscardNodes @@ ValueNodes @@ ValueEndNodes
    @@ ConnectionNodes @@ ContentLengthNodes @@ ChunkedNodes @@ EncodingNodes
    @@ ChunkSizeNodes @@ ChunkLineNodes @@ ChunkDataNodes @@ EofNodes
=============================================================================
