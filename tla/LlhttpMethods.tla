---------------------------- MODULE LlhttpMethods ----------------------------
(***************************************************************************)
(* How llhttp recognises the words of HTTP: the method of a request, the   *)
(* protocol, the fields whose values it reads, and their values            *)
(* (src/CEventLoop/ThirdParty/llhttp/src/llhttp.c, the half that is        *)
(* compiled without LLHTTP_STRICT_MODE).                                   *)
(*                                                                         *)
(* Each table is a part of a trie whose nodes are the states of the        *)
(* source.  An edge <<n, text, m>> of "next" leads from node n to node m,  *)
(* an edge <<n, text, k>> of "match" ends a word and yields the number k.  *)
(* A text of several letters is one that llparse__match_sequence_*()       *)
(* matches; the empty text is a default that consumes nothing.             *)
(***************************************************************************)
EXTENDS Naturals, Sequences

NoText     == ""
Underscore == "_"

\* HTTP_METHOD_MAP of llhttp.h: the names of the methods by their numbers.
MethodNames ==
    <<"GET", "HEAD", "POST", "PUT", "CONNECT", "OPTIONS", "TRACE", "COPY",
      "LOCK", "MKCOL", "MOVE", "PROPFIND", "PROPPATCH", "SEARCH", "UNLOCK",
      "BIND", "REBIND", "UNBIND", "ACL", "REPORT", "MKACTIVITY", "CHECKOUT",
      "MERGE", "M-SEARCH", "NOTIFY", "SUBSCRIBE", "UNSUBSCRIBE", "PATCH",
      "PURGE", "MKCALENDAR", "LINK", "UNLINK", "SOURCE", "PRI", "DESCRIBE",
      "ANNOUNCE", "SETUP", "PLAY", "PAUSE", "TEARDOWN", "GET_PARAMETER",
      "SET_PARAMETER", "REDIRECT", "RECORD", "FLUSH">>
llhttp_method_name(m) == IF m = 0 THEN "DELETE" ELSE MethodNames[m]

\* The numbers of enum llhttp_method that the parser looks for.
HTTP_HEAD    == 2
HTTP_CONNECT == 5

-----------------------------------------------------------------------------
(* The method trie: the states start_req, start_req_1, ... start_req_69.   *)

start_req ==
    [next |-> {<<"start_req", "A", "start_req_1">>,
               <<"start_req", "B", "start_req_4">>,
               <<"start_req", "C", "start_req_5">>,
               <<"start_req", "D", "start_req_10">>,
               <<"start_req", "F", "start_req_14">>,
               <<"start_req", "G", "start_req_15">>,
               <<"start_req", "H", "start_req_18">>,
               <<"start_req", "L", "start_req_19">>,
               <<"start_req", "M", "start_req_22">>,
               <<"start_req", "N", "start_req_31">>,
               <<"start_req", "O", "start_req_32">>,
               <<"start_req", "P", "start_req_33">>,
               <<"start_req", "R", "start_req_46">>,
               <<"start_req", "S", "start_req_52">>,
               <<"start_req", "T", "start_req_60">>,
               <<"start_req", "U", "start_req_63">>},
     match |-> {}]

WordsAB ==
    [next |-> {<<"start_req_1", "C", "start_req_2">>,
               <<"start_req_1", "N", "start_req_3">>},
     match |-> {<<"start_req_2", "L", 19>>, <<"start_req_3", "NOUNCE", 36>>,
                <<"start_req_4", "IND", 16>>}]

WordsC ==
    [next |-> {<<"start_req_5", "H", "start_req_6">>,
               <<"start_req_5", "O", "start_req_7">>,
               <<"start_req_7", "N", "start_req_8">>,
               <<"start_req_7", "P", "start_req_9">>},
     match |-> {<<"start_req_6", "ECKOUT", 22>>, <<"start_req_8", "NECT", 5>>,
                <<"start_req_9", "Y", 8>>}]

WordsD ==
    [next |-> {<<"start_req_10", "E", "start_req_11">>,
               <<"start_req_11", "L", "start_req_12">>,
               <<"start_req_11", "S", "start_req_13">>},
     match |-> {<<"start_req_12", "ETE", 0>>,
                <<"start_req_13", "CRIBE", 35>>}]

WordsFGH ==
    [next |-> {<<"start_req_15", "ET", "start_req_16">>,
               <<"start_req_16", Underscore, "start_req_17">>},
     match |-> {<<"start_req_14", "LUSH", 45>>, <<"start_req_16", NoText, 1>>,
                <<"start_req_17", "PARAMETER", 41>>,
                <<"start_req_18", "EAD", 2>>}]

WordsL ==
    [next |-> {<<"start_req_19", "I", "start_req_20">>,
               <<"start_req_19", "O", "start_req_21">>},
     match |-> {<<"start_req_20", "NK", 31>>, <<"start_req_21", "CK", 9>>}]

WordsMK ==
    [next |-> {<<"start_req_25", "A", "start_req_26">>,
               <<"start_req_25", "C", "start_req_27">>,
               <<"start_req_27", "A", "start_req_28">>,
               <<"start_req_27", "O", "start_req_29">>},
     match |-> {<<"start_req_26", "CTIVITY", 21>>,
                <<"start_req_28", "LENDAR", 30>>,
                <<"start_req_29", "L", 10>>}]

WordsMNO ==
    [next |-> {<<"start_req_22", "-", "start_req_23">>,
               <<"start_req_22", "E", "start_req_24">>,
               <<"start_req_22", "K", "start_req_25">>,
               <<"start_req_22", "O", "start_req_30">>},
     match |-> {<<"start_req_23", "SEARCH", 24>>,
                <<"start_req_24", "RGE", 23>>, <<"start_req_30", "VE", 11>>,
                <<"start_req_31", "OTIFY", 25>>,
                <<"start_req_32", "PTIONS", 6>>}]

WordsPAtoPO ==
    [next |-> {<<"start_req_34", "T", "start_req_35">>,
               <<"start_req_34", "U", "start_req_36">>},
     match |-> {<<"start_req_35", "CH", 28>>, <<"start_req_36", "SE", 39>>,
                <<"start_req_37", "AY", 38>>, <<"start_req_38", "ST", 3>>}]

WordsPRtoPU ==
    [next |-> {<<"start_req_33", "A", "start_req_34">>,
               <<"start_req_33", "L", "start_req_37">>,
               <<"start_req_33", "O", "start_req_38">>,
               <<"start_req_33", "R", "start_req_39">>,
               <<"start_req_33", "U", "start_req_44">>,
               <<"start_req_39", "O", "start_req_40">>,
               <<"start_req_40", "P", "start_req_41">>,
               <<"start_req_41", "F", "start_req_42">>,
               <<"start_req_41", "P", "start_req_43">>,
               <<"start_req_44", "R", "start_req_45">>},
     match |-> {<<"start_req_39", "I", 34>>, <<"start_req_42", "IND", 12>>,
                <<"start_req_43", "ATCH", 13>>, <<"start_req_44", "T", 4>>,
                <<"start_req_45", "GE", 29>>}]

WordsR ==
    [next |-> {<<"start_req_46", "E", "start_req_47">>,
               <<"start_req_47", "B", "start_req_48">>,
               <<"start_req_47", "C", "start_req_49">>,
               <<"start_req_47", "D", "start_req_50">>,
               <<"start_req_47", "P", "start_req_51">>},
     match |-> {<<"start_req_48", "IND", 17>>, <<"start_req_49", "ORD", 44>>,
                <<"start_req_50", "IRECT", 43>>,
                <<"start_req_51", "ORT", 20>>}]

WordsSE ==
    [next |-> {<<"start_req_53", "A", "start_req_54">>,
               <<"start_req_53", "T", "start_req_55">>,
               <<"start_req_55", "U", "start_req_56">>,
               <<"start_req_55", Underscore, "start_req_57">>},
     match |-> {<<"start_req_54", "RCH", 14>>, <<"start_req_56", "P", 37>>,
                <<"start_req_57", "PARAMETER", 42>>}]

WordsS ==
    [next |-> {<<"start_req_52", "E", "start_req_53">>,
               <<"start_req_52", "O", "start_req_58">>,
               <<"start_req_52", "U", "start_req_59">>},
     match |-> {<<"start_req_58", "URCE", 33>>,
                <<"start_req_59", "BSCRIBE", 26>>}]

WordsT ==
    [next |-> {<<"start_req_60", "E", "start_req_61">>,
               <<"start_req_60", "R", "start_req_62">>},
     match |-> {<<"start_req_61", "ARDOWN", 40>>,
                <<"start_req_62", "ACE", 7>>}]

WordsU ==
    [next |-> {<<"start_req_63", "N", "start_req_64">>,
               <<"start_req_64", "B", "start_req_65">>,
               <<"start_req_64", "L", "start_req_66">>,
               <<"start_req_64", "S", "start_req_69">>,
               <<"start_req_66", "I", "start_req_67">>,
               <<"start_req_66", "O", "start_req_68">>},
     match |-> {<<"start_req_65", "IND", 18>>, <<"start_req_67", "NK", 32>>,
                <<"start_req_68", "CK", 15>>,
                <<"start_req_69", "UBSCRIBE", 27>>}]

\* With HTTP_BOTH a first "H" may begin HEAD or a response.
req_or_res_method ==
    [next |-> {<<"req_or_res_method", "H", "req_or_res_method_1">>,
               <<"req_or_res_method_1", "E", "req_or_res_method_2">>,
               <<"req_or_res_method_1", "T", "req_or_res_method_3">>,
               <<"req_or_res_method_3", "TP/", "invoke_update_type_1">>},
     match |-> {<<"req_or_res_method_2", "AD", HTTP_HEAD>>}]

MethodTries ==
    {start_req, WordsAB, WordsC, WordsD, WordsFGH, WordsL, WordsMK, WordsMNO,
     WordsPAtoPO, WordsPRtoPU, WordsR, WordsSE, WordsS, WordsT, WordsU}

\* The methods that a request may have in each of the three protocols.
HttpMethods == 0 .. 34
IceMethods  == {33}
RtspMethods == {1, 3, 6} \cup 35 .. 45

-----------------------------------------------------------------------------
(* The other words.                                                        *)

start_res ==
    [next |-> {<<"start_res", "HTTP/", "res_http_major">>}, match |-> {}]

req_http_start ==
    [next |-> {<<"req_http_start", "H", "req_http_start_1">>,
               <<"req_http_start", "I", "req_http_start_2">>,
               <<"req_http_start", "R", "req_http_start_3">>,
               <<"req_http_start_1", "TTP/", "invoke_load_method">>,
               <<"req_http_start_2", "CE/", "invoke_load_method_1">>,
               <<"req_http_start_3", "TSP/", "invoke_load_method_2">>},
     match |-> {}]

\* The fields whose values are read, with their header_state.
header_field ==
    [next |-> {<<"header_field", "c", "header_field_1">>,
               <<"header_field", "p", "header_field_5">>,
               <<"header_field", "t", "header_field_6">>,
               <<"header_field", "u", "header_field_7">>,
               <<"header_field_1", "on", "header_field_2">>,
               <<"header_field_2", "n", "header_field_3">>,
               <<"header_field_2", "t", "header_field_4">>},
     match |-> {<<"header_field_3", "ection", 1>>,
                <<"header_field_4", "ent-length", 2>>,
                <<"header_field_5", "roxy-connection", 1>>,
                <<"header_field_6", "ransfer-encoding", 3>>,
                <<"header_field_7", "pgrade", 4>>}]

\* The tokens of Connection, with their header_state.
header_value_connection ==
    [next |-> {<<"header_value_connection", "c", "header_value_connection_1">>,
               <<"header_value_connection", "k", "header_value_connection_2">>,
               <<"header_value_connection", "u",
                 "header_value_connection_3">>},
     match |-> {<<"header_value_connection_1", "lose", 6>>,
                <<"header_value_connection_2", "eep-alive", 5>>,
                <<"header_value_connection_3", "pgrade", 7>>}]

header_value_te_chunked ==
    [next |-> {<<"header_value_te_chunked", "chunked",
                 "header_value_te_chunked_last">>},
     match |-> {}]

-----------------------------------------------------------------------------
(* What has been spelled where.                                            *)

\* The edges of the method tries and of the field trie.
SpelledTries == MethodTries \cup {req_or_res_method, header_field}
SpelledNext  == UNION {t.next : t \in SpelledTries}
SpelledNodes == UNION {{e[1] : e \in t.next \cup t.match} : t \in SpelledTries}

\* The letters on the way to a node.
Spelling[n \in SpelledNodes] ==
    IF \E e \in SpelledNext : e[3] = n
    THEN LET e == CHOOSE e \in SpelledNext : e[3] = n
         IN  Spelling[e[1]] \o e[2]
    ELSE NoText

\* Facts about these tables that TLC evaluates, for the proofs, in which
\* strings are not computed with.
ASSUME SpellingAssumption ==
    /\ \A e \in SpelledNext :
          e[3] \in SpelledNodes => Spelling[e[1]] \o e[2] = Spelling[e[3]]
    /\ \A t \in SpelledTries \ {header_field} : \A e \in t.match :
          Spelling[e[1]] \o e[2] = llhttp_method_name(e[3])
    /\ \A e \in header_field.match :
          /\ Spelling[e[1]] \o e[2] = "content-length" => e[3] = 2
          /\ Spelling[e[1]] \o e[2] = "transfer-encoding" => e[3] = 3
    /\ \A n \in {"start_req", "req_or_res_method", "header_field"} :
          Spelling[n] = NoText
=============================================================================
