----------------------------- MODULE HttpEvents ------------------------------
(***************************************************************************)
(* What a user of llhttp may rely on: the order of the callbacks of a      *)
(* connection (struct llhttp_settings_s), when an error ends it, and what  *)
(* llhttp_finish() answers at the end of the stream.                       *)
(***************************************************************************)
CONSTANTS Errors,   \* what llhttp_execute() may return except HPE_OK
          Pauses    \* those of them that llhttp_resume*() takes back

VARIABLES
    event,     \* the callback that was called last
    part,      \* the part of the message: "head", "body" or "trailer"
    error,     \* "OK" or the pending error
    outcome    \* "open", or what llhttp_finish() returned

vars == <<event, part, error, outcome>>

Init == event = "none" /\ part = "head" /\ error = "OK" /\ outcome = "open"

Working == error = "OK" /\ outcome = "open"

\* Callback cb is called after one of the callbacks of from; its result may
\* be a pause or an error.
Call(from, cb, p) ==
    /\ Working
    /\ event \in from
    /\ event' = cb /\ part' = p
    /\ error' \in Errors \cup {"OK"}
    /\ UNCHANGED outcome

Begin == Call({"none", "on_message_complete"}, "on_message_begin", "head")

StartLine ==
    \/ Call({"on_message_begin", "on_url"}, "on_url", "head")
    \/ Call({"on_url"}, "on_url_complete", "head")
    \/ Call({"on_message_begin", "on_status"}, "on_status", "head")
    \/ Call({"on_message_begin", "on_status"}, "on_status_complete", "head")

LineEnds  == {"on_url_complete", "on_status_complete"}
ValueEnds == {"on_header_value", "on_header_value_complete"}

\* A field is followed by its value.  Fields after a chunk are the trailer.
Header ==
    \/ Call(LineEnds \cup ValueEnds \cup {"on_header_field"},
            "on_header_field", part)
    \/ Call({"on_chunk_header"}, "on_header_field", "trailer")
    \/ Call({"on_header_field"}, "on_header_field_complete", part)
    \/ Call({"on_header_field", "on_header_field_complete",
             "on_header_value"}, "on_header_value", part)
    \/ Call({"on_header_value"}, "on_header_value_complete", part)
    \/ /\ part = "head"
       /\ Call(LineEnds \cup ValueEnds, "on_headers_complete", "body")

Body ==
    \/ Call({"on_headers_complete", "on_chunk_complete"},
            "on_chunk_header", "body")
    \/ Call({"on_headers_complete", "on_chunk_header", "on_body"},
            "on_body", "body")
    \/ Call({"on_body", "on_chunk_header"}, "on_chunk_complete", "body")
    \/ part = "trailer" /\ Call(ValueEnds, "on_chunk_complete", "body")
    \/ Call({"on_headers_complete", "on_body", "on_chunk_complete"},
            "on_message_complete", "body")

Fail ==
    /\ Working
    /\ error' \in Errors
    /\ UNCHANGED <<event, part, outcome>>

\* Only a pause can be taken back.
Resume ==
    /\ outcome = "open" /\ error \in Pauses
    /\ error' = "OK"
    /\ UNCHANGED <<event, part, outcome>>

\* llhttp_finish(): between two messages, or after an error, all is well.  In
\* a body either the end of the stream ends the message, which is completed,
\* or more was declared than came; whatever else was begun is cut off.
Finish ==
    /\ outcome = "open"
    /\ UNCHANGED error /\ part' \in {"head", "body", "trailer"}
    /\ \/ /\ error # "OK" \/ event \in {"none", "on_message_complete"}
          /\ outcome' = "OK" /\ UNCHANGED event
       \/ /\ error = "OK" /\ event \in {"on_headers_complete", "on_body"}
          /\ event' = "on_message_complete" /\ outcome' # "open"
       \/ /\ error = "OK" /\ event \notin {"none", "on_message_complete"}
          /\ outcome' = "INVALID_EOF_STATE" /\ UNCHANGED event

Next == Begin \/ StartLine \/ Header \/ Body \/ Fail \/ Resume \/ Finish

Spec == Init /\ [][Next]_vars
=============================================================================
