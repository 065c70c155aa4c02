------------------------------ MODULE MCLlhttp -------------------------------
(* Instance of Llhttp for TLC. *)
EXTENDS Llhttp

\* GET HTTP/1.1 and CONNECT without a version, which is HTTP/0.9.
MCRequests  == {<<1, 1, 1>>, <<5, 0, 9>>}
MCResponses == {<<101, 1, 1>>, <<200, 1, 1>>}
=============================================================================
