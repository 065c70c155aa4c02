---------------------------- MODULE MCHttpServer ----------------------------
(* HttpServer for TLC: the peer sends a request with two headers of one    *)
(* name, followed by a body; two pipelined requests; a request whose       *)
(* headers end in a line without a colon; one with an unknown method; and  *)
(* request lines that cannot be read.                                      *)
EXTENDS HttpServer

MCRequests ==
    {<<"GET", "/a?b", "HTTP/1.1", "CR", "LF",
       "n", ":", "v", "CR", "LF", "n", ":", ":", "CR", "LF",
       "CR", "LF", "body">>,
     <<"PUT", "/a", "HTTP/2", "CR", "LF", "CR", "LF",
       "GET", "/a", "HTTP/1.0", "CR", "LF", "CR", "LF">>,
     <<"POST", "/a", "HTTP/1.0", "x", "CR", "LF",
       "m", ":", "CR", "CR", "LF", "nocolon", "CR", "LF">>,
     <<"GET", "/a", "CR", "LF", "n", ":", "v", "CR", "LF", "CR", "LF">>,
     <<"CR", "LF", "GET", "/a", "HTTP/1.1", "CR", "LF", "CR", "LF">>}
=============================================================================
