---------------------------- MODULE MCHttpServer ----------------------------
(***************************************************************************)
(* Small instance of HttpServer for TLC.  With a buffer of 6 the requests  *)
(* are: no body; a body that just fits; one byte more; a body whose length *)
(* header is in lower case; a head that does not fit.                      *)
(***************************************************************************)
EXTENDS HttpServer

MCRequests ==
    {[head |-> 2, length |-> 0, body |-> 0, spelled |-> TRUE],
     [head |-> 2, length |-> 3, body |-> 3, spelled |-> TRUE],
     [head |-> 2, length |-> 4, body |-> 4, spelled |-> TRUE],
     [head |-> 2, length |-> 2, body |-> 2, spelled |-> FALSE],
     [head |-> 7, length |-> 0, body |-> 0, spelled |-> TRUE]}
=============================================================================
