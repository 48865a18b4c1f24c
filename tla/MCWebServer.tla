---------------------------- MODULE MCWebServer ----------------------------
(* One client asks to keep the connection, for one request more, and sends *)
(* parts of requests, or both at once; the other connects and asks nothing.*)
EXTENDS WebServer, TLC

CONSTANTS c1, c2

RequestsMC == (c1 :> <<TRUE, FALSE>>) @@ (c2 :> <<>>)
=============================================================================
