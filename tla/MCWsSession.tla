----------------------------- MODULE MCWsSession -----------------------------
(* TLC instances of WsSession.                                             *)
EXTENDS WsSession

CONSTANT t1

(* The claims of token t1 open every service, those of the others none.    *)
OneEntitled == [t \in Tokens |-> IF t = t1 THEN Services ELSE {}]
=============================================================================
