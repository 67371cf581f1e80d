------------------------------ MODULE MCServing ------------------------------
(* Two standalone servers and a hybrid one, a generation request and the   *)
(* one request of each validation, over two versions that are validated.   *)
EXTENDS Serving

CONSTANTS s1, s2, h1, r1, q1

MCStandalone == {s1, s2}
MCHybrid == {h1}
MCClients == {r1}
MCValidators == {q1}
=============================================================================
