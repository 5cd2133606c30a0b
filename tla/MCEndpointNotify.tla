-------------------------- MODULE MCEndpointNotify --------------------------
(* Small instances of EndpointNotify: two flushers and two alert keys of   *)
(* one endpoint, or a flusher, a beater and a key on each of two endpoints. *)
EXTENDS EndpointNotify, TLC

CONSTANTS worker, daemon, minute, k1, k2, system, storage

TwoFlushers == {worker, daemon}
OneFlusher  == {worker}
NoBeaters   == {}
OneBeater   == {minute}
OneKey      == {k1}
TwoKeys     == {k1, k2}
OneEndpoint == {storage}
TwoEndpoints == {system, storage}
SystemOnly   == {system}
Together == [k \in Keys |-> storage]
Apart    == [k \in Keys |-> IF k = k1 THEN system ELSE storage]
AllBeats == [b \in Beaters |-> Endpoints]
Warnings == {"warning"}
BothSeverities == {"warning", "critical"}
None == {}
==============================================================================
