---------------------------- MODULE MCFederation ----------------------------
(* Model values and bounds for checking Federation with TLC.               *)
EXTENDS Federation

CONSTANTS a, b, r1, r2, p1, p2

\* One client asks a, the other b, which are one another's peers; both pollers
\* ask about the first client's job.
MCEntry == [r \in Requests |-> IF r = r1 THEN a ELSE b]
MCAsked == [k \in Pollers |-> r1]
MCPeers == [h \in Hosts |-> Hosts \ {h}]
=============================================================================
