---------------------------- MODULE MCDataUsage ----------------------------
EXTENDS DataUsage, TLC

CONSTANTS b0, b1

MCBytes == {b0, b1}
MCMapped == {b1}

\* An IPv4 address, and the same address mapped into IPv6.
Client4 == [ip |-> b1, z |-> z4]
Client6 == [ip |-> b1, z |-> z6noz]

Addressed == {"clientAddress" :> a : a \in {Client4, Client6, NoAddr}} \cup {<<>>}
InSession == {"clientSessionID" :> s : s \in {0, 1, 2}} \cup {<<>>}
Amount == {"nl2r" :> 1 @@ "nr2l" :> 2, "payloadBytesSent" :> Word - 1}

\* What is zero and what is left out comes apart once, not in all combinations.
MCLine == {a @@ s @@ n : a \in Addressed \ {"clientAddress" :> NoAddr},
                         s \in InSession \ {"clientSessionID" :> 0}, n \in Amount}
              \cup {"clientAddress" :> NoAddr @@ "clientSessionID" :> 0 @@ "nr2l" :> 1}
MCSession == {1, 2}
=============================================================================
