------------------------ MODULE MCAuthorityStorage ------------------------
(* AuthorityStorage for TLC.                                               *)
EXTENDS AuthorityStorage, TLC

CONSTANTS c1, c2, c3

CallerSymmetry == Permutations(Callers)

(* A record to register, and the updates: of one claim, and back again of  *)
(* that and two more.  The same update twice changes nothing.              *)
Record0 == [metadata |-> 0, metadataPolicy |-> 0, jwks |-> 0]
MCRegistrations == {Record0}
Update1 == [metadata |-> 1, metadataPolicy |-> Keep, jwks |-> Keep]
Update2 == [metadata |-> 0, metadataPolicy |-> 1, jwks |-> 1]
MCUpdates == {Update1, Update2}

(* What is called: the lifecycle of s1, and s2, whose row the application  *)
(* writes itself as well (with a time that may lie ahead).                 *)
LifecycleCalls ==
    [op : {"register"}, sub : {"s1", "s2"}, content : {Record0}, valid : {TRUE}]
    \cup [op : {"update"}, sub : {"s1"}, updates : MCUpdates, valid : {TRUE}]
    \cup [op : {"revoke", "record", "own", "events"}, sub : {"s1"}]
    \cup [op : {"add"}, sub : {"s2"}, content : {Record0}, at : {1}, valid : {TRUE}]
    \cup [op : {"change"}, sub : {"s2"}, updates : {Update1}, valid : {TRUE}]
    \cup [op : {"remove", "events"}, sub : {"s2"}]

(* Marks are issued and revoked while transactions of others fail or not.  *)
TrustMarkCalls ==
    [op : {"issue", "revokeMark"}, sub : {"s1"}]
    \cup [op : {"register"}, sub : {"s1"}, content : {Record0}, valid : BOOLEAN]
    \cup [op : {"update"}, sub : {"s1"}, updates : {Update1}, valid : {FALSE}]
=============================================================================
