------------------------ MODULE SubordinateRegistry ------------------------
(***************************************************************************)
(* What the authority promises about its subordinates: every lifecycle     *)
(* operation is one atomic step that changes the record of one subject and *)
(* extends its history by exactly the events that explain the change.  A   *)
(* row the application writes itself changes and its history does not.     *)
(* AuthorityStorage implements it with transactions of several steps.      *)
(***************************************************************************)
EXTENDS Sequences

CONSTANTS
    Subjects,    \* entity identifiers of subordinates
    Untracked,   \* those whose rows the application also writes itself
    Contents,    \* what a record can say
    NoRecord,    \* the subject is not registered
    Changes(_, _) \* the update events that lead from one content to another

VARIABLES
    record,      \* subject -> its content, or NoRecord
    history      \* subject -> the types of its events, in order

Init ==
    /\ record = [s \in Subjects |-> NoRecord]
    /\ history = [s \in Subjects |-> <<>>]

Log(s, types) == history' = [history EXCEPT ![s] = @ \o types]

Register(s, content) ==
    /\ record[s] = NoRecord
    /\ record' = [record EXCEPT ![s] = content]
    /\ Log(s, <<"registration">>)

Update(s, content) ==
    /\ record[s] # NoRecord
    /\ record' = [record EXCEPT ![s] = content]
    /\ Log(s, Changes(record[s], content))

Revoke(s) ==
    /\ record[s] # NoRecord
    /\ record' = [record EXCEPT ![s] = NoRecord]
    /\ Log(s, <<"revocation">>)

RecordEvent(s) ==
    /\ Log(s, <<"custom">>)
    /\ UNCHANGED record

Write(s) ==
    /\ s \in Untracked
    /\ \E content \in Contents \cup {NoRecord} :
          record' = [record EXCEPT ![s] = content]
    /\ UNCHANGED history

Next ==
    \E s \in Subjects :
        \/ \E content \in Contents : Register(s, content) \/ Update(s, content)
        \/ Revoke(s)
        \/ RecordEvent(s)
        \/ Write(s)

Spec == Init /\ [][Next]_<<record, history>>
============================================================================
