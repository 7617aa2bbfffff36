----------------------------- MODULE Authority -----------------------------
\* What the lease columns of work_item_workspaces promise: a directory on
\* disk has at most one owner at a time, and takes the next one only when
\* the last one let go.
CONSTANTS Directory, Owner

VARIABLE holders    \* the owners of a directory

Init == holders = [d \in Directory |-> {}]

Take(d, o) == holders[d] = {} /\ holders' = [holders EXCEPT ![d] = {o}]

\* A release, or a restart that frees several owners at once.
Release == \E gone \in SUBSET Owner : holders' = [d \in Directory |-> holders[d] \ gone]

Next == Release \/ \E d \in Directory, o \in Owner : Take(d, o)

Spec == Init /\ [][Next]_holders
=============================================================================
