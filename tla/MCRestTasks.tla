----------------------------- MODULE MCRestTasks -----------------------------
\* Two tasks of one user compete for one slot; two prompts over WebSocket are what
\* the shutdown waits for, one may be over while the other still runs.
EXTENDS RestTasks

CONSTANTS t1, t2, u1, s1, s2

MCTasks == {t1, t2}
MCOneTask == {t1}
MCUsers == {u1}
MCOwner == [t \in Tasks |-> u1]
MCSessions == {s1, s2}
MCOneSession == {s1}
=============================================================================
