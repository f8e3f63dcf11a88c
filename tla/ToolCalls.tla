------------------------------ MODULE ToolCalls ------------------------------
(***************************************************************************)
(* What a caller of an MCP tool is promised, whatever thread it calls      *)
(* from: a call that was made ends with exactly one outcome, and an        *)
(* outcome that carries an answer carries the client app's first one.      *)
(* McpClient implements it.                                                *)
(***************************************************************************)
CONSTANT Calls

VARIABLES outcome,  \* unmade, open, then result, error or failed for good
          answer    \* the first answer the client app gave: none, result, error

vars == <<outcome, answer>>

Init == /\ outcome = [i \in Calls |-> "unmade"]
        /\ answer  = [i \in Calls |-> "none"]

\* The caller hands the call over.
Make(i) == /\ outcome[i] = "unmade"
           /\ outcome' = [outcome EXCEPT ![i] = "open"]
           /\ UNCHANGED answer

\* The client app answers, perhaps after the caller gave up.
Reply(i, a) == /\ outcome[i] # "unmade"
               /\ answer[i] = "none"
               /\ answer' = [answer EXCEPT ![i] = a]
               /\ UNCHANGED outcome

\* The caller gets the answer.
Answer(i) == /\ outcome[i] = "open"
             /\ answer[i] # "none"
             /\ outcome' = [outcome EXCEPT ![i] = answer[i]]
             /\ UNCHANGED answer

\* The caller is told that there is none: timeout, dead socket, cancel.
Fail(i) == /\ outcome[i] = "open"
           /\ outcome' = [outcome EXCEPT ![i] = "failed"]
           /\ UNCHANGED answer

Next == \E i \in Calls : \/ Make(i)
                         \/ \E a \in {"result", "error"} : Reply(i, a)
                         \/ Answer(i)
                         \/ Fail(i)

Spec == Init /\ [][Next]_vars
=============================================================================
