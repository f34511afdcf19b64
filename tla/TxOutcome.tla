------------------------------ MODULE TxOutcome ------------------------------
(***************************************************************************)
(* What the transaction manager promises its callers, with no log, no lock *)
(* and no session: every transaction id is handed out at most once, runs,  *)
(* and gets one outcome that is never revised, not even by a restart.      *)
(* `answer` is what a status query returns.  A finished transaction may be *)
(* forgotten (a query then finds nothing), a restart may bring a forgotten *)
(* one back, and a restart never loses an answer that was available.       *)
(***************************************************************************)
EXTENDS Naturals

CONSTANT MaxXid

VARIABLES outcome,      \* the true fate of each transaction id
          answer        \* what status(xid) returns

vars == <<outcome, answer>>

Xid == 1..MaxXid
Absent == "Absent"
Final == {"Committed", "Aborted"}

Init == /\ outcome = [x \in Xid |-> Absent]
        /\ answer = [x \in Xid |-> Absent]

\* An id never seen before starts to run.
Start(x) == /\ outcome[x] = Absent
            /\ outcome' = [outcome EXCEPT ![x] = "InProgress"]
            /\ answer' = [answer EXCEPT ![x] = "InProgress"]

\* A running transaction gets its outcome.
Finish(x, result) ==
    /\ outcome[x] = "InProgress"
    /\ outcome' = [outcome EXCEPT ![x] = result]
    /\ answer' = [answer EXCEPT ![x] = result]

\* A query about a forgotten transaction may find its outcome again.
Recall(x) == /\ outcome[x] \in Final
             /\ answer' = [answer EXCEPT ![x] = outcome[x]]
             /\ UNCHANGED outcome

Forget(x) == /\ outcome[x] \in Final
             /\ answer' = [answer EXCEPT ![x] = Absent]
             /\ UNCHANGED outcome

\* The process dies.  What was running is aborted, except that the one
\* transaction whose commit was being recorded may have made it, and an id
\* whose start was being recorded may be burnt.
Restart ==
    /\ outcome' \in [Xid -> Final \cup {Absent}]
    /\ \A x \in Xid : outcome[x] \in Final => outcome'[x] = outcome[x]
    /\ \A x, y \in Xid :
          /\ outcome[x] = "InProgress" => outcome'[x] # Absent
          /\ x # y /\ outcome'[x] = "Committed" /\ outcome'[y] = "Committed"
             => "Committed" \in {outcome[x], outcome[y]}
          /\ outcome[x] = Absent => outcome'[x] # "Committed"
    /\ answer' \in [Xid -> Final \cup {Absent}]
    /\ \A x \in Xid : \/ answer'[x] = outcome'[x]
                      \/ answer'[x] = Absent /\ answer[x] = Absent

Next == \/ \E x \in Xid : Start(x) \/ Recall(x) \/ Forget(x)
        \/ \E x \in Xid, result \in Final : Finish(x, result)
        \/ Restart

Spec == Init /\ [][Next]_vars
==============================================================================
