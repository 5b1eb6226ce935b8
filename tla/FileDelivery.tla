---------------------------- MODULE FileDelivery ----------------------------
(***************************************************************************)
(* What sending a file promises the user, without chunks, sockets and      *)
(* waiters: a file arrives whole or not at all, and a transfer is reported *)
(* done only when its file has arrived.                                    *)
(***************************************************************************)
EXTENDS Naturals

CONSTANTS Transfers, Versions

VARIABLES
    report,   \* report[t]: what the transfer list says, "none" without a row
    arrived   \* arrived[t]: version of the file on the phone, 0 for none

vars == <<report, arrived>>

Over == {"done", "error", "cancelled"}

Init ==
    /\ report = [t \in Transfers |-> "none"]
    /\ arrived = [t \in Transfers |-> 0]

\* A transfer starts, or is tried again.
Run(t) ==
    /\ report[t] # "running"
    /\ report' = [report EXCEPT ![t] = "running"]
    /\ UNCHANGED arrived

\* A version of the file arrives.  The report follows later, or never.
Arrive(t) ==
    /\ \E v \in Versions : arrived' = [arrived EXCEPT ![t] = v]
    /\ UNCHANGED report

\* A running transfer is confirmed.
Confirm(t) ==
    /\ report[t] = "running"
    /\ arrived[t] # 0
    /\ report' = [report EXCEPT ![t] = "done"]
    /\ UNCHANGED arrived

\* Only a running transfer can be cancelled.
Cancel(T) ==
    /\ \A t \in T : report[t] = "running"
    /\ report' = [t \in Transfers |-> IF t \in T THEN "cancelled" ELSE report[t]]
    /\ UNCHANGED arrived

\* Any transfer can be reported as failed, a finished one too: the timer of
\* a confirmation may beat the confirmation, and a cancelled loop fails.
Fail(t) ==
    /\ report[t] # "none"
    /\ report' = [report EXCEPT ![t] = "error"]
    /\ UNCHANGED arrived

\* The row of a transfer that is over disappears.
Forget(t) ==
    /\ report[t] \in Over
    /\ report' = [report EXCEPT ![t] = "none"]
    /\ UNCHANGED arrived

Next ==
    \/ \E t \in Transfers :
         Run(t) \/ Arrive(t) \/ Confirm(t) \/ Fail(t) \/ Forget(t)
    \/ \E T \in SUBSET Transfers : Cancel(T)

Spec == Init /\ [][Next]_vars

=============================================================================
