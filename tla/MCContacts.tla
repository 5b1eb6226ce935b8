----------------------------- MODULE MCContacts -----------------------------
(* Instances of Contacts for TLC. *)
EXTENDS Contacts, TLC

CallSymmetry == Permutations(Calls)

\* Two contacts without a name, two whose names differ in case, and another.
MCFold == <<0, 0, 1, 1, 2>>
MCName == <<0, 0, 1, 2, 3>>

\* The book starts without the second; and perhaps without the fourth.
MCInit == Init /\ unborn \in {{2}, {2, 4}}

=============================================================================
