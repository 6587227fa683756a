--------------------------- MODULE KnowledgeStore ---------------------------
(***************************************************************************)
(* What the write and delete tools promise about one project's records,    *)
(* whatever calls overlap: an id is published in one domain, at most once,  *)
(* and a record that was taken away does not come back by itself.  This is  *)
(* the promise RecordLifecycle keeps in spite of its two stores.            *)
(***************************************************************************)
CONSTANTS Ids, Domains, Unused, Retired

VARIABLE home  \* the domain each id is published in, if it is

Init == home \in [Ids -> Domains \cup {Unused}]

\* A write that won the race for the id is acknowledged.
Publish(i, d) == home[i] = Unused /\ home' = [home EXCEPT ![i] = d]

\* A record is deleted, or its write is rolled back; or records that were published
\* in a domain meanwhile go with the file of the domain, found empty earlier.
Withdraw(d, R) ==
    /\ \A i \in R : home[i] = d
    /\ home' = [i \in Ids |-> IF i \in R THEN Retired ELSE home[i]]

\* The record was deleted by somebody who saw it before it was registered.
Miscarry(i) == home[i] = Unused /\ home' = [home EXCEPT ![i] = Retired]

Next ==
    \/ \E d \in Domains, R \in SUBSET Ids : Withdraw(d, R)
    \/ \E i \in Ids : Miscarry(i) \/ \E d \in Domains : Publish(i, d)

Spec == Init /\ [][Next]_home
=============================================================================
