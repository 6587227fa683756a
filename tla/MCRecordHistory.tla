--------------------------- MODULE MCRecordHistory ---------------------------
(* RecordHistory on three calls of two users, of which ann calls twice, and a *)
(* record with two content fields and an optional one.  Overlapping: two      *)
(* users edit at once.  OneByOne: edits of any fields come one at a time, and *)
(* inserts fail.  AtWill: ann's two calls overlap as well.                    *)
EXTENDS RecordHistory, TLC

CONSTANTS c1, c2, c3

TwoEditors == (c1 :> "ann") @@ (c2 :> "ann") @@ (c3 :> "bob")

Overlapping == [ops |-> {"edit", "outcome", "adminEdit"}, fields |-> {"content"},
                overlap |-> {"editors"}, faults |-> {"ml", "crash"}]
OneByOne == [ops |-> {"edit", "outcome"}, fields |-> Fields,
             overlap |-> {}, faults |-> {"db"}]
AtWill == [ops |-> {"edit", "outcome"}, fields |-> {"content"},
           overlap |-> {"ownCalls", "editors"}, faults |-> {"db", "crash"}]
All == {Overlapping, OneByOne, AtWill}
=============================================================================
