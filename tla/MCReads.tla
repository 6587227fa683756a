------------------------------- MODULE MCReads --------------------------------
(* The cache of record files, and the links between the records that are read  *)
(* through it, side by side in one run: the behaviours of one module, while    *)
(* the variables of the other stay as they are.                                *)
(*   scans    two scans of a directory with two files, again and again         *)
(*   links    four records, all live or all but the last, the first two in one *)
(*            domain file and the last two in another, with any links          *)
EXTENDS ProjectCache, Supersession, TLC

CONSTANTS s1, s2, a, b

VARIABLE part
vars == <<part, cacheVars, linksVars>>

Symmetric == Permutations({s1, s2}) \cup Permutations({a, b})
TwoFiles == <<"api", "api", "infra", "infra">>
AllOrAllButOne == {Ids, Ids \ {N}}

CacheIdle == exists = [f \in Files |-> TRUE] /\ CacheInit
LinksIdle == live = Ids /\ links = [r \in Ids |-> {}] /\ LinksInit

Init ==
    \/ part = "scans" /\ CacheInit /\ LinksIdle
    \/ part = "links" /\ CacheIdle /\ LinksInit

\* A read that is over, or whose records all contradict each other.
Answered ==
    \/ pc \in {"done", "related"}
    \/ pc = "cycles" /\ work = <<>> /\ snap \subseteq Visited /\ Returned \subseteq InCycle

Next ==
    \/ part = "scans" /\ CacheNext /\ UNCHANGED <<part, linksVars>>
    \/ part = "links" /\ LinksNext /\ UNCHANGED <<part, cacheVars>>
    \/ part = "links" /\ Answered /\ UNCHANGED vars

Spec == Init /\ [][Next]_vars
=============================================================================
