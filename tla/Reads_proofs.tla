------------------------------ MODULE Reads_proofs ------------------------------
(* Proofs about what a read does, in the order in which it does it, for any    *)
(* number of records, files, domains and steps: it asks the project cache      *)
(* (ProjectCache), follows the links of supersession (Supersession), and cuts  *)
(* off a page or shares the results out (Reading).  The three have no variable *)
(* in common; they are together for the lemmas that come first.                *)
EXTENDS ProjectCache, Supersession, Reading,
        FiniteSetTheorems, SequenceTheorems, WellFoundedInduction, TLAPS

-----------------------------------------------------------------------------
(* Induction over the naturals, and finite sets in a row *)

(* A set of naturals that holds 0 and with each number the next holds them     *)
(* all; stated for sets, since a set is what the provers can instantiate.      *)
LEMMA NatInductionBySet ==
    ASSUME NEW T, 0 \in T, \A n \in Nat : n \in T => n + 1 \in T
    PROVE  Nat \subseteq T
<1> DEFINE U == Nat \ T
<1> SUFFICES ASSUME U # {} PROVE FALSE
  OBVIOUS
<1> HIDE DEF U
<1>1. PICK x \in U : \A y \in U : ~(<<y, x>> \in OpToRel(<, Nat))
  BY NatLessThanWellFounded, WFMin DEF U
<1>2. x \in Nat /\ x \notin T /\ \A y \in U : ~(y < x)
  BY <1>1 DEF U, OpToRel
<1>3. x # 0 /\ x - 1 \in Nat /\ x - 1 < x
  BY <1>2
<1>4. x - 1 \in T
  BY <1>2, <1>3 DEF U
<1> QED
  BY <1>2, <1>3, <1>4

(* The same for the naturals up to m.                                          *)
LEMMA InductionUpTo ==
    ASSUME NEW m \in Nat, NEW T, 0 \in T, \A k \in 0..m : k < m /\ k \in T => k + 1 \in T
    PROVE  0..m \subseteq T
<1> DEFINE U == T \cup {k \in Nat : k > m}
<1>1. 0 \in U /\ \A k \in Nat : k \in U => k + 1 \in U
  OBVIOUS
<1> HIDE DEF U
<1>2. Nat \subseteq U
  BY <1>1, NatInductionBySet
<1> QED
  BY <1>2 DEF U

(* below[i]: what comes before i, in an order that is strict and total.        *)
OrderOf(S, below) ==
    /\ below \in [S -> SUBSET S]
    /\ \A i \in S : i \notin below[i]
    /\ \A i, j, k \in S : i \in below[j] /\ j \in below[k] => i \in below[k]
    /\ \A i, j \in S : i = j \/ i \in below[j] \/ j \in below[i]

(* The number of elements before i tells the elements apart, and they take     *)
(* every number there is.                                                      *)
LEMMA RanksDiffer ==
    ASSUME NEW S, IsFiniteSet(S), NEW below, OrderOf(S, below)
    PROVE  /\ \A i \in S : Cardinality(below[i]) \in 0..(Cardinality(S) - 1)
           /\ \A i, j \in S : i \in below[j] <=> Cardinality(below[i]) < Cardinality(below[j])
           /\ \A i, j \in S : Cardinality(below[i]) = Cardinality(below[j]) => i = j
<1>1. \A i \in S : below[i] \in SUBSET S /\ i \notin below[i]
  BY DEF OrderOf
<1>2. \A i \in S : IsFiniteSet(below[i]) /\ Cardinality(below[i]) \in Nat
  BY <1>1, FS_Subset, FS_CardinalityType
<1>3. Cardinality(S) \in Nat
  BY FS_CardinalityType
<1>4. ASSUME NEW i \in S PROVE Cardinality(below[i]) \in 0..(Cardinality(S) - 1)
  <2>1. /\ Cardinality(below[i]) <= Cardinality(S)
        /\ Cardinality(S) = Cardinality(below[i]) => S = below[i]
    BY <1>1, FS_Subset
  <2> QED
    BY <2>1, <1>1, <1>2, <1>3
<1>5. ASSUME NEW i \in S, NEW j \in S, i \in below[j]
      PROVE  Cardinality(below[i]) < Cardinality(below[j])
  <2>1. below[i] \in SUBSET below[j]
    <3>1. \A k \in below[i] : k \in S
      BY <1>1
    <3> QED
      BY <3>1, <1>5 DEF OrderOf
  <2>2. below[i] # below[j]
    BY <1>1, <1>5
  <2>3. /\ Cardinality(below[i]) <= Cardinality(below[j])
        /\ Cardinality(below[j]) = Cardinality(below[i]) => below[j] = below[i]
    BY <2>1, <1>2, FS_Subset
  <2> QED
    BY <2>2, <2>3, <1>2
<1>6. \A i, j \in S : i = j \/ i \in below[j] \/ j \in below[i]
  BY DEF OrderOf
<1>7. ASSUME NEW i \in S, NEW j \in S, Cardinality(below[i]) < Cardinality(below[j])
      PROVE  i \in below[j]
  <2>1. CASE j \in below[i]
    BY <2>1, <1>2, <1>5, <1>7
  <2> QED
    BY <2>1, <1>2, <1>6, <1>7
<1>8. ASSUME NEW i \in S, NEW j \in S, Cardinality(below[i]) = Cardinality(below[j])
      PROVE  i = j
  <2>1. CASE i \in below[j]
    BY <2>1, <1>2, <1>5, <1>8
  <2>2. CASE j \in below[i]
    BY <2>2, <1>2, <1>5, <1>8
  <2> QED
    BY <2>1, <2>2, <1>6
<1> QED
  BY <1>4, <1>5, <1>7, <1>8

Ranked(S, below) == [i \in S |-> Cardinality(below[i])]

(* As many numbers as elements: each number is taken.                          *)
LEMMA RanksFill ==
    ASSUME NEW S, IsFiniteSet(S), NEW below, OrderOf(S, below), NEW k \in 0..(Cardinality(S) - 1)
    PROVE  \E i \in S : Cardinality(below[i]) = k
<1>1. Cardinality(S) \in Nat
  BY FS_CardinalityType
<1> DEFINE T == 0..(Cardinality(S) - 1)
<1>2. IsFiniteSet(T) /\ Cardinality(T) = Cardinality(S)
  BY <1>1, FS_Interval
<1>3. Ranked(S, below) \in Injection(S, T)
  BY RanksDiffer DEF Ranked, Injection, IsInjective
<1>4. Ranked(S, below) \in Surjection(S, T)
  BY <1>2, <1>3, FS_Injection
<1>5. PICK i \in S : Ranked(S, below)[i] = k
  BY <1>4 DEF Surjection
<1> QED
  BY <1>5 DEF Ranked

(* What InOrder gives: everything once, each behind what comes before it.      *)
LEMMA Ordered ==
    ASSUME NEW S, IsFiniteSet(S), NEW below, OrderOf(S, below)
    PROVE  LET s == InOrder(below)
           IN  /\ s \in Seq(S) /\ Len(s) = Cardinality(S) /\ Len(s) \in Nat
               /\ \A k \in 1..Len(s) : s[k] \in S /\ Cardinality(below[s[k]]) = k - 1
               /\ \A i \in S : \E k \in 1..Len(s) : s[k] = i
               /\ \A j, k \in 1..Len(s) : j < k => s[j] \in below[s[k]]
               /\ \A j, k \in 1..Len(s) : s[j] \in below[s[k]] => j < k
<1> DEFINE n == Cardinality(S)
           s == InOrder(below)
<1>1. n \in Nat
  BY FS_CardinalityType
<1>2. DOMAIN below = S
  BY DEF OrderOf
<1>3. s = [k \in 1..n |-> CHOOSE i \in S : Cardinality(below[i]) = k - 1]
  BY <1>2 DEF InOrder
<1>4. ASSUME NEW k \in 1..n PROVE s[k] \in S /\ Cardinality(below[s[k]]) = k - 1
  <2>1. k - 1 \in 0..(n - 1)
    BY <1>1
  <2>2. \E i \in S : Cardinality(below[i]) = k - 1
    BY <2>1, RanksFill
  <2>3. s[k] = CHOOSE i \in S : Cardinality(below[i]) = k - 1
    BY <1>3
  <2> QED
    BY <2>2, <2>3
<1>5. s \in [1..n -> S]
  <2> HIDE DEF s
  <2> QED
    BY <1>3, <1>4
<1>6. s \in Seq(S) /\ Len(s) = n
  <2> HIDE DEF s
  <2> QED
    BY <1>1, <1>5, IsASeq, LenProperties
<1> HIDE DEF s
<1>7. ASSUME NEW i \in S PROVE \E k \in 1..n : s[k] = i
  <2>1. Cardinality(below[i]) \in 0..(n - 1)
    BY RanksDiffer
  <2>2. Cardinality(below[i]) + 1 \in 1..n
    BY <1>1, <2>1
  <2>3. s[Cardinality(below[i]) + 1] \in S
        /\ Cardinality(below[s[Cardinality(below[i]) + 1]]) = Cardinality(below[i])
    BY <1>4, <2>1, <2>2
  <2>4. s[Cardinality(below[i]) + 1] = i
    BY <2>3, RanksDiffer
  <2> QED
    BY <2>2, <2>4
<1>8. \A j, k \in 1..n : j < k <=> s[j] \in below[s[k]]
  <2> TAKE j, k \in 1..n
  <2>1. s[j] \in S /\ s[k] \in S /\ Cardinality(below[s[j]]) = j - 1
        /\ Cardinality(below[s[k]]) = k - 1
    BY <1>4
  <2>2. s[j] \in below[s[k]] <=> Cardinality(below[s[j]]) < Cardinality(below[s[k]])
    BY <2>1, RanksDiffer
  <2> QED
    BY <1>1, <2>1, <2>2
<1>9. \A k \in 1..Len(s) : s[k] \in S /\ Cardinality(below[s[k]]) = k - 1
  BY <1>4, <1>6
<1>10. \A i \in S : \E k \in 1..Len(s) : s[k] = i
  BY <1>6, <1>7
<1>11. (\A j, k \in 1..Len(s) : j < k => s[j] \in below[s[k]])
       /\ \A j, k \in 1..Len(s) : s[j] \in below[s[k]] => j < k
  BY <1>6, <1>8
<1> QED
  BY <1>1, <1>6, <1>9, <1>10, <1>11 DEF s

-----------------------------------------------------------------------------
(* ProjectCache: type correctness *)

(* What CacheTypeOK needs besides itself: a scan that reads has a file to      *)
(* read, one that it listed.                                                   *)
Parsing(s) == stage[s] \in {"parse", "store"}
AtFile == \A s \in Scans :
    /\ todo[s] \subseteq listed[s]
    /\ Parsing(s) => at[s] \in listed[s]

LEMMA CacheTypeStep == CacheTypeOK /\ AtFile /\ [CacheNext]_cacheVars => CacheTypeOK' /\ AtFile'
<1> SUFFICES ASSUME CacheTypeOK, AtFile, [CacheNext]_cacheVars PROVE CacheTypeOK' /\ AtFile'
  OBVIOUS
<1> USE DEF CacheTypeOK, AtFile, Parsing, disk, locals, ghosts, GoTo
<1>a. 0 \in Revs /\ \A f \in Files : Bump(f) => rev'[f] \in Revs
  BY ProjectCacheAssumption DEF Revs, Bump
<1>1. ASSUME NEW f \in Files, Rewrite(f) PROVE CacheTypeOK' /\ AtFile'
  BY <1>1, <1>a DEF Rewrite, Bump
<1>2. ASSUME NEW f \in Files, Unlink(f) PROVE CacheTypeOK' /\ AtFile'
  BY <1>2, <1>a DEF Unlink, Bump
<1>3. ASSUME NEW s \in Scans, List(s) PROVE CacheTypeOK' /\ AtFile'
  BY <1>3, <1>a DEF List, NoRevs
<1>4. ASSUME NEW s \in Scans, NEW f \in Files, Hit(s, f) PROVE CacheTypeOK' /\ AtFile'
  BY <1>4 DEF Hit
<1>5. ASSUME NEW s \in Scans, NEW f \in Files, Miss(s, f) PROVE CacheTypeOK' /\ AtFile'
  BY <1>5 DEF Miss
<1>6. ASSUME NEW s \in Scans, NEW f \in Files, StatFails(s, f) PROVE CacheTypeOK' /\ AtFile'
  BY <1>6 DEF StatFails
<1>7. ASSUME NEW s \in Scans, Parse(s) PROVE CacheTypeOK' /\ AtFile'
  BY <1>7 DEF Parse
<1>8. ASSUME NEW s \in Scans, ParseFails(s) PROVE CacheTypeOK' /\ AtFile'
  BY <1>8 DEF ParseFails
<1>9. ASSUME NEW s \in Scans, Store(s) PROVE CacheTypeOK' /\ AtFile'
  <2>1. [mtime |-> mtime[s], content |-> content[s]] \in Entry
    BY DEF Entry
  <2> QED
    BY <1>9, <1>a, <2>1 DEF Store
<1>10. ASSUME NEW s \in Scans, Return(s) PROVE CacheTypeOK' /\ AtFile'
  <2>1. \A f \in listed[s] : f \in Files /\ entry[f].content \in Revs
    BY <1>10 DEF Return, Entry
  <2>2. [f \in Files |-> IF f \in listed[s] THEN entry[f].content ELSE 0] \in [Files -> Revs]
    BY <1>a, <2>1
  <2> QED
    BY <1>10, <2>2 DEF Return
<1>11. ASSUME NEW s \in Scans, ReturnFails(s) PROVE CacheTypeOK' /\ AtFile'
  BY <1>11 DEF ReturnFails
<1>12. ASSUME UNCHANGED cacheVars PROVE CacheTypeOK' /\ AtFile'
  BY <1>12 DEF cacheVars
<1> QED
  BY <1>1, <1>2, <1>3, <1>4, <1>5, <1>6, <1>7, <1>8, <1>9, <1>10, <1>11, <1>12
  DEF CacheNext, Step

(* Every reachable state has the declared types: a scan parses no file but one *)
(* that it listed.                                                             *)
THEOREM CacheTypeCorrect == CacheSpec => [](CacheTypeOK /\ AtFile)
<1>1. CacheInit => CacheTypeOK /\ AtFile
  BY ProjectCacheAssumption DEF CacheInit, CacheTypeOK, AtFile, Parsing, Revs
<1> QED
  BY <1>1, CacheTypeStep, PTL DEF CacheSpec

-----------------------------------------------------------------------------
(* ProjectCache: freshness *)

(* The inductive invariant.  Revisions only grow, and what a scan on its way   *)
(* holds of a file is no older than the file was when the scan began; what it  *)
(* has got through of its list is in the shared entry, as new as that, unless  *)
(* another scan has overwritten it or has dropped it for a removed file.       *)
BegunBefore == \A s \in Scans, f \in Files : began[s][f] <= rev[f]
HeldIsNew == \A s \in Scans : Parsing(s) =>
    /\ began[s][at[s]] <= mtime[s] /\ mtime[s] <= rev[at[s]]
    /\ stage[s] = "store" => mtime[s] <= content[s]
RemovedIsGone == \A s \in Scans : \A f \in OnItsWay(s) : ~exists[f] => f \in gone[s]
ThroughIsNew == \A s \in Scans : \A f \in OnItsWay(s) \ todo[s] :
    IF entry[f] = NoEntry THEN f \in gone[s]
    ELSE f \in raced[s] \/ began[s][f] <= entry[f].content

CacheInv ==
    /\ BegunBefore /\ EntryNotOlder /\ HeldIsNew /\ RemovedIsGone /\ ThroughIsNew
    /\ FreshUnlessRaced /\ FailsOnlyOnRemoval

(* A change or a removal makes the revision of its file grow.                  *)
LEMMA RevisionsGrow ==
    ASSUME CacheTypeOK, NEW f \in Files, Bump(f)
    PROVE  \A g \in Files : rev[g] <= rev'[g] /\ rev'[g] \in Nat
BY DEF CacheTypeOK, Bump, Revs

LEMMA CacheStep == CacheTypeOK /\ AtFile /\ CacheInv /\ [CacheNext]_cacheVars => CacheInv'
<1> SUFFICES ASSUME CacheTypeOK, AtFile, CacheInv, [CacheNext]_cacheVars PROVE CacheInv'
  OBVIOUS
<1> USE DEF disk, locals, ghosts, GoTo, Parsing, OnItsWay
<1>a. /\ BegunBefore /\ EntryNotOlder /\ HeldIsNew /\ RemovedIsGone /\ ThroughIsNew
      /\ FreshUnlessRaced /\ FailsOnlyOnRemoval
  BY DEF CacheInv
<1>b. \A f \in Files : /\ rev[f] \in Nat
                       /\ entry[f] # NoEntry => entry[f].mtime \in Nat /\ entry[f].content \in Nat
  BY DEF CacheTypeOK, Entry, Revs
<1>c. \A s \in Scans : /\ mtime[s] \in Nat /\ content[s] \in Nat
                       /\ \A f \in Files : began[s][f] \in Nat /\ result[s][f] \in Nat
  BY DEF CacheTypeOK, Revs
<1>d. \A s \in Scans : /\ todo[s] \subseteq listed[s] /\ listed[s] \subseteq Files
                       /\ Parsing(s) => at[s] \in listed[s]
  BY DEF CacheTypeOK, AtFile
<1>e. /\ stage = [s \in Scans |-> stage[s]] /\ began = [s \in Scans |-> began[s]]
      /\ todo = [s \in Scans |-> todo[s]] /\ listed = [s \in Scans |-> listed[s]]
      /\ at = [s \in Scans |-> at[s]] /\ mtime = [s \in Scans |-> mtime[s]]
      /\ content = [s \in Scans |-> content[s]] /\ result = [s \in Scans |-> result[s]]
      /\ gone = [s \in Scans |-> gone[s]] /\ raced = [s \in Scans |-> raced[s]]
      /\ entry = [f \in Files |-> entry[f]] /\ exists = [f \in Files |-> exists[f]]
  BY DEF CacheTypeOK
<1>1. ASSUME NEW f \in Files, Rewrite(f) PROVE CacheInv'
  <2>0. \A g \in Files : rev[g] <= rev'[g] /\ rev'[g] \in Nat
    BY <1>1, RevisionsGrow DEF Rewrite
  <2>1. BegunBefore' /\ EntryNotOlder'
    BY <1>1, <1>a, <1>b, <1>c, <1>d, <1>e, <2>0
    DEF Rewrite, BegunBefore, EntryNotOlder, HeldIsNew
  <2>2. HeldIsNew'
    <3> SUFFICES ASSUME NEW s \in Scans, Parsing(s)'
                 PROVE  /\ began[s][at[s]] <= mtime[s] /\ mtime[s] <= rev'[at[s]]
                        /\ stage[s] = "store" => mtime[s] <= content[s]
      BY <1>1 DEF Rewrite, HeldIsNew
    <3>1. Parsing(s) /\ at[s] \in Files
      BY <1>1, <1>d DEF Rewrite
    <3>2. mtime[s] <= rev[at[s]] /\ rev[at[s]] <= rev'[at[s]]
      BY <1>a, <2>0, <3>1 DEF HeldIsNew
    <3> QED
      BY <1>a, <1>b, <1>c, <2>0, <3>1, <3>2 DEF HeldIsNew
  <2>3. RemovedIsGone' /\ FailsOnlyOnRemoval'
    BY <1>1, <1>a, <1>b, <1>c, <1>d, <1>e, <2>0
    DEF Rewrite, RemovedIsGone, FailsOnlyOnRemoval, ThroughIsNew
  <2>4. ThroughIsNew'
    BY <1>1, <1>a, <1>b, <1>c, <1>d, <1>e, <2>0
    DEF Rewrite, ThroughIsNew, RemovedIsGone, HeldIsNew, EntryNotOlder, BegunBefore
  <2>5. FreshUnlessRaced'
    BY <1>1, <1>a, <1>b, <1>c, <1>d, <1>e, <2>0
    DEF Rewrite, FreshUnlessRaced, ThroughIsNew
  <2> QED
    BY <2>1, <2>2, <2>3, <2>4, <2>5 DEF CacheInv
<1>2. ASSUME NEW f \in Files, Unlink(f) PROVE CacheInv'
  <2>0. \A g \in Files : rev[g] <= rev'[g] /\ rev'[g] \in Nat
    BY <1>2, RevisionsGrow DEF Unlink
  <2>1. BegunBefore' /\ EntryNotOlder'
    BY <1>2, <1>a, <1>b, <1>c, <1>d, <1>e, <2>0
    DEF Unlink, BegunBefore, EntryNotOlder, HeldIsNew
  <2>2. HeldIsNew'
    <3> SUFFICES ASSUME NEW s \in Scans, Parsing(s)'
                 PROVE  /\ began[s][at[s]] <= mtime[s] /\ mtime[s] <= rev'[at[s]]
                        /\ stage[s] = "store" => mtime[s] <= content[s]
      BY <1>2 DEF Unlink, HeldIsNew
    <3>1. Parsing(s) /\ at[s] \in Files
      BY <1>2, <1>d DEF Unlink
    <3>2. mtime[s] <= rev[at[s]] /\ rev[at[s]] <= rev'[at[s]]
      BY <1>a, <2>0, <3>1 DEF HeldIsNew
    <3> QED
      BY <1>a, <1>b, <1>c, <2>0, <3>1, <3>2 DEF HeldIsNew
  <2>3. RemovedIsGone' /\ FailsOnlyOnRemoval'
    BY <1>2, <1>a, <1>b, <1>c, <1>d, <1>e, <2>0
    DEF Unlink, RemovedIsGone, FailsOnlyOnRemoval, ThroughIsNew
  <2>4. ThroughIsNew'
    BY <1>2, <1>a, <1>b, <1>c, <1>d, <1>e, <2>0
    DEF Unlink, ThroughIsNew, RemovedIsGone, HeldIsNew, EntryNotOlder, BegunBefore
  <2>5. FreshUnlessRaced'
    BY <1>2, <1>a, <1>b, <1>c, <1>d, <1>e, <2>0
    DEF Unlink, FreshUnlessRaced, ThroughIsNew
  <2> QED
    BY <2>1, <2>2, <2>3, <2>4, <2>5 DEF CacheInv
<1>3. ASSUME NEW s \in Scans, List(s) PROVE CacheInv'
  <2>1. BegunBefore' /\ EntryNotOlder'
    BY <1>3, <1>a, <1>b, <1>c, <1>d, <1>e
    DEF List, BegunBefore, EntryNotOlder, HeldIsNew
  <2>2. HeldIsNew'
    BY <1>3, <1>a, <1>b, <1>c, <1>d, <1>e
    DEF List, HeldIsNew, BegunBefore
  <2>3. RemovedIsGone' /\ FailsOnlyOnRemoval'
    BY <1>3, <1>a, <1>b, <1>c, <1>d, <1>e
    DEF List, RemovedIsGone, FailsOnlyOnRemoval, ThroughIsNew
  <2>4. ThroughIsNew'
    BY <1>3, <1>a, <1>b, <1>c, <1>d, <1>e
    DEF List, ThroughIsNew, RemovedIsGone, HeldIsNew, EntryNotOlder, BegunBefore
  <2>5. FreshUnlessRaced'
    BY <1>3, <1>a, <1>b, <1>c, <1>d, <1>e
    DEF List, FreshUnlessRaced, ThroughIsNew
  <2> QED
    BY <2>1, <2>2, <2>3, <2>4, <2>5 DEF CacheInv
<1>4. ASSUME NEW s \in Scans, NEW f \in Files, Hit(s, f) PROVE CacheInv'
  <2>1. BegunBefore' /\ EntryNotOlder'
    BY <1>4, <1>a, <1>b, <1>c, <1>d, <1>e
    DEF Hit, Cached, BegunBefore, EntryNotOlder, HeldIsNew
  <2>2. HeldIsNew'
    BY <1>4, <1>a, <1>b, <1>c, <1>d, <1>e
    DEF Hit, Cached, HeldIsNew, BegunBefore
  <2>3. RemovedIsGone' /\ FailsOnlyOnRemoval'
    BY <1>4, <1>a, <1>b, <1>c, <1>d, <1>e
    DEF Hit, Cached, RemovedIsGone, FailsOnlyOnRemoval, ThroughIsNew
  <2>4. ThroughIsNew'
    <3>1. /\ entry[f] # NoEntry /\ entry[f].mtime = rev[f]
          /\ \A t \in Scans : began[t][f] <= rev[f]
      BY <1>4, <1>a DEF Hit, Cached, BegunBefore
    <3>2. \A t \in Scans : began[t][f] <= entry[f].content
      BY <1>a, <1>b, <1>c, <3>1 DEF EntryNotOlder
    <3>3. \A t \in Scans : \A g \in Files : g \notin todo'[t] => g \notin todo[t] \/ g = f
      BY <1>4, <1>e DEF Hit
    <3> QED
      BY <1>4, <1>a, <1>d, <3>1, <3>2, <3>3 DEF Hit, ThroughIsNew
  <2>5. FreshUnlessRaced'
    BY <1>4, <1>a, <1>b, <1>c, <1>d, <1>e
    DEF Hit, Cached, FreshUnlessRaced, ThroughIsNew
  <2> QED
    BY <2>1, <2>2, <2>3, <2>4, <2>5 DEF CacheInv
<1>5. ASSUME NEW s \in Scans, NEW f \in Files, Miss(s, f) PROVE CacheInv'
  <2>1. BegunBefore' /\ EntryNotOlder'
    BY <1>5, <1>a, <1>b, <1>c, <1>d, <1>e
    DEF Miss, BegunBefore, EntryNotOlder, HeldIsNew
  <2>2. HeldIsNew'
    <3>1. /\ at'[s] = f /\ mtime'[s] = rev[f] /\ began[s][f] <= rev[f] /\ stage'[s] = "parse"
      BY <1>5, <1>a, <1>e DEF Miss, BegunBefore
    <3>2. \A t \in Scans \ {s} : stage'[t] = stage[t] /\ at'[t] = at[t] /\ mtime'[t] = mtime[t]
      BY <1>5, <1>e DEF Miss
    <3> QED
      BY <1>5, <1>a, <1>b, <3>1, <3>2 DEF Miss, HeldIsNew
  <2>3. RemovedIsGone' /\ FailsOnlyOnRemoval'
    BY <1>5, <1>a, <1>b, <1>c, <1>d, <1>e
    DEF Miss, RemovedIsGone, FailsOnlyOnRemoval, ThroughIsNew
  <2>4. ThroughIsNew'
    BY <1>5, <1>a, <1>b, <1>c, <1>d, <1>e
    DEF Miss, ThroughIsNew, RemovedIsGone, HeldIsNew, EntryNotOlder, BegunBefore
  <2>5. FreshUnlessRaced'
    BY <1>5, <1>a, <1>b, <1>c, <1>d, <1>e
    DEF Miss, FreshUnlessRaced, ThroughIsNew
  <2> QED
    BY <2>1, <2>2, <2>3, <2>4, <2>5 DEF CacheInv
<1>6. ASSUME NEW s \in Scans, NEW f \in Files, StatFails(s, f) PROVE CacheInv'
  <2>1. BegunBefore' /\ EntryNotOlder'
    BY <1>6, <1>a, <1>b, <1>c, <1>d, <1>e
    DEF StatFails, BegunBefore, EntryNotOlder, HeldIsNew
  <2>2. HeldIsNew'
    BY <1>6, <1>a, <1>b, <1>c, <1>d, <1>e
    DEF StatFails, HeldIsNew, BegunBefore
  <2>3. RemovedIsGone' /\ FailsOnlyOnRemoval'
    BY <1>6, <1>a, <1>b, <1>c, <1>d, <1>e
    DEF StatFails, RemovedIsGone, FailsOnlyOnRemoval, ThroughIsNew
  <2>4. ThroughIsNew'
    BY <1>6, <1>a, <1>b, <1>c, <1>d, <1>e
    DEF StatFails, ThroughIsNew, RemovedIsGone, HeldIsNew, EntryNotOlder, BegunBefore
  <2>5. FreshUnlessRaced'
    BY <1>6, <1>a, <1>b, <1>c, <1>d, <1>e
    DEF StatFails, FreshUnlessRaced, ThroughIsNew
  <2> QED
    BY <2>1, <2>2, <2>3, <2>4, <2>5 DEF CacheInv
<1>7. ASSUME NEW s \in Scans, Parse(s) PROVE CacheInv'
  <2>1. BegunBefore' /\ EntryNotOlder'
    BY <1>7, <1>a, <1>b, <1>c, <1>d, <1>e
    DEF Parse, BegunBefore, EntryNotOlder, HeldIsNew
  <2>2. HeldIsNew'
    BY <1>7, <1>a, <1>b, <1>c, <1>d, <1>e
    DEF Parse, HeldIsNew, BegunBefore
  <2>3. RemovedIsGone' /\ FailsOnlyOnRemoval'
    BY <1>7, <1>a, <1>b, <1>c, <1>d, <1>e
    DEF Parse, RemovedIsGone, FailsOnlyOnRemoval, ThroughIsNew
  <2>4. ThroughIsNew'
    BY <1>7, <1>a, <1>b, <1>c, <1>d, <1>e
    DEF Parse, ThroughIsNew, RemovedIsGone, HeldIsNew, EntryNotOlder, BegunBefore
  <2>5. FreshUnlessRaced'
    BY <1>7, <1>a, <1>b, <1>c, <1>d, <1>e
    DEF Parse, FreshUnlessRaced, ThroughIsNew
  <2> QED
    BY <2>1, <2>2, <2>3, <2>4, <2>5 DEF CacheInv
<1>8. ASSUME NEW s \in Scans, ParseFails(s) PROVE CacheInv'
  <2>1. BegunBefore' /\ EntryNotOlder'
    BY <1>8, <1>a, <1>b, <1>c, <1>d, <1>e
    DEF ParseFails, BegunBefore, EntryNotOlder, HeldIsNew
  <2>2. HeldIsNew'
    BY <1>8, <1>a, <1>b, <1>c, <1>d, <1>e
    DEF ParseFails, HeldIsNew, BegunBefore
  <2>3. RemovedIsGone' /\ FailsOnlyOnRemoval'
    BY <1>8, <1>a, <1>b, <1>c, <1>d, <1>e
    DEF ParseFails, RemovedIsGone, FailsOnlyOnRemoval, ThroughIsNew
  <2>4. ThroughIsNew'
    BY <1>8, <1>a, <1>b, <1>c, <1>d, <1>e
    DEF ParseFails, ThroughIsNew, RemovedIsGone, HeldIsNew, EntryNotOlder, BegunBefore
  <2>5. FreshUnlessRaced'
    BY <1>8, <1>a, <1>b, <1>c, <1>d, <1>e
    DEF ParseFails, FreshUnlessRaced, ThroughIsNew
  <2> QED
    BY <2>1, <2>2, <2>3, <2>4, <2>5 DEF CacheInv
<1>9. ASSUME NEW s \in Scans, Store(s) PROVE CacheInv'
  <2>1. BegunBefore' /\ EntryNotOlder'
    BY <1>9, <1>a, <1>b, <1>c, <1>d, <1>e
    DEF Store, BegunBefore, EntryNotOlder, HeldIsNew
  <2>2. HeldIsNew'
    BY <1>9, <1>a, <1>b, <1>c, <1>d, <1>e
    DEF Store, HeldIsNew, BegunBefore
  <2>3. RemovedIsGone' /\ FailsOnlyOnRemoval'
    BY <1>9, <1>a, <1>b, <1>c, <1>d, <1>e
    DEF Store, RemovedIsGone, FailsOnlyOnRemoval, ThroughIsNew
  <2>4. ThroughIsNew'
    <3> SUFFICES ASSUME NEW t \in Scans, NEW f \in OnItsWay(t)' \ todo'[t]
                 PROVE  IF entry'[f] = NoEntry THEN f \in gone[t]
                        ELSE f \in raced'[t] \/ began[t][f] <= entry'[f].content
      BY <1>9 DEF Store, ThroughIsNew
    <3>1. f \in listed[t] /\ f \in Files /\ OnItsWay(t) = listed[t]
      BY <1>9, <1>d, <1>e DEF Store
    <3>2. CASE f # at[s]
      <4>1. f \notin todo[t] /\ entry'[f] = entry[f] /\ raced[t] \subseteq raced'[t]
        BY <1>9, <1>e, <3>1, <3>2 DEF Store
      <4> QED
        BY <1>a, <3>1, <4>1 DEF ThroughIsNew
    <3>3. CASE f = at[s]
      <4>1. entry'[f] = [mtime |-> mtime[s], content |-> content[s]]
        BY <1>9, <1>e, <3>1, <3>3 DEF Store
      <4>2. entry'[f] # NoEntry
        BY <4>1, ProjectCacheAssumption DEF CacheTypeOK
      <4>3. CASE t = s
        BY <1>9, <1>a, <1>b, <1>c, <3>1, <3>3, <4>1, <4>2, <4>3 DEF Store, HeldIsNew
      <4>4. CASE t # s
        BY <1>9, <1>e, <3>1, <3>3, <4>2, <4>4 DEF Store
      <4> QED
        BY <4>3, <4>4
    <3> QED
      BY <3>2, <3>3
  <2>5. FreshUnlessRaced'
    BY <1>9, <1>a, <1>b, <1>c, <1>d, <1>e
    DEF Store, FreshUnlessRaced, ThroughIsNew
  <2> QED
    BY <2>1, <2>2, <2>3, <2>4, <2>5 DEF CacheInv
<1>10. ASSUME NEW s \in Scans, Return(s) PROVE CacheInv'
  <2>1. BegunBefore' /\ EntryNotOlder'
    BY <1>10, <1>a, <1>b, <1>c, <1>d, <1>e
    DEF Return, BegunBefore, EntryNotOlder, HeldIsNew
  <2>2. HeldIsNew'
    BY <1>10, <1>a, <1>b, <1>c, <1>d, <1>e
    DEF Return, HeldIsNew, BegunBefore
  <2>3. RemovedIsGone' /\ FailsOnlyOnRemoval'
    BY <1>10, <1>a, <1>b, <1>c, <1>d, <1>e
    DEF Return, RemovedIsGone, FailsOnlyOnRemoval, ThroughIsNew
  <2>4. ThroughIsNew'
    BY <1>10, <1>a, <1>b, <1>c, <1>d, <1>e
    DEF Return, ThroughIsNew, RemovedIsGone, HeldIsNew, EntryNotOlder, BegunBefore
  <2>5. FreshUnlessRaced'
    BY <1>10, <1>a, <1>b, <1>c, <1>d, <1>e
    DEF Return, FreshUnlessRaced, ThroughIsNew
  <2> QED
    BY <2>1, <2>2, <2>3, <2>4, <2>5 DEF CacheInv
<1>11. ASSUME NEW s \in Scans, ReturnFails(s) PROVE CacheInv'
  <2>1. BegunBefore' /\ EntryNotOlder'
    BY <1>11, <1>a, <1>b, <1>c, <1>d, <1>e
    DEF ReturnFails, BegunBefore, EntryNotOlder, HeldIsNew
  <2>2. HeldIsNew'
    BY <1>11, <1>a, <1>b, <1>c, <1>d, <1>e
    DEF ReturnFails, HeldIsNew, BegunBefore
  <2>3. RemovedIsGone' /\ FailsOnlyOnRemoval'
    BY <1>11, <1>a, <1>b, <1>c, <1>d, <1>e
    DEF ReturnFails, RemovedIsGone, FailsOnlyOnRemoval, ThroughIsNew
  <2>4. ThroughIsNew'
    BY <1>11, <1>a, <1>b, <1>c, <1>d, <1>e
    DEF ReturnFails, ThroughIsNew, RemovedIsGone, HeldIsNew, EntryNotOlder, BegunBefore
  <2>5. FreshUnlessRaced'
    BY <1>11, <1>a, <1>b, <1>c, <1>d, <1>e
    DEF ReturnFails, FreshUnlessRaced, ThroughIsNew
  <2> QED
    BY <2>1, <2>2, <2>3, <2>4, <2>5 DEF CacheInv
<1>12. ASSUME UNCHANGED cacheVars PROVE CacheInv'
  BY <1>12, <1>a
  DEF cacheVars, CacheInv, BegunBefore, EntryNotOlder, HeldIsNew, RemovedIsGone, ThroughIsNew,
      FreshUnlessRaced, FailsOnlyOnRemoval
<1> QED
  BY <1>1, <1>2, <1>3, <1>4, <1>5, <1>6, <1>7, <1>8, <1>9, <1>10, <1>11, <1>12
  DEF CacheNext, Step

LEMMA CacheInvHolds == CacheSpec => []CacheInv
<1>1. CacheInit => CacheInv
  BY DEF CacheInit, CacheInv, BegunBefore, EntryNotOlder, HeldIsNew, RemovedIsGone,
         ThroughIsNew, FreshUnlessRaced, FailsOnlyOnRemoval, OnItsWay, Parsing
<1> QED
  BY <1>1, CacheTypeCorrect, CacheStep, PTL DEF CacheSpec

(* No entry of the cache is older than the mtime it is kept under, for any     *)
(* number of scans of one directory and any changes while they parse.          *)
THEOREM EntriesAreNotOlder == CacheSpec => []EntryNotOlder
<1>1. CacheInv => EntryNotOlder
  BY DEF CacheInv
<1> QED
  BY <1>1, CacheInvHolds, PTL

(* A scan returns no file as it was before the scan began, unless another scan *)
(* put that file into the cache meanwhile.                                     *)
THEOREM ScansAreFresh == CacheSpec => []FreshUnlessRaced
<1>1. CacheInv => FreshUnlessRaced
  BY DEF CacheInv
<1> QED
  BY <1>1, CacheInvHolds, PTL

(* A scan fails only if a file was removed while it was on its way.            *)
THEOREM ScansFailOnlyOnRemoval == CacheSpec => []FailsOnlyOnRemoval
<1>1. CacheInv => FailsOnlyOnRemoval
  BY DEF CacheInv
<1> QED
  BY <1>1, CacheInvHolds, PTL

-----------------------------------------------------------------------------
(* Supersession: walks of at most N links, in any graph over the ids *)

Graphs == [Ids -> SUBSET Ids]
Itself == [r \in Ids |-> {r}]
OneMore(next, reach) == [r \in Ids |-> reach[r] \cup UNION {next[s] : s \in reach[r]}]

LEMMA NIsNat == N \in Nat /\ Ids = 1..N
BY SupersessionAssumption DEF Ids

(* One more link leads from ids to ids.                                        *)
LEMMA OneMoreType ==
    ASSUME NEW next \in Graphs, NEW reach \in Graphs
    PROVE  OneMore(next, reach) \in Graphs
BY DEF Graphs, OneMore

(* What the recursive definition of Within comes to.                           *)
LEMMA WithinSteps ==
    ASSUME NEW next \in Graphs
    PROVE  /\ Within(next) \in [0..N -> Graphs]
           /\ Within(next)[0] = Itself
           /\ \A k \in 0..N : k < N => Within(next)[k + 1] = OneMore(next, Within(next)[k])
<1> DEFINE Stage(f, k) == IF k = 0 THEN Itself ELSE OneMore(next, f[k - 1])
           StagesUpto(m) == {f \in [0..m -> Graphs] : \A k \in 0..m : f[k] = Stage(f, k)}
           T == {m \in Nat : StagesUpto(m) # {}}
<1>1. 0 \in T
  <2>1. [k \in 0..0 |-> Itself] \in StagesUpto(0)
    BY DEF Itself, Graphs
  <2> QED
    BY <2>1
<1>2. ASSUME NEW m \in Nat, m \in T PROVE m + 1 \in T
  <2>1. PICK f \in [0..m -> Graphs] : \A k \in 0..m : f[k] = Stage(f, k)
    BY <1>2
  <2> DEFINE g == [k \in 0..(m + 1) |-> IF k <= m THEN f[k] ELSE OneMore(next, f[m])]
  <2>2. OneMore(next, f[m]) \in Graphs
    BY <2>1, OneMoreType
  <2>3. g \in [0..(m + 1) -> Graphs]
    BY <2>1, <2>2
  <2>4. \A k \in 0..(m + 1) : g[k] = Stage(g, k)
    <3> SUFFICES ASSUME NEW k \in 0..(m + 1) PROVE g[k] = Stage(g, k)
      OBVIOUS
    <3>1. CASE k = 0
      BY <2>1, <3>1
    <3>2. CASE k # 0
      <4>1. g[k - 1] = f[k - 1]
        BY <3>2
      <4>2. g[k] = OneMore(next, f[k - 1])
        BY <2>1, <3>2
      <4> QED
        BY <4>1, <4>2, <3>2
    <3> QED
      BY <3>1, <3>2
  <2>5. g \in StagesUpto(m + 1)
    BY <2>3, <2>4
  <2> QED
    BY <2>5, m + 1 \in Nat
<1>3. StagesUpto(N) # {}
  <2> HIDE DEF StagesUpto
  <2> QED
    BY <1>1, <1>2, NatInductionBySet, NIsNat
<1>4. PICK f \in [0..N -> Graphs] : \A k \in 0..N : f[k] = Stage(f, k)
  BY <1>3
<1>5. \A h : h = [k \in 0..N |-> IF k = 0 THEN [r \in Ids |-> {r}]
                    ELSE [r \in Ids |-> h[k - 1][r] \cup UNION {next[s] : s \in h[k - 1][r]}]]
             <=> h = [k \in 0..N |-> Stage(h, k)]
  BY DEF Itself, OneMore
<1>6. f = [k \in 0..N |-> Stage(f, k)]
  BY <1>4
<1>7. Within(next) = CHOOSE h : h = [k \in 0..N |-> Stage(h, k)]
  BY DEF Within, Itself, OneMore
<1>8. Within(next) = [k \in 0..N |-> Stage(Within(next), k)]
  BY <1>6, <1>7
<1>9. \A k \in 0..N : Within(next)[k] = f[k]
  <2> DEFINE S == {k \in Nat : k \in 0..N => Within(next)[k] = f[k]}
  <2>1. 0 \in S
    BY <1>4, <1>8
  <2>2. ASSUME NEW k \in Nat, k \in S PROVE k + 1 \in S
    <3> SUFFICES ASSUME k + 1 \in 0..N PROVE Within(next)[k + 1] = f[k + 1]
      OBVIOUS
    <3>1. k \in 0..N /\ k + 1 # 0 /\ (k + 1) - 1 = k
      BY NIsNat
    <3>2. Within(next)[k] = f[k]
      BY <2>2, <3>1
    <3>3. f[k + 1] = Stage(f, k + 1)
      BY <1>4
    <3>4. Within(next)[k + 1] = Stage(Within(next), k + 1)
      <4> HIDE DEF Stage
      <4> QED
        BY <1>8
    <3> QED
      BY <3>1, <3>2, <3>3, <3>4
  <2>3. Nat \subseteq S
    <3> HIDE DEF S
    <3> QED
      BY <2>1, <2>2, NatInductionBySet
  <2> QED
    BY <2>3
<1>10. Within(next) \in [0..N -> Graphs]
  <2>1. Within(next) = [k \in 0..N |-> Within(next)[k]]
    <3> HIDE DEF Stage
    <3> QED
      BY <1>8
  <2> QED
    BY <1>4, <1>9, <2>1
<1>11. Within(next)[0] = Itself
  BY <1>4, <1>9, NIsNat
<1>12. ASSUME NEW k \in 0..N, k < N
       PROVE  Within(next)[k + 1] = OneMore(next, Within(next)[k])
  <2>1. k + 1 \in 0..N /\ k + 1 # 0 /\ (k + 1) - 1 = k
    BY <1>12, NIsNat
  <2>2. f[k + 1] = Stage(f, k + 1)
    BY <1>4, <2>1
  <2> QED
    BY <1>9, <2>1, <2>2
<1> QED
  BY <1>10, <1>11, <1>12

Closed(next, A) == \A s \in A : next[s] \subseteq A

(* What WithinSteps says, seen from one record.                                *)
LEMMA WalksOf ==
    ASSUME NEW next \in Graphs, NEW r \in Ids
    PROVE  /\ Within(next)[0][r] = {r}
           /\ \A k \in 0..N : Within(next)[k][r] \subseteq Ids
           /\ \A k \in 0..N : k < N =>
                Within(next)[k + 1][r]
                    = Within(next)[k][r] \cup UNION {next[s] : s \in Within(next)[k][r]}
<1>1. /\ Within(next) \in [0..N -> Graphs]
      /\ Within(next)[0] = Itself
      /\ \A k \in 0..N : k < N => Within(next)[k + 1] = OneMore(next, Within(next)[k])
  BY WithinSteps
<1>2. \A k \in 0..N : Within(next)[k][r] \subseteq Ids
  BY <1>1 DEF Graphs
<1>3. Within(next)[0][r] = {r}
  BY <1>1 DEF Itself
<1>4. ASSUME NEW k \in 0..N, k < N
      PROVE  Within(next)[k + 1][r]
                = Within(next)[k][r] \cup UNION {next[s] : s \in Within(next)[k][r]}
  <2>1. Within(next)[k + 1] = OneMore(next, Within(next)[k])
    BY <1>1, <1>4
  <2> QED
    BY <2>1 DEF OneMore
<1> QED
  BY <1>2, <1>3, <1>4

(* After N links nothing new is reached: until it is closed, what is within   *)
(* k links of a record grows with k, and there are only N records.             *)
LEMMA WalksEnd ==
    ASSUME NEW next \in Graphs, NEW r \in Ids
    PROVE  Closed(next, Within(next)[N][r])
<1> DEFINE S(k) == Within(next)[k][r]
<1>1. /\ S(0) = {r}
      /\ \A k \in 0..N : S(k) \subseteq Ids
      /\ \A k \in 0..N : k < N => S(k + 1) = S(k) \cup UNION {next[s] : s \in S(k)}
  BY WalksOf
<1>2. N \in Nat /\ Ids = 1..N /\ IsFiniteSet(Ids) /\ Cardinality(Ids) = N
  <2>1. N \in Nat /\ Ids = 1..N
    BY NIsNat
  <2> QED
    BY <2>1, FS_Interval
<1> HIDE DEF S
<1>3. \A k \in 0..N : IsFiniteSet(S(k)) /\ Cardinality(S(k)) \in Nat
  BY <1>1, <1>2, FS_Subset, FS_CardinalityType
<1>4. ASSUME NEW k \in 0..N, k < N, Closed(next, S(k)) PROVE S(k + 1) = S(k)
  <2>1. \A s \in S(k) : next[s] \subseteq S(k)
    BY <1>4 DEF Closed
  <2>2. S(k + 1) = S(k) \cup UNION {next[s] : s \in S(k)}
    BY <1>1, <1>4
  <2> QED
    BY <2>1, <2>2
<1> SUFFICES ASSUME ~Closed(next, S(N)) PROVE FALSE
  BY DEF S
<1>5. ASSUME NEW j \in 0..N, Closed(next, S(j)) PROVE FALSE
  <2> DEFINE T == {k \in 0..N : k >= j => Closed(next, S(k))}
  <2>1. 0 \in T
    BY <1>2, <1>5
  <2>2. \A k \in 0..N : k < N /\ k \in T => k + 1 \in T
    <3> SUFFICES ASSUME NEW k \in 0..N, k < N, k \in T, k + 1 >= j PROVE Closed(next, S(k + 1))
      BY <1>2
    <3>1. CASE k >= j
      BY <1>4, <3>1
    <3>2. CASE k + 1 = j
      BY <1>5, <3>2
    <3> QED
      BY <1>2, <3>1, <3>2
  <2> HIDE DEF T
  <2>3. N \in T
    BY <1>2, <2>1, <2>2, InductionUpTo
  <2> QED
    BY <1>2, <2>3 DEF T
<1>6. \A k \in 0..N : k < N => Cardinality(S(k)) < Cardinality(S(k + 1))
  <2> SUFFICES ASSUME NEW k \in 0..N, k < N PROVE Cardinality(S(k)) < Cardinality(S(k + 1))
    OBVIOUS
  <2>1. k + 1 \in 0..N /\ S(k) \subseteq S(k + 1) /\ S(k) # S(k + 1)
    BY <1>1, <1>2, <1>5 DEF Closed
  <2>2. /\ Cardinality(S(k)) <= Cardinality(S(k + 1))
        /\ Cardinality(S(k + 1)) # Cardinality(S(k))
    BY <1>3, <2>1, FS_Subset
  <2> QED
    BY <1>3, <2>1, <2>2
<1> DEFINE V == {k \in 0..N : Cardinality(S(k)) >= k + 1}
<1>7. 0 \in V
  <2>1. Cardinality(S(0)) = 1
    BY <1>1, FS_Singleton
  <2> QED
    BY <1>2, <2>1
<1>8. \A k \in 0..N : k < N /\ k \in V => k + 1 \in V
  BY <1>2, <1>3, <1>6
<1> HIDE DEF V
<1>9. N \in V
  BY <1>2, <1>7, <1>8, InductionUpTo
<1>10. Cardinality(S(N)) <= N
  <2>1. S(N) \in SUBSET Ids
    BY <1>1, <1>2
  <2> QED
    BY <1>2, <2>1, FS_Subset
<1> QED
  BY <1>2, <1>3, <1>9, <1>10 DEF V

(* What is reached from a record lies in every closed set that it lies in.     *)
LEMMA WalksStay ==
    ASSUME NEW next \in Graphs, NEW r \in Ids, NEW A, r \in A, Closed(next, A)
    PROVE  \A k \in 0..N : Within(next)[k][r] \subseteq A
<1> DEFINE T == {k \in 0..N : Within(next)[k][r] \subseteq A}
<1>1. 0 \in T
  BY WalksOf, NIsNat
<1>2. \A k \in 0..N : k < N /\ k \in T => k + 1 \in T
  BY WalksOf, NIsNat DEF Closed
<1> HIDE DEF T
<1>3. 0..N \subseteq T
  BY <1>1, <1>2, InductionUpTo, NIsNat
<1> QED
  BY <1>3 DEF T

(* Walks of more links reach what those of fewer links reach.                  *)
LEMMA WalksGrow ==
    ASSUME NEW next \in Graphs, NEW r \in Ids
    PROVE  \A k \in 0..N : /\ r \in Within(next)[k][r]
                           /\ \A j \in 0..k : Within(next)[j][r] \subseteq Within(next)[k][r]
<1> DEFINE T == {k \in 0..N : /\ r \in Within(next)[k][r]
                             /\ \A j \in 0..k : Within(next)[j][r] \subseteq Within(next)[k][r]}
<1>1. 0 \in T
  BY WalksOf, NIsNat
<1>2. \A k \in 0..N : k < N /\ k \in T => k + 1 \in T
  <2> SUFFICES ASSUME NEW k \in 0..N, k < N, k \in T PROVE k + 1 \in T
    OBVIOUS
  <2>1. Within(next)[k][r] \subseteq Within(next)[k + 1][r]
    BY WalksOf
  <2>2. k + 1 \in 0..N /\ \A j \in 0..(k + 1) : j \in 0..k \/ j = k + 1
    BY NIsNat
  <2> QED
    BY <2>1, <2>2
<1> HIDE DEF T
<1>3. 0..N \subseteq T
  BY <1>1, <1>2, InductionUpTo, NIsNat
<1> QED
  BY <1>3 DEF T

(* The relation "can be reached from", as the proofs below use it.             *)
LEMMA Reachability ==
    ASSUME NEW next \in Graphs
    PROVE  LET R == Within(next)[N]
           IN  /\ R \in Graphs
               /\ \A r \in Ids : r \in R[r] /\ Closed(next, R[r])
               /\ \A r \in Ids : \A s \in R[r] : R[s] \subseteq R[r]
               /\ \A A \in SUBSET Ids : Closed(next, A) => \A r \in A : R[r] \subseteq A
<1>1. N \in Nat /\ Within(next)[N] \in Graphs
  BY WithinSteps, NIsNat
<1>2. \A r \in Ids : r \in Within(next)[N][r] /\ Closed(next, Within(next)[N][r])
  BY <1>1, WalksGrow, WalksEnd
<1>3. \A A \in SUBSET Ids : Closed(next, A) => \A r \in A : Within(next)[N][r] \subseteq A
  BY <1>1, WalksStay
<1>4. \A r \in Ids : Within(next)[N][r] \in SUBSET Ids
  BY <1>1 DEF Graphs
<1> QED
  BY <1>1, <1>2, <1>3, <1>4

-----------------------------------------------------------------------------
(* Supersession: type correctness *)

Frame == [node : Ids, rest : SUBSET Ids]

(* What LinksTypeOK needs besides itself.  Records are numbered in the order   *)
(* in which the search reaches them; both stacks hold them in that order, and  *)
(* a record that is open on the work stack is on the stack.                    *)
Numbered ==
    /\ OnStack \subseteq Visited /\ Visited \subseteq snap
    /\ \A r \in Ids : index[r] <= Cardinality(Visited)
StackOrder == \A j, k \in DOMAIN stack : j < k => index[stack[j]] < index[stack[k]]
WorkOrder ==
    /\ \A j, k \in DOMAIN work : j < k => index[work[j].node] < index[work[k].node]
    /\ \A k \in DOMAIN work : work[k].node \in OnStack /\ work[k].rest \subseteq Graph(work[k].node)
BeforeSearch == pc \in {"scanFirst", "scanSecond"} =>
    Visited = {} /\ stack = <<>> /\ work = <<>> /\ cycles = [r \in Ids |-> {}]
SearchOrder == Numbered /\ StackOrder /\ WorkOrder /\ BeforeSearch

(* A walk sees at least one record more on each level.                         *)
LevelsSeen ==
    /\ pc = "walk" => depth \in Nat \ {0} /\ depth <= Cardinality(seen)
    /\ pc \in {"walk", "annotate", "done", "related"} => origin \in Ids

(* What the types of both stacks say of their tops.                            *)
LEMMA StacksTyped ==
    ASSUME LinksTypeOK
    PROVE  /\ Len(stack) \in Nat /\ DOMAIN stack = 1..Len(stack)
           /\ \A k \in DOMAIN stack : stack[k] \in Ids /\ stack[k] \in OnStack
           /\ OnStack \subseteq Ids
           /\ Len(work) \in Nat /\ DOMAIN work = 1..Len(work)
           /\ \A k \in DOMAIN work : work[k] \in Frame /\ work[k].node \in Ids
           /\ work # <<>> => Len(work) \in DOMAIN work /\ Top = work[Len(work)] /\ Top \in Frame
           /\ \A r \in Ids : index[r] \in Nat /\ lowlink[r] \in Nat
<1>1. stack \in Seq(Ids) /\ work \in Seq(Frame)
  BY DEF LinksTypeOK, Frame
<1>2. Len(stack) \in Nat /\ DOMAIN stack = 1..Len(stack) /\ Len(work) \in Nat /\ DOMAIN work = 1..Len(work)
  BY <1>1
<1>3. \A k \in DOMAIN stack : stack[k] \in Ids
  BY <1>1, <1>2, ElementOfSeq
<1>4. \A k \in DOMAIN work : work[k] \in Frame
  BY <1>1, <1>2, ElementOfSeq
<1>5. work # <<>> => Len(work) \in DOMAIN work
  BY <1>1, <1>2
<1>6. N \in Nat /\ \A r \in Ids : index[r] \in Nat /\ lowlink[r] \in Nat
  BY NIsNat DEF LinksTypeOK
<1> QED
  BY <1>2, <1>3, <1>4, <1>5, <1>6 DEF OnStack, Top, Frame

LEMMA VisitedFinite ==
    ASSUME LinksTypeOK
    PROVE  /\ Visited \subseteq Ids /\ IsFiniteSet(Visited) /\ Cardinality(Visited) \in 0..N
           /\ \A r \in Ids \ Visited : Cardinality(Visited) + 1 <= N
<1>1. N \in Nat /\ Ids = 1..N /\ IsFiniteSet(Ids) /\ Cardinality(Ids) = N
  <2>1. N \in Nat /\ Ids = 1..N
    BY NIsNat
  <2> QED
    BY <2>1, FS_Interval
<1>2. Visited \in SUBSET Ids
  BY DEF Visited
<1>3. /\ IsFiniteSet(Visited) /\ Cardinality(Visited) \in Nat /\ Cardinality(Visited) <= N
      /\ Cardinality(Ids) = Cardinality(Visited) => Visited = Ids
  BY <1>1, <1>2, FS_Subset, FS_CardinalityType
<1>4. ASSUME NEW r \in Ids \ Visited PROVE Cardinality(Visited) + 1 <= N
  BY <1>1, <1>3, <1>4
<1> QED
  BY <1>1, <1>2, <1>3, <1>4

(* What a record that is reached does to the two stacks.                       *)
LEMMA VisitEffect ==
    ASSUME LinksTypeOK, Numbered, NEW r \in snap \ Visited, NEW frames \in Seq(Frame), Visit(r, frames)
    PROVE  /\ index' \in [Ids -> 0..N] /\ lowlink' \in [Ids -> 0..N]
           /\ stack' \in Seq(Ids) /\ work' \in Seq(Frame)
           /\ Visited' = Visited \cup {r} /\ OnStack' = OnStack \cup {r}
           /\ Cardinality(Visited)' = Cardinality(Visited) + 1
           /\ index'[r] = Cardinality(Visited) + 1 /\ lowlink'[r] = index'[r]
           /\ \A s \in Ids \ {r} : index'[s] = index[s] /\ lowlink'[s] = lowlink[s]
           /\ Len(stack') = Len(stack) + 1 /\ stack'[Len(stack) + 1] = r
           /\ \A k \in DOMAIN stack : stack'[k] = stack[k]
           /\ Len(work') = Len(frames) + 1
           /\ work'[Len(frames) + 1] = [node |-> r, rest |-> Graph(r)]
           /\ \A k \in 1..Len(frames) : work'[k] = frames[k]
<1>1. r \in Ids /\ snap \subseteq Ids /\ links \in [Ids -> SUBSET Ids] /\ stack \in Seq(Ids)
  BY DEF LinksTypeOK
<1>2. /\ IsFiniteSet(Visited) /\ Cardinality(Visited) \in Nat /\ Cardinality(Visited) + 1 \in 1..N
  BY <1>1, VisitedFinite, NIsNat
<1>3. [node |-> r, rest |-> Graph(r)] \in Frame
  BY <1>1 DEF Graph, Frame
<1>4. /\ index' = [index EXCEPT ![r] = Cardinality(Visited) + 1]
      /\ lowlink' = [lowlink EXCEPT ![r] = Cardinality(Visited) + 1]
      /\ stack' = Append(stack, r)
      /\ work' = Append(frames, [node |-> r, rest |-> Graph(r)])
  BY DEF Visit
<1>5. /\ index' \in [Ids -> 0..N] /\ lowlink' \in [Ids -> 0..N]
      /\ index'[r] = Cardinality(Visited) + 1 /\ lowlink'[r] = index'[r]
      /\ \A s \in Ids \ {r} : index'[s] = index[s] /\ lowlink'[s] = lowlink[s]
  BY <1>1, <1>2, <1>4, NIsNat DEF LinksTypeOK
<1>6. Visited' = Visited \cup {r}
  <2>1. Visited' = {s \in Ids : index'[s] # 0}
    BY DEF Visited
  <2> QED
    BY <1>1, <1>2, <1>5, <2>1 DEF Visited
<1>7. Cardinality(Visited)' = Cardinality(Visited) + 1
  BY <1>2, <1>6, FS_AddElement
<1>8. /\ stack' \in Seq(Ids) /\ Len(stack') = Len(stack) + 1 /\ stack'[Len(stack) + 1] = r
      /\ \A k \in DOMAIN stack : stack'[k] = stack[k]
      /\ DOMAIN stack = 1..Len(stack) /\ DOMAIN stack' = 1..(Len(stack) + 1) /\ Len(stack) \in Nat
  BY <1>1, <1>4
<1>9. OnStack' = OnStack \cup {r}
  <2>1. OnStack' = {stack'[k] : k \in 1..(Len(stack) + 1)}
    BY <1>8 DEF OnStack
  <2>2. OnStack = {stack[k] : k \in 1..Len(stack)}
    BY <1>8 DEF OnStack
  <2>3. 1..(Len(stack) + 1) = 1..Len(stack) \cup {Len(stack) + 1}
    BY <1>8
  <2> QED
    BY <1>8, <2>1, <2>2, <2>3
<1>10. /\ work' \in Seq(Frame) /\ Len(work') = Len(frames) + 1
       /\ work'[Len(frames) + 1] = [node |-> r, rest |-> Graph(r)]
       /\ \A k \in 1..Len(frames) : work'[k] = frames[k]
  BY <1>3, <1>4, AppendProperties
<1> QED
  BY <1>5, <1>6, <1>7, <1>8, <1>9, <1>10

(* The link that is followed is taken off the frame on top.                    *)
Followed(w) == [work EXCEPT ![Len(work)].rest = @ \ {w}]

LEMMA FramesEffect ==
    ASSUME LinksTypeOK, work # <<>>, NEW w \in Top.rest
    PROVE  /\ Followed(w) \in Seq(Frame) /\ Len(Followed(w)) = Len(work)
           /\ DOMAIN Followed(w) = DOMAIN work
           /\ \A k \in DOMAIN work : Followed(w)[k].node = work[k].node
           /\ \A k \in DOMAIN work : k # Len(work) => Followed(w)[k].rest = work[k].rest
           /\ Followed(w)[Len(work)].rest = Top.rest \ {w}
<1>1. work \in Seq(Frame) /\ Len(work) \in DOMAIN work /\ Top = work[Len(work)] /\ Top \in Frame
  BY StacksTyped DEF LinksTypeOK, Frame
<1> DEFINE top == [Top EXCEPT !.rest = @ \ {w}]
<1>2. top \in Frame /\ top.node = Top.node /\ top.rest = Top.rest \ {w}
  BY <1>1 DEF Frame
<1>3. Followed(w) = [work EXCEPT ![Len(work)] = top]
  BY <1>1 DEF Followed
<1>4. /\ Followed(w) \in Seq(Frame) /\ Len(Followed(w)) = Len(work)
      /\ \A k \in 1..Len(work) : Followed(w)[k] = IF k = Len(work) THEN top ELSE work[k]
  <2> HIDE DEF top
  <2>1. Len(work) \in 1..Len(work)
    BY <1>1
  <2>2. top \in Frame
    BY <1>2
  <2>3. /\ [work EXCEPT ![Len(work)] = top] \in Seq(Frame)
        /\ Len([work EXCEPT ![Len(work)] = top]) = Len(work)
        /\ \A k \in 1..Len(work) :
            [work EXCEPT ![Len(work)] = top][k] = IF k = Len(work) THEN top ELSE work[k]
    BY <1>1, <2>1, <2>2, ExceptSeq
  <2> QED
    BY <1>3, <2>3
<1>5. DOMAIN work = 1..Len(work) /\ DOMAIN Followed(w) = 1..Len(work)
  BY <1>1, <1>4
<1> QED
  <2> HIDE DEF top
  <2> QED
    BY <1>1, <1>2, <1>4, <1>5

(* What a closed record does to the two stacks: when it is where its component *)
(* was entered, the component is what the search has numbered since.           *)
LEMMA CloseEffect ==
    ASSUME LinksTypeOK, SearchOrder, CloseRecord
    PROVE  LET v == Top.node
               component == {r \in OnStack : index[r] >= index[v]}
           IN  /\ v \in OnStack /\ v \in Ids /\ Top.rest = {} /\ work # <<>>
               /\ work' \in Seq(Frame) /\ Len(work') = Len(work) - 1
               /\ DOMAIN work' = 1..(Len(work) - 1) /\ DOMAIN work = 1..Len(work)
               /\ \A k \in DOMAIN work' : work'[k] = work[k]
               /\ lowlink[v] # index[v] => stack' = stack /\ cycles' = cycles
               /\ lowlink[v] = index[v] =>
                    /\ stack' \in Seq(Ids) /\ DOMAIN stack' \subseteq DOMAIN stack
                    /\ \A k \in DOMAIN stack' : stack'[k] = stack[k]
                    /\ OnStack' = OnStack \ component
                    /\ cycles' = [r \in Ids |-> IF r \in component THEN component \ {r}
                                                ELSE cycles[r]]
<1> DEFINE v == Top.node
           component == {r \in OnStack : index[r] >= index[v]}
           place == CHOOSE k \in DOMAIN stack : stack[k] = v
           popped == {stack[k] : k \in place..Len(stack)}
<1>1. /\ work # <<>> /\ Top.rest = {} /\ work' = SubSeq(work, 1, Len(work) - 1)
      /\ IF lowlink[v] = index[v] THEN PopComponent(v) ELSE UNCHANGED <<stack, cycles>>
  BY DEF CloseRecord, InCycles
<1>2. /\ work \in Seq(Frame) /\ Len(work) \in DOMAIN work /\ DOMAIN work = 1..Len(work)
      /\ Top = work[Len(work)]
  BY <1>1, StacksTyped DEF LinksTypeOK, Frame
<1>3. v \in OnStack /\ v \in Ids
  BY <1>2, StacksTyped DEF SearchOrder, WorkOrder
<1>4. /\ work' \in Seq(Frame) /\ Len(work') = Len(work) - 1
      /\ DOMAIN work' = 1..(Len(work) - 1) /\ \A k \in DOMAIN work' : work'[k] = work[k]
  BY <1>1, <1>2
<1>5. place \in DOMAIN stack /\ stack[place] = v
  BY <1>3 DEF OnStack
<1>6. /\ stack \in Seq(Ids) /\ DOMAIN stack = 1..Len(stack) /\ Len(stack) \in Nat
      /\ \A k \in DOMAIN stack : index[stack[k]] \in Nat
  BY StacksTyped DEF LinksTypeOK
<1>7. \A k \in DOMAIN stack : index[stack[k]] >= index[v] <=> k >= place
  <2> HIDE DEF place
  <2>1. \A j, k \in DOMAIN stack : j < k => index[stack[j]] < index[stack[k]]
    BY DEF SearchOrder, StackOrder
  <2> QED
    BY <1>5, <1>6, <2>1
<1>8. popped = component
  <2>1. \A r : r \in popped => r \in component
    <3> HIDE DEF place
    <3> QED
      BY <1>5, <1>6, <1>7 DEF OnStack
  <2>2. \A r : r \in component => r \in popped
    <3> HIDE DEF place
    <3> QED
      BY <1>5, <1>6, <1>7 DEF OnStack
  <2> QED
    BY <2>1, <2>2
<1>9. ASSUME lowlink[v] = index[v]
      PROVE  /\ stack' \in Seq(Ids) /\ DOMAIN stack' = 1..(place - 1)
             /\ \A k \in DOMAIN stack' : stack'[k] = stack[k]
             /\ cycles' = [r \in Ids |-> IF r \in component THEN component \ {r} ELSE cycles[r]]
  <2>1. /\ stack' = SubSeq(stack, 1, place - 1)
        /\ cycles' = [r \in Ids |-> IF r \in popped THEN popped \ {r} ELSE cycles[r]]
    BY <1>1, <1>9 DEF PopComponent
  <2> HIDE DEF place, popped, component
  <2>2. /\ stack' \in Seq(Ids) /\ DOMAIN stack' = 1..(place - 1)
        /\ \A k \in DOMAIN stack' : stack'[k] = stack[k]
    BY <1>5, <1>6, <2>1
  <2> QED
    BY <1>8, <2>1, <2>2
<1>10. ASSUME lowlink[v] = index[v] PROVE OnStack' = OnStack \ component
  <2> HIDE DEF place, popped
  <2>1. OnStack' = {stack[k] : k \in 1..(place - 1)}
    <3>1. OnStack' = {stack'[k] : k \in 1..(place - 1)}
      BY <1>9, <1>10 DEF OnStack
    <3> QED
      BY <1>9, <1>10, <3>1
  <2>2. OnStack = {stack[k] : k \in 1..Len(stack)}
    BY <1>6 DEF OnStack
  <2>3. \A r : r \in OnStack' => r \in OnStack \ component
    BY <1>5, <1>6, <1>7, <2>1, <2>2
  <2>4. \A r : r \in OnStack \ component => r \in OnStack'
    BY <1>5, <1>6, <1>7, <2>1, <2>2
  <2> QED
    BY <2>3, <2>4
<1> QED
  <2>1. DOMAIN stack' \subseteq DOMAIN stack \/ lowlink[v] # index[v]
    BY <1>5, <1>6, <1>9
  <2> HIDE DEF place, popped, component
  <2> QED
    BY <1>1, <1>2, <1>3, <1>4, <1>9, <1>10, <2>1 DEF component

SearchInv == LinksTypeOK /\ SearchOrder /\ LevelsSeen

(* A record on top of the stack that is numbered last keeps the order.         *)
LEMMA PushKeepsOrder ==
    ASSUME SearchInv, NEW r \in snap \ Visited, NEW frames \in Seq(Frame), Visit(r, frames),
           UNCHANGED snap
    PROVE  Numbered' /\ StackOrder'
<1>1. LinksTypeOK /\ Numbered /\ StackOrder
  BY DEF SearchInv, SearchOrder
<1>2. /\ Visited' = Visited \cup {r} /\ OnStack' = OnStack \cup {r}
      /\ Cardinality(Visited)' = Cardinality(Visited) + 1
      /\ index'[r] = Cardinality(Visited) + 1
      /\ \A s \in Ids \ {r} : index'[s] = index[s]
  BY <1>1, VisitEffect
<1>3. /\ stack' \in Seq(Ids)
      /\ Len(stack') = Len(stack) + 1 /\ stack'[Len(stack) + 1] = r
      /\ \A k \in DOMAIN stack : stack'[k] = stack[k]
  BY <1>1, VisitEffect
<1>4. r \in Ids /\ r \in snap /\ Cardinality(Visited) \in Nat
  BY <1>1, VisitedFinite DEF LinksTypeOK
<1>5. \A s \in Ids : index[s] <= Cardinality(Visited) /\ index[s] \in Nat
  BY <1>1, StacksTyped DEF Numbered
<1>6. Numbered'
  <2>1. \A s \in Ids : index'[s] <= Cardinality(Visited) + 1
    BY <1>2, <1>4, <1>5
  <2>2. \A s \in Ids : index'[s] <= Cardinality(Visited)'
    BY <1>2, <2>1
  <2>3. OnStack' \subseteq Visited' /\ Visited' \subseteq snap'
    BY <1>1, <1>2, <1>4 DEF Numbered
  <2> QED
    BY <2>2, <2>3 DEF Numbered
<1>7. ASSUME NEW j \in DOMAIN stack', NEW k \in DOMAIN stack', j < k
      PROVE  index'[stack'[j]] < index'[stack'[k]]
  <2>1. /\ DOMAIN stack = 1..Len(stack) /\ Len(stack) \in Nat
        /\ DOMAIN stack' = 1..(Len(stack) + 1)
        /\ \A i \in DOMAIN stack : stack[i] \in OnStack /\ stack[i] \in Ids
    BY <1>1, <1>3, StacksTyped
  <2>2. \A i \in DOMAIN stack : stack'[i] = stack[i] /\ stack[i] # r /\ stack[i] \in Ids
    BY <1>1, <1>3, <2>1 DEF Numbered
  <2>3. \A i \in DOMAIN stack : index'[stack'[i]] = index[stack[i]]
    BY <1>2, <2>2
  <2>4. j \in DOMAIN stack
    BY <1>7, <2>1
  <2>5. CASE k \in DOMAIN stack
    BY <1>1, <1>7, <2>3, <2>4, <2>5 DEF StackOrder
  <2>6. CASE k = Len(stack) + 1
    <3>1. index'[stack'[k]] = Cardinality(Visited) + 1
      BY <1>2, <1>3, <2>6
    <3>2. index'[stack'[j]] \in Nat /\ index'[stack'[j]] <= Cardinality(Visited)
      BY <1>5, <2>1, <2>3, <2>4
    <3> QED
      BY <1>4, <3>1, <3>2
  <2> QED
    BY <2>1, <2>5, <2>6
<1> QED
  BY <1>6, <1>7 DEF StackOrder

(* The types and their order, for each step of the search.                     *)
LEMMA StartKeepsTypes ==
    ASSUME SearchInv, StartSearch
    PROVE  SearchInv'
<1>1. PICK r \in snap \ Visited : Visit(r, <<>>)
  BY DEF StartSearch
<1>2. LinksTypeOK /\ SearchOrder /\ LevelsSeen /\ <<>> \in Seq(Frame) /\ Len(<<>>) = 0
  BY DEF SearchInv
<1>3. UNCHANGED <<store, pc, snap, archivedIds, cycles, walk, told>> /\ pc = "cycles"
  BY DEF StartSearch, InCycles
<1>4. /\ index' \in [Ids -> 0..N] /\ lowlink' \in [Ids -> 0..N]
      /\ stack' \in Seq(Ids) /\ work' \in Seq(Frame)
  BY <1>1, <1>2, VisitEffect DEF SearchOrder
<1>5. OnStack' = OnStack \cup {r} /\ Len(work') = 0 + 1
  BY <1>1, <1>2, VisitEffect DEF SearchOrder
<1>6. work'[0 + 1] = [node |-> r, rest |-> Graph(r)]
  BY <1>1, <1>2, VisitEffect DEF SearchOrder
<1>7. LinksTypeOK' /\ LevelsSeen'
  BY <1>2, <1>3, <1>4 DEF LinksTypeOK, LevelsSeen, store, walk, told, Frame
<1>8. Numbered' /\ StackOrder'
  BY <1>1, <1>2, <1>3, PushKeepsOrder
<1>9. WorkOrder'
  <2>1. DOMAIN work' = {1} /\ work'[1].node = r /\ work'[1].rest = Graph(r)
    BY <1>4, <1>5, <1>6
  <2>2. Graph(r)' = Graph(r)
    BY <1>3 DEF Graph, store
  <2> QED
    BY <1>5, <2>1, <2>2 DEF WorkOrder
<1>10. BeforeSearch'
  BY <1>3 DEF BeforeSearch
<1> QED
  BY <1>7, <1>8, <1>9, <1>10 DEF SearchInv, SearchOrder

LEMMA FollowKeepsTypes ==
    ASSUME SearchInv, NEW w \in Ids, FollowLink(w)
    PROVE  SearchInv'
<1>1. /\ LinksTypeOK /\ SearchOrder /\ LevelsSeen /\ work # <<>> /\ w \in Top.rest
      /\ links \in [Ids -> SUBSET Ids] /\ snap \subseteq Ids
  BY DEF SearchInv, FollowLink, LinksTypeOK
<1>2. UNCHANGED <<store, pc, snap, archivedIds, cycles, walk, told>> /\ pc = "cycles"
  BY DEF FollowLink, InCycles
<1>3. /\ Followed(w) \in Seq(Frame) /\ Len(Followed(w)) = Len(work)
      /\ DOMAIN Followed(w) = DOMAIN work
      /\ \A k \in DOMAIN work : Followed(w)[k].node = work[k].node
      /\ \A k \in DOMAIN work : k # Len(work) => Followed(w)[k].rest = work[k].rest
      /\ Followed(w)[Len(work)].rest = Top.rest \ {w}
  BY <1>1, FramesEffect
<1>4. /\ Top \in Frame /\ \A r \in Ids : index[r] \in Nat /\ lowlink[r] \in Nat
      /\ Len(work) \in DOMAIN work /\ Top = work[Len(work)] /\ Top.node \in Ids
      /\ DOMAIN work = 1..Len(work) /\ Len(work) \in Nat
      /\ \A k \in DOMAIN work : work[k].node \in Ids
  BY <1>1, StacksTyped DEF Frame
<1>5. w \in Graph(Top.node) /\ w \in snap
  BY <1>1, <1>4 DEF SearchOrder, WorkOrder, Graph
<1>6. BeforeSearch' /\ LevelsSeen' /\ \A r : Graph(r)' = Graph(r)
  BY <1>1, <1>2 DEF BeforeSearch, LevelsSeen, walk, Graph, store
<1>7. /\ \A j, k \in DOMAIN work : j < k => index[work[j].node] < index[work[k].node]
      /\ \A k \in DOMAIN work : work[k].node \in OnStack
      /\ \A k \in DOMAIN work : Followed(w)[k].rest \subseteq Graph(work[k].node)
  <2>1. \A k \in DOMAIN work : Followed(w)[k].rest \subseteq work[k].rest
    BY <1>3, <1>4
  <2> QED
    BY <1>1, <2>1 DEF SearchOrder, WorkOrder
<1>8. ASSUME w \notin Visited, Visit(w, Followed(w))
      PROVE  SearchInv'
  <2>1. /\ index' \in [Ids -> 0..N] /\ lowlink' \in [Ids -> 0..N]
        /\ stack' \in Seq(Ids) /\ work' \in Seq(Frame)
    BY <1>1, <1>3, <1>5, <1>8, VisitEffect DEF SearchOrder
  <2>2. /\ OnStack' = OnStack \cup {w}
        /\ index'[w] = Cardinality(Visited) + 1
        /\ \A s \in Ids \ {w} : index'[s] = index[s]
    BY <1>1, <1>3, <1>5, <1>8, VisitEffect DEF SearchOrder
  <2>3. /\ Len(work') = Len(Followed(w)) + 1
        /\ work'[Len(Followed(w)) + 1] = [node |-> w, rest |-> Graph(w)]
        /\ \A k \in 1..Len(Followed(w)) : work'[k] = Followed(w)[k]
    BY <1>1, <1>3, <1>5, <1>8, VisitEffect DEF SearchOrder
  <2>4. LinksTypeOK'
    BY <1>1, <1>2, <2>1 DEF LinksTypeOK, store, walk, told, Frame
  <2>5. Numbered' /\ StackOrder'
    BY <1>2, <1>3, <1>5, <1>8, PushKeepsOrder
  <2>6. /\ DOMAIN work' = 1..(Len(work) + 1)
        /\ \A k \in DOMAIN work : work'[k].node = work[k].node /\ work'[k].rest = Followed(w)[k].rest
        /\ work'[Len(work) + 1].node = w /\ work'[Len(work) + 1].rest = Graph(w)
    BY <1>3, <1>4, <2>1, <2>3
  <2>7. \A k \in DOMAIN work : index'[work[k].node] = index[work[k].node]
    <3>1. \A k \in DOMAIN work : work[k].node # w
      BY <1>1, <1>7, <1>8 DEF SearchOrder, Numbered
    <3> QED
      BY <1>4, <2>2, <3>1
  <2>8. \A k \in DOMAIN work : index[work[k].node] < index'[w]
    <3>1. \A k \in DOMAIN work : index[work[k].node] <= Cardinality(Visited)
      BY <1>1, <1>4 DEF SearchOrder, Numbered
    <3> QED
      BY <1>1, <1>4, <2>2, <3>1, VisitedFinite
  <2>9. WorkOrder'
    <3>1. ASSUME NEW j \in DOMAIN work', NEW k \in DOMAIN work', j < k
          PROVE  index'[work'[j].node] < index'[work'[k].node]
      <4>1. j \in DOMAIN work /\ (k \in DOMAIN work \/ k = Len(work) + 1)
        BY <1>4, <2>6, <3>1
      <4> QED
        BY <1>7, <2>6, <2>7, <2>8, <3>1, <4>1
    <3>2. (\A k \in DOMAIN work : /\ work[k].node \in OnStack
                                  /\ work[k].rest \subseteq Graph(work[k].node))'
      <4>1. \A k \in DOMAIN work' : k \in DOMAIN work \/ k = Len(work) + 1
        BY <1>4, <2>6
      <4>2. \A k \in DOMAIN work : work'[k].node \in OnStack' /\ work'[k].rest \subseteq Graph(work'[k].node)
        BY <1>7, <2>2, <2>6
      <4>3. /\ work'[Len(work) + 1].node \in OnStack'
            /\ work'[Len(work) + 1].rest \subseteq Graph(work'[Len(work) + 1].node)
        BY <2>2, <2>6
      <4>4. \A k \in DOMAIN work' : /\ work'[k].node \in OnStack'
                                    /\ work'[k].rest \subseteq Graph(work'[k].node)
        BY <4>1, <4>2, <4>3
      <4>5. links' = links /\ snap' = snap
        BY <1>2 DEF store
      <4> QED
        BY <4>4, <4>5 DEF Graph
    <3> QED
      BY <3>1, <3>2 DEF WorkOrder
  <2> QED
    BY <1>6, <2>4, <2>5, <2>9 DEF SearchInv, SearchOrder
<1>9. ASSUME work' = Followed(w), UNCHANGED <<index, stack>>, lowlink' \in [Ids -> 0..N]
      PROVE  SearchInv'
  <2>1. LinksTypeOK'
    BY <1>1, <1>2, <1>3, <1>9 DEF LinksTypeOK, store, walk, told, Frame
  <2>2. Numbered' /\ StackOrder'
    BY <1>1, <1>2, <1>9 DEF SearchOrder, Numbered, StackOrder, OnStack, Visited
  <2>3. WorkOrder'
    <3>1. OnStack' = OnStack
      BY <1>9 DEF OnStack
    <3> QED
      BY <1>2, <1>3, <1>7, <1>9, <3>1 DEF WorkOrder, Graph, store
  <2> QED
    BY <1>6, <2>1, <2>2, <2>3 DEF SearchInv, SearchOrder
<1>10. \/ w \notin Visited /\ Visit(w, Followed(w))
       \/ /\ lowlink' = [lowlink EXCEPT ![Top.node] = Lower(@, index[w])]
          /\ work' = Followed(w) /\ UNCHANGED <<index, stack>>
       \/ work' = Followed(w) /\ UNCHANGED <<index, lowlink, stack>>
  BY DEF FollowLink, Followed
<1>11. lowlink \in [Ids -> 0..N] /\ [lowlink EXCEPT ![Top.node] = Lower(@, index[w])] \in [Ids -> 0..N]
  BY <1>1, <1>4 DEF LinksTypeOK, Lower
<1> QED
  BY <1>8, <1>9, <1>10, <1>11

LEMMA CloseKeepsTypes ==
    ASSUME SearchInv, CloseRecord
    PROVE  SearchInv'
<1> DEFINE v == Top.node
           component == {r \in OnStack : index[r] >= index[v]}
<1>1. LinksTypeOK /\ SearchOrder /\ LevelsSeen
  BY DEF SearchInv
<1>2. UNCHANGED <<store, snap, archivedIds, walk, told, index, pc>> /\ pc = "cycles"
  BY DEF CloseRecord, InCycles
<1>3. /\ v \in OnStack /\ v \in Ids /\ work # <<>>
      /\ work' \in Seq(Frame) /\ Len(work') = Len(work) - 1
      /\ DOMAIN work' = 1..(Len(work) - 1) /\ DOMAIN work = 1..Len(work)
      /\ \A k \in DOMAIN work' : work'[k] = work[k]
      /\ lowlink[v] # index[v] => stack' = stack /\ cycles' = cycles
  BY <1>1, CloseEffect
<1>4. lowlink[v] = index[v] =>
        /\ stack' \in Seq(Ids) /\ DOMAIN stack' \subseteq DOMAIN stack
        /\ \A k \in DOMAIN stack' : stack'[k] = stack[k]
        /\ OnStack' = OnStack \ component
        /\ cycles' = [r \in Ids |-> IF r \in component THEN component \ {r} ELSE cycles[r]]
  BY <1>1, CloseEffect
<1>5. /\ Len(work) \in DOMAIN work /\ Top = work[Len(work)] /\ OnStack \subseteq Ids
      /\ \A k \in DOMAIN work : work[k] \in Frame /\ work[k].node \in Ids
      /\ \A r \in Ids : index[r] \in Nat /\ lowlink[r] \in Nat
      /\ Len(work) \in Nat /\ DOMAIN stack = 1..Len(stack)
  BY <1>1, <1>3, StacksTyped
<1> HIDE DEF component
<1>6. stack' \in Seq(Ids) /\ cycles' \in [Ids -> SUBSET Ids]
  <2>1. stack \in Seq(Ids) /\ cycles \in [Ids -> SUBSET Ids]
    BY <1>1 DEF LinksTypeOK
  <2>2. component \subseteq Ids
    BY <1>5 DEF component
  <2> QED
    BY <1>3, <1>4, <2>1, <2>2
<1>7. lowlink' \in [Ids -> 0..N]
  <2>1. lowlink \in [Ids -> 0..N]
    BY <1>1 DEF LinksTypeOK
  <2>2. \A a, b \in 0..N : Lower(a, b) \in 0..N
    BY DEF Lower
  <2>3. \/ lowlink' = lowlink
        \/ \E u : lowlink' = [lowlink EXCEPT ![u] = Lower(@, lowlink[v])]
    BY DEF CloseRecord
  <2>4. ASSUME NEW u, lowlink' = [lowlink EXCEPT ![u] = Lower(@, lowlink[v])]
        PROVE  lowlink' \in [Ids -> 0..N]
    <3>1. CASE u \in Ids
      <4>1. Lower(lowlink[u], lowlink[v]) \in 0..N
        BY <1>3, <2>1, <2>2, <3>1
      <4> QED
        BY <2>1, <2>4, <4>1
    <3>2. CASE u \notin Ids
      BY <2>1, <2>4, <3>2
    <3> QED
      BY <3>1, <3>2
  <2> QED
    BY <2>1, <2>3, <2>4
<1>8. LinksTypeOK'
  BY <1>1, <1>2, <1>3, <1>6, <1>7 DEF LinksTypeOK, store, walk, told, Frame
<1>9. OnStack' \subseteq OnStack /\ Visited' = Visited
  BY <1>2, <1>3, <1>4 DEF OnStack, Visited
<1>10. Numbered'
  BY <1>1, <1>2, <1>9 DEF SearchOrder, Numbered
<1>11. StackOrder'
  BY <1>1, <1>2, <1>3, <1>4 DEF SearchOrder, StackOrder
<1>12. WorkOrder'
  <2>1. \A k \in DOMAIN work' : k \in DOMAIN work /\ k < Len(work)
    BY <1>3, <1>5
  <2>2. \A k \in DOMAIN work' : index[work[k].node] < index[v]
    BY <1>1, <1>5, <2>1 DEF SearchOrder, WorkOrder
  <2>3. \A k \in DOMAIN work' : work[k].node \in OnStack'
    <3>1. \A k \in DOMAIN work' : work[k].node \in OnStack
      BY <1>1, <2>1 DEF SearchOrder, WorkOrder
    <3>2. lowlink[v] # index[v] => OnStack' = OnStack
      BY <1>3 DEF OnStack
    <3>3. \A k \in DOMAIN work' : work[k].node \notin component
      BY <1>3, <1>5, <2>1, <2>2 DEF component
    <3> QED
      BY <1>4, <3>1, <3>2, <3>3
  <2>4. links' = links /\ snap' = snap /\ index' = index
    BY <1>2 DEF store
  <2> QED
    BY <1>1, <1>3, <2>1, <2>3, <2>4 DEF SearchOrder, WorkOrder, Graph
<1>13. BeforeSearch' /\ LevelsSeen'
  BY <1>1, <1>2 DEF BeforeSearch, LevelsSeen, walk
<1> QED
  BY <1>8, <1>10, <1>11, <1>12, <1>13 DEF SearchInv, SearchOrder

(* A step that leaves the search and the scanned records alone.                *)
LEMMA SearchUntouched ==
    ASSUME SearchInv, UNCHANGED <<snap, links, tarjan>>, LinksTypeOK', LevelsSeen', BeforeSearch'
    PROVE  SearchInv'
<1>1. Numbered' /\ StackOrder'
  BY DEF SearchInv, SearchOrder, Numbered, StackOrder, Visited, OnStack, tarjan
<1>2. WorkOrder'
  BY DEF SearchInv, SearchOrder, WorkOrder, Graph, OnStack, tarjan
<1> QED
  BY <1>1, <1>2 DEF SearchInv, SearchOrder

(* A level that goes on has seen a record more, so that depth stays below N.   *)
LEMMA WalkKeepsTypes ==
    ASSUME SearchInv, WalkLevel
    PROVE  SearchInv'
<1>1. /\ pc = "walk" /\ tips' = [r \in Ids |-> IF r \in Ends THEN depth - 1 ELSE tips[r]]
      /\ seen' = seen \cup Ahead /\ frontier' = Ahead
      /\ IF Ahead = {} THEN pc' = "annotate" /\ depth' = depth ELSE pc' = pc /\ depth' = depth + 1
      /\ UNCHANGED <<store, snap, archivedIds, tarjan, origin, told>>
  BY DEF WalkLevel
<1>2. LinksTypeOK /\ LevelsSeen /\ SearchOrder
  BY DEF SearchInv
<1>3. N \in Nat /\ IsFiniteSet(Ids) /\ Cardinality(Ids) = N
  <2>1. N \in Nat /\ Ids = 1..N
    BY NIsNat
  <2> QED
    BY <2>1, FS_Interval
<1>4. /\ Ahead \subseteq Ids /\ seen \subseteq Ids /\ tips \in [Ids -> 0..N]
      /\ \A r \in Ahead : r \notin seen
  <2>1. Ahead \subseteq Ids /\ seen \subseteq Ids /\ tips \in [Ids -> 0..N]
    BY <1>2 DEF LinksTypeOK, Onward, Superseders, Ahead
  <2>2. \A r \in Ahead : r \notin seen
    BY DEF Ahead
  <2> QED
    BY <2>1, <2>2
<1>5. IsFiniteSet(seen) /\ Cardinality(seen) \in Nat /\ Cardinality(seen) <= N
  BY <1>3, <1>4, FS_Subset, FS_CardinalityType
<1>6. IsFiniteSet(seen') /\ Cardinality(seen') \in Nat /\ Cardinality(seen') <= N
  <2>1. seen' \in SUBSET Ids
    BY <1>1, <1>4
  <2> QED
    BY <1>3, <2>1, FS_Subset, FS_CardinalityType
<1>7. Ahead # {} => Cardinality(seen) < Cardinality(seen')
  <2>1. Ahead # {} => seen \in SUBSET seen' /\ seen # seen'
    BY <1>1, <1>4
  <2>2. Ahead # {} => Cardinality(seen) <= Cardinality(seen') /\ Cardinality(seen') # Cardinality(seen)
    BY <1>6, <2>1, FS_Subset
  <2> QED
    BY <1>5, <1>6, <2>2
<1>8. depth \in Nat \ {0} /\ depth <= Cardinality(seen)
  BY <1>1, <1>2 DEF LevelsSeen
<1>9. depth - 1 \in 0..N /\ depth \in 0..(N + 1) /\ depth' \in Nat \ {0} /\ depth' \in 0..(N + 1)
  BY <1>1, <1>3, <1>5, <1>8
<1>10. tips' \in [Ids -> 0..N]
  BY <1>1, <1>4, <1>9
<1>11. LinksTypeOK'
  BY <1>1, <1>2, <1>4, <1>9, <1>10 DEF LinksTypeOK, store, tarjan, told
<1>12. LevelsSeen'
  BY <1>1, <1>2, <1>5, <1>6, <1>7, <1>8, <1>9 DEF LevelsSeen
<1>13. BeforeSearch'
  BY <1>1 DEF BeforeSearch
<1> QED
  BY <1>1, <1>11, <1>12, <1>13, SearchUntouched DEF SearchInv, store

LEMMA LinksTypeStep == SearchInv /\ [LinksNext]_linksVars => SearchInv'
<1> SUFFICES ASSUME SearchInv, [LinksNext]_linksVars PROVE SearchInv'
  OBVIOUS
<1>0. LinksTypeOK /\ LevelsSeen /\ SearchOrder /\ BeforeSearch
  BY DEF SearchInv, SearchOrder
<1>1. CASE Scan(1)
  <2>1. pc = "scanFirst" /\ pc' = "scanSecond" /\ snap' = live /\ UNCHANGED archivedIds
    BY <1>1 DEF Scan, Stages, Trees
  <2>2. UNCHANGED <<store, tarjan, walk, told>>
    BY <1>1 DEF Scan
  <2>3. Visited = {} /\ stack = <<>> /\ work = <<>> /\ cycles = [r \in Ids |-> {}] /\ DOMAIN <<>> = {}
    BY <1>0, <2>1 DEF BeforeSearch
  <2>4. LinksTypeOK' /\ LevelsSeen'
    BY <1>0, <2>1, <2>2 DEF LinksTypeOK, LevelsSeen, store, tarjan, walk, told
  <2>5. Visited' = {} /\ stack' = <<>> /\ work' = <<>> /\ cycles' = [r \in Ids |-> {}]
    BY <2>2, <2>3 DEF Visited, tarjan
  <2>6. OnStack' = {} /\ Numbered'
    <3>1. OnStack' = {}
      BY <2>3, <2>5 DEF OnStack
    <3> QED
      BY <1>0, <2>2, <2>3, <2>5, <3>1 DEF Numbered, SearchOrder, Visited, tarjan
  <2>7. StackOrder' /\ WorkOrder' /\ BeforeSearch'
    BY <2>3, <2>5 DEF StackOrder, WorkOrder, BeforeSearch
  <2> QED
    BY <2>4, <2>6, <2>7 DEF SearchInv, SearchOrder
<1>2. CASE Scan(2)
  <2>1. pc = "scanSecond" /\ pc' = "cycles" /\ archivedIds' = archived /\ UNCHANGED snap
    BY <1>2 DEF Scan, Stages, Trees
  <2>2. UNCHANGED <<store, tarjan, walk, told>>
    BY <1>2 DEF Scan
  <2>3. LinksTypeOK' /\ LevelsSeen' /\ BeforeSearch'
    BY <1>0, <2>1, <2>2 DEF LinksTypeOK, LevelsSeen, BeforeSearch, store, tarjan, walk, told
  <2> QED
    BY <2>1, <2>2, <2>3, SearchUntouched DEF store
<1>3. ASSUME NEW r \in Ids, DeleteRecord(r) PROVE SearchInv'
  <2>1. LinksTypeOK' /\ LevelsSeen' /\ BeforeSearch'
    BY <1>0, <1>3, SupersessionAssumption
    DEF DeleteRecord, LinksTypeOK, LevelsSeen, BeforeSearch, Visited, tarjan, walk, told
  <2> QED
    BY <1>3, <2>1, SearchUntouched DEF DeleteRecord
<1>4. ASSUME NEW r \in Ids, RestoreRecord(r) PROVE SearchInv'
  <2>1. LinksTypeOK' /\ LevelsSeen' /\ BeforeSearch'
    BY <1>0, <1>4, SupersessionAssumption
    DEF RestoreRecord, LinksTypeOK, LevelsSeen, BeforeSearch, Visited, tarjan, walk, told
  <2> QED
    BY <1>4, <2>1, SearchUntouched DEF RestoreRecord
<1>5. ASSUME NEW r \in Ids, TakeUp(r) PROVE SearchInv'
  <2>0. /\ pc' \in {"walk", "annotate"} /\ origin' = r
        /\ frontier' \subseteq Ids /\ seen' \subseteq Ids /\ depth' \in 0..(N + 1)
    <3>1. 1 \in 0..(N + 1)
      BY NIsNat
    <3>2. CASE Superseders(r) = {}
      BY <1>0, <1>5, <3>2 DEF TakeUp, LinksTypeOK
    <3>3. CASE Superseders(r) # {}
      BY <1>0, <1>5, <3>1, <3>3 DEF TakeUp, LinksTypeOK
    <3> QED
      BY <3>2, <3>3
  <2>1. LinksTypeOK' /\ BeforeSearch'
    BY <1>0, <1>5, <2>0 DEF TakeUp, LinksTypeOK, BeforeSearch, store, tarjan, told
  <2>2. LevelsSeen'
    <3>1. pc' = "walk" => depth' = 1 /\ seen' = {r}
      BY <1>5 DEF TakeUp
    <3>2. Cardinality({r}) = 1
      BY FS_Singleton
    <3>3. pc' = "walk" => depth' \in Nat \ {0} /\ depth' <= Cardinality(seen')
      BY <3>1, <3>2
    <3>4. origin' \in Ids
      BY <2>0
    <3> QED
      BY <3>3, <3>4 DEF LevelsSeen
  <2> QED
    BY <1>5, <2>1, <2>2, SearchUntouched DEF TakeUp, store
<1>6. ASSUME NEW r \in Ids, Relate(r) PROVE SearchInv'
  <2>1. LinksTypeOK' /\ LevelsSeen' /\ BeforeSearch'
    BY <1>0, <1>6
    DEF Relate, LinksTypeOK, LevelsSeen, BeforeSearch, store, tarjan, Superseders, Label, Labels
  <2> QED
    BY <1>6, <2>1, SearchUntouched DEF Relate, store
<1>7. CASE Annotate
  <2>1. hints' \subseteq Ids
    BY <1>7 DEF Annotate, Hints, Elsewhere
  <2>2. origin \in Ids /\ links[origin] \subseteq Ids
    BY <1>0, <1>7 DEF Annotate, LevelsSeen, LinksTypeOK
  <2>3. \A t \in DOMAIN labels' : t \in Ids /\ labels'[t] \in Labels
    BY <1>7, <2>2 DEF Annotate, Label, Labels
  <2>4. LinksTypeOK' /\ LevelsSeen' /\ BeforeSearch'
    BY <1>0, <1>7, <2>1, <2>3 DEF Annotate, LinksTypeOK, LevelsSeen, BeforeSearch, store, tarjan, walk
  <2> QED
    BY <1>7, <2>4, SearchUntouched DEF Annotate, store
<1>8. CASE UNCHANGED linksVars
  <2>1. LinksTypeOK' /\ LevelsSeen' /\ BeforeSearch'
    BY <1>0, <1>8 DEF linksVars, LinksTypeOK, LevelsSeen, BeforeSearch, Visited, store, tarjan, walk, told
  <2> QED
    BY <1>8, <2>1, SearchUntouched DEF linksVars, store
<1> QED
  BY <1>1, <1>2, <1>3, <1>4, <1>5, <1>6, <1>7, <1>8, StartKeepsTypes, FollowKeepsTypes,
     CloseKeepsTypes, WalkKeepsTypes
  DEF LinksNext

(* Every reachable state has the declared types, for any number of records and *)
(* any links between them: the search never numbers a record beyond N, finds    *)
(* each record that it closes on the stack, and a walk ends within N levels.   *)
THEOREM LinksTypeCorrect == LinksSpec => []SearchInv
<1>1. LinksInit => SearchInv
  <2> SUFFICES ASSUME LinksInit PROVE SearchInv
    OBVIOUS
  <2>1. N \in Nat /\ Visited = {} /\ OnStack = {} /\ DOMAIN <<>> = {}
    BY NIsNat DEF LinksInit, Visited, OnStack
  <2>2. LinksTypeOK
    BY <2>1, SupersessionAssumption DEF LinksInit, LinksTypeOK, Nobody
  <2>3. LevelsSeen /\ StackOrder /\ WorkOrder /\ BeforeSearch
    BY <2>1 DEF LinksInit, LevelsSeen, StackOrder, WorkOrder, BeforeSearch
  <2>4. Numbered
    BY <2>1, FS_EmptySet DEF Numbered, LinksInit
  <2> QED
    BY <2>2, <2>3, <2>4 DEF SearchInv, SearchOrder
<1> QED
  BY <1>1, LinksTypeStep, PTL DEF LinksSpec

-----------------------------------------------------------------------------
(* Supersession: Tarjan's algorithm *)

(* A record whose component is found.                                          *)
Settled == Visited \ OnStack

(* The link of x to y is one that the search has yet to follow.                *)
Pending(x, y) == \E k \in DOMAIN work : work[k].node = x /\ y \in work[k].rest

(* x was reached from the record of frame k and from none that was opened      *)
(* after it.                                                                   *)
Under(k, x) ==
    /\ index[work[k].node] <= index[x]
    /\ \A j \in DOMAIN work : k < j => index[x] < index[work[j].node]

(* What is settled links to nothing else, and a link from the stack to a       *)
(* record without a number is yet to be followed.                              *)
SettledClosed == \A x \in Settled : Graph(x) \subseteq Settled
LinksFollowed == \A x \in OnStack : \A y \in Graph(x) : y \in Visited \/ Pending(x, y)

(* A record on the stack is reached from every open one that is numbered       *)
(* before it, and reaches one of them.                                         *)
OpenReaches == \A k \in DOMAIN work : \A x \in OnStack :
    index[work[k].node] <= index[x] => x \in Reaches[work[k].node]
ReachesOpen == \A x \in OnStack : \E k \in DOMAIN work :
    index[work[k].node] <= index[x] /\ work[k].node \in Reaches[x]

(* A lowlink is the number of a record on the stack that is reached, and no    *)
(* link followed from below an open record leads lower than its lowlink.       *)
LowIsReached == \A x \in OnStack : \E y \in OnStack :
    index[y] = lowlink[x] /\ y \in Reaches[x] /\ index[y] <= index[x]
LowIsLowest == \A k \in DOMAIN work : \A x \in OnStack : Under(k, x) =>
    \A y \in Graph(x) \cap OnStack : Pending(x, y) \/ lowlink[work[k].node] <= index[y]

(* The cycles of what is settled are those there are, and the search leaves    *)
(* nothing unsettled.                                                          *)
Component(r) == {s \in snap \ {r} : s \in Reaches[r] /\ r \in Reaches[s]}
CyclesOfSettled == \A r \in Settled : cycles[r] = Component(r)
SearchEnded == pc \in {"walk", "annotate", "done"} => work = <<>> /\ snap \subseteq Visited

TarjanOrder == SettledClosed /\ LinksFollowed /\ OpenReaches /\ ReachesOpen
TarjanLow == LowIsReached /\ LowIsLowest
TarjanInv == TarjanOrder /\ TarjanLow /\ CyclesOfSettled /\ SearchEnded

(* Reaches is closed under the links between live records, and the least such. *)
LEMMA ReachesFacts ==
    ASSUME LinksTypeOK
    PROVE  /\ \A r \in Ids : Reaches[r] \subseteq Ids /\ r \in Reaches[r]
           /\ \A r \in Ids : \A s \in Reaches[r] : Graph(s) \subseteq Reaches[r]
           /\ \A r \in Ids : \A s \in Reaches[r] : Reaches[s] \subseteq Reaches[r]
           /\ \A A \in SUBSET Ids : (\A s \in A : Graph(s) \subseteq A) => \A r \in A : Reaches[r] \subseteq A
           /\ \A r : Graph(r) \subseteq snap /\ snap \subseteq Ids
<1> DEFINE next == [r \in Ids |-> Graph(r)]
<1>1. next \in Graphs /\ snap \subseteq Ids /\ \A r : Graph(r) \subseteq snap
  BY DEF LinksTypeOK, Graph, Graphs
<1>2. Reaches = Within(next)[N]
  BY DEF Reaches
<1>3. \A A \in SUBSET Ids : Closed(next, A) <=> \A s \in A : Graph(s) \subseteq A
  BY DEF Closed
<1> HIDE DEF next
<1>4. Reaches \in Graphs
  BY <1>1, <1>2, Reachability
<1>5. \A r \in Ids : r \in Reaches[r] /\ Closed(next, Reaches[r])
  BY <1>1, <1>2, Reachability
<1>6. \A r \in Ids : \A s \in Reaches[r] : Reaches[s] \subseteq Reaches[r]
  BY <1>1, <1>2, Reachability
<1>7. \A A \in SUBSET Ids : Closed(next, A) => \A r \in A : Reaches[r] \subseteq A
  BY <1>1, <1>2, Reachability
<1>8. \A r \in Ids : Reaches[r] \in SUBSET Ids
  BY <1>4 DEF Graphs
<1> QED
  BY <1>1, <1>3, <1>5, <1>6, <1>7, <1>8

LEMMA ReachesStays ==
    ASSUME UNCHANGED <<links, snap>>
    PROVE  Reaches' = Reaches /\ \A r : Graph(r)' = Graph(r)
BY DEF Reaches, Graph

(* What the search found stays found while it and the scan stay as they are.   *)
LEMMA TarjanUntouched ==
    ASSUME TarjanInv, UNCHANGED <<snap, links, tarjan>>, SearchEnded'
    PROVE  TarjanInv'
<1>1. Reaches' = Reaches /\ \A r : Graph(r)' = Graph(r)
  BY ReachesStays
<1>2. UNCHANGED <<index, lowlink, stack, work, cycles>>
  BY DEF tarjan
<1>3. OnStack' = OnStack /\ Visited' = Visited /\ Settled' = Settled
  BY <1>2 DEF OnStack, Visited, Settled
<1>4. TarjanOrder'
  BY <1>1, <1>2, <1>3
  DEF TarjanInv, TarjanOrder, SettledClosed, LinksFollowed, OpenReaches, ReachesOpen, Pending
<1>5. LowIsReached'
  BY <1>1, <1>2, <1>3 DEF TarjanInv, TarjanLow, LowIsReached
<1>6. LowIsLowest'
  BY <1>1, <1>2, <1>3 DEF TarjanInv, TarjanLow, LowIsLowest, Under, Pending
<1>7. CyclesOfSettled'
  BY <1>1, <1>2, <1>3 DEF TarjanInv, CyclesOfSettled, Component
<1> QED
  BY <1>4, <1>5, <1>6, <1>7 DEF TarjanInv, TarjanLow

(* An empty work stack is an empty stack.                                      *)
LEMMA NoneOpen ==
    ASSUME LinksTypeOK, ReachesOpen, work = <<>>
    PROVE  OnStack = {} /\ Settled = Visited
<1>1. DOMAIN work = {}
  OBVIOUS
<1>2. OnStack = {}
  BY <1>1 DEF ReachesOpen
<1> QED
  BY <1>2 DEF Settled

(* The search begins anew only when nothing is open.                           *)
LEMMA StartKeepsTarjan ==
    ASSUME SearchInv, TarjanInv, StartSearch
    PROVE  TarjanInv'
<1>1. PICK r \in snap \ Visited : Visit(r, <<>>)
  BY DEF StartSearch
<1>2. LinksTypeOK /\ Numbered /\ <<>> \in Seq(Frame) /\ Len(<<>>) = 0 /\ r \in Ids
  BY DEF SearchInv, SearchOrder, LinksTypeOK
<1>3. UNCHANGED <<store, pc, snap, archivedIds, cycles, walk, told>> /\ pc = "cycles" /\ work = <<>>
  BY DEF StartSearch, InCycles
<1>4. OnStack = {} /\ Settled = Visited
  BY <1>2, <1>3, NoneOpen DEF TarjanInv, TarjanOrder
<1>5. /\ OnStack' = {r} /\ Visited' = Visited \cup {r}
      /\ index'[r] = Cardinality(Visited) + 1 /\ lowlink'[r] = index'[r]
      /\ Len(work') = 0 + 1 /\ work' \in Seq(Frame)
  BY <1>1, <1>2, <1>4, VisitEffect
<1>6. work'[0 + 1] = [node |-> r, rest |-> Graph(r)]
  BY <1>1, <1>2, VisitEffect
<1>7. DOMAIN work' = {1} /\ work'[1].node = r /\ work'[1].rest = Graph(r)
  BY <1>5, <1>6
<1>8. Settled' = Settled
  BY <1>4, <1>5 DEF Settled
<1>9. Reaches' = Reaches /\ \A s : Graph(s)' = Graph(s)
  BY <1>3, ReachesStays DEF store
<1>10. index'[r] \in Nat /\ r \in Reaches[r]
  BY <1>2, <1>5, VisitedFinite, ReachesFacts
<1>11. SettledClosed' /\ CyclesOfSettled' /\ SearchEnded'
  BY <1>3, <1>8, <1>9 DEF TarjanInv, TarjanOrder, SettledClosed, CyclesOfSettled, Component, SearchEnded
<1>12. \A y \in Graph(r) : Pending(r, y)'
  BY <1>7 DEF Pending
<1>13. LinksFollowed' /\ LowIsLowest'
  BY <1>5, <1>9, <1>12 DEF LinksFollowed, LowIsLowest
<1>14. OpenReaches' /\ ReachesOpen' /\ LowIsReached'
  BY <1>5, <1>7, <1>9, <1>10 DEF OpenReaches, ReachesOpen, LowIsReached
<1> QED
  BY <1>11, <1>13, <1>14 DEF TarjanInv, TarjanOrder, TarjanLow

(* A lowlink is never above the record's own number.                           *)
LEMMA LowIsLow ==
    ASSUME LowIsReached
    PROVE  \A x \in OnStack : lowlink[x] <= index[x]
BY DEF LowIsReached

(* A link to a record that no search has reached.                              *)
LEMMA PushKeepsTarjan ==
    ASSUME SearchInv, TarjanInv, NEW w \in Ids, FollowLink(w), w \notin Visited, Visit(w, Followed(w))
    PROVE  TarjanInv'
<1> DEFINE v == Top.node
           top == Len(work)
<1>1. /\ LinksTypeOK /\ Numbered /\ WorkOrder /\ work # <<>> /\ w \in Top.rest
      /\ TarjanOrder /\ TarjanLow
  BY DEF SearchInv, SearchOrder, FollowLink, TarjanInv
<1>2. UNCHANGED <<store, pc, snap, archivedIds, cycles, walk, told>> /\ pc = "cycles"
  BY DEF FollowLink, InCycles
<1>3. /\ Followed(w) \in Seq(Frame) /\ Len(Followed(w)) = Len(work)
      /\ \A k \in DOMAIN work : Followed(w)[k].node = work[k].node
      /\ \A k \in DOMAIN work : k # Len(work) => Followed(w)[k].rest = work[k].rest
      /\ Followed(w)[Len(work)].rest = Top.rest \ {w}
  BY <1>1, FramesEffect
<1>4. /\ top \in DOMAIN work /\ Top = work[top] /\ v \in Ids /\ v \in OnStack
      /\ DOMAIN work = 1..top /\ top \in Nat /\ OnStack \subseteq Ids
      /\ \A k \in DOMAIN work : work[k].node \in Ids /\ work[k].node \in OnStack
      /\ \A r \in Ids : index[r] \in Nat /\ lowlink[r] \in Nat
  BY <1>1, StacksTyped DEF Frame, WorkOrder
<1>5. w \in Graph(v) /\ w \in snap \ Visited
  BY <1>1, <1>4 DEF WorkOrder, Graph
<1>6. /\ work' \in Seq(Frame) /\ OnStack' = OnStack \cup {w} /\ Visited' = Visited \cup {w}
      /\ index'[w] = Cardinality(Visited) + 1 /\ lowlink'[w] = index'[w]
      /\ \A s \in Ids \ {w} : index'[s] = index[s] /\ lowlink'[s] = lowlink[s]
  BY <1>1, <1>3, <1>5, VisitEffect
<1>7. /\ Len(work') = Len(Followed(w)) + 1
      /\ work'[Len(Followed(w)) + 1] = [node |-> w, rest |-> Graph(w)]
      /\ \A k \in 1..Len(Followed(w)) : work'[k] = Followed(w)[k]
  BY <1>1, <1>3, <1>5, VisitEffect
<1>8. /\ DOMAIN work' = 1..(top + 1) /\ top + 1 \in DOMAIN work'
      /\ \A k \in DOMAIN work' : k \in DOMAIN work \/ k = top + 1
      /\ \A k \in DOMAIN work : k \in DOMAIN work' /\ k < top + 1 /\ work'[k].node = work[k].node
      /\ \A k \in DOMAIN work : k # top => work'[k].rest = work[k].rest
      /\ work'[top].rest = Top.rest \ {w}
      /\ work'[top + 1].node = w /\ work'[top + 1].rest = Graph(w)
  BY <1>3, <1>4, <1>6, <1>7
<1> HIDE DEF top, v
<1>9. /\ \A x \in OnStack : x # w /\ index'[x] = index[x] /\ lowlink'[x] = lowlink[x] /\ index[x] < index'[w]
      /\ \A k \in DOMAIN work : work[k].node # w /\ index'[work[k].node] = index[work[k].node]
  <2>1. w \notin OnStack /\ Cardinality(Visited) \in Nat
    BY <1>1, <1>5, VisitedFinite DEF Numbered
  <2>2. \A x \in OnStack : x \in Ids \ {w} /\ index[x] <= Cardinality(Visited)
    BY <1>1, <1>4, <2>1 DEF Numbered
  <2> QED
    BY <1>4, <1>6, <2>1, <2>2
<1>9a. index'[w] \in Nat
  BY <1>1, <1>6, VisitedFinite
<1>10. Reaches' = Reaches /\ \A s : Graph(s)' = Graph(s)
  BY <1>2, ReachesStays DEF store
<1>11. Settled' = Settled
  BY <1>5, <1>6 DEF Settled
<1>12. \A x, y : Pending(x, y) => Pending(x, y)' \/ (x = v /\ y = w)
  <2> SUFFICES ASSUME NEW x, NEW y, NEW k \in DOMAIN work, work[k].node = x, y \in work[k].rest, x # v \/ y # w
               PROVE  Pending(x, y)'
    BY DEF Pending
  <2>1. k \in DOMAIN work' /\ work'[k].node = x /\ y \in work'[k].rest
    BY <1>4, <1>8 DEF v
  <2> QED
    BY <2>1 DEF Pending
<1>13. \A y \in Graph(w) : Pending(w, y)'
  BY <1>8 DEF Pending
<1>14. SettledClosed' /\ CyclesOfSettled' /\ SearchEnded'
  BY <1>1, <1>2, <1>10, <1>11
  DEF TarjanInv, TarjanOrder, SettledClosed, CyclesOfSettled, Component, SearchEnded
<1>15. LinksFollowed'
  <2>1. \A x \in OnStack : \A y \in Graph(x) : y \in Visited' \/ Pending(x, y)'
    BY <1>1, <1>6, <1>12 DEF TarjanOrder, LinksFollowed
  <2> QED
    BY <1>6, <1>10, <1>13, <2>1 DEF LinksFollowed
<1>16. OpenReaches'
  <2> SUFFICES ASSUME NEW k \in DOMAIN work', NEW x \in OnStack', index'[work'[k].node] <= index'[x]
               PROVE  x \in Reaches[work'[k].node]
    BY <1>10 DEF OpenReaches
  <2>1. CASE k = top + 1
    <3>1. x = w
      <4>1. work'[k].node = w
        BY <1>8, <2>1
      <4>2. ~(index'[w] <= index'[x]) \/ x \notin OnStack
        BY <1>4, <1>9, <1>9a
      <4> QED
        BY <1>6, <4>1, <4>2
    <3> QED
      BY <1>1, <1>8, <2>1, <3>1, ReachesFacts
  <2>2. CASE k \in DOMAIN work /\ x \in OnStack
    BY <1>1, <1>8, <1>9, <2>2 DEF TarjanOrder, OpenReaches
  <2>3. CASE k \in DOMAIN work /\ x = w
    <3>1. index[work[k].node] <= index[v]
      BY <1>1, <1>4, <2>3 DEF WorkOrder, v
    <3>2. v \in Reaches[work[k].node]
      BY <1>1, <1>4, <2>3, <3>1 DEF TarjanOrder, OpenReaches
    <3> QED
      BY <1>1, <1>4, <1>5, <1>8, <2>3, <3>2, ReachesFacts
  <2> QED
    BY <1>6, <1>8, <2>1, <2>2, <2>3
<1>17. ReachesOpen'
  <2> SUFFICES ASSUME NEW x \in OnStack'
               PROVE  \E k \in DOMAIN work' : index'[work'[k].node] <= index'[x] /\ work'[k].node \in Reaches[x]
    BY <1>10 DEF ReachesOpen
  <2>1. CASE x = w
    BY <1>1, <1>6, <1>8, <2>1, VisitedFinite, ReachesFacts
  <2>2. CASE x \in OnStack
    <3>1. PICK k \in DOMAIN work : index[work[k].node] <= index[x] /\ work[k].node \in Reaches[x]
      BY <1>1, <2>2 DEF TarjanOrder, ReachesOpen
    <3> QED
      BY <1>8, <1>9, <2>2, <3>1
  <2> QED
    BY <1>6, <2>1, <2>2
<1>18. LowIsReached'
  <2> SUFFICES ASSUME NEW x \in OnStack'
               PROVE  \E y \in OnStack' : index'[y] = lowlink'[x] /\ y \in Reaches[x] /\ index'[y] <= index'[x]
    BY <1>10 DEF LowIsReached
  <2>1. CASE x = w
    BY <1>1, <1>6, <2>1, VisitedFinite, ReachesFacts
  <2>2. CASE x \in OnStack
    <3>1. PICK y \in OnStack : index[y] = lowlink[x] /\ y \in Reaches[x] /\ index[y] <= index[x]
      BY <1>1, <2>2 DEF TarjanLow, LowIsReached
    <3> QED
      BY <1>6, <1>9, <2>2, <3>1
  <2> QED
    BY <1>6, <2>1, <2>2
<1>19. LowIsLowest'
  <2> SUFFICES ASSUME NEW k \in DOMAIN work', NEW x \in OnStack', Under(k, x)',
                      NEW y \in Graph(x), y \in OnStack'
               PROVE  Pending(x, y)' \/ lowlink'[work'[k].node] <= index'[y]
    BY <1>10 DEF LowIsLowest
  <2>0. /\ index'[work'[k].node] <= index'[x]
        /\ \A j \in DOMAIN work' : k < j => index'[x] < index'[work'[j].node]
    BY DEF Under
  <2>1. CASE x = w
    BY <1>13, <2>1
  <2>2. CASE x \in OnStack
    <3>1. k \in DOMAIN work
      <4>1. k = top + 1 => work'[k].node = w
        BY <1>8
      <4>2. ~(index'[w] <= index'[x])
        BY <1>4, <1>9, <1>9a, <2>2
      <4> QED
        BY <1>8, <2>0, <4>1, <4>2
    <3>2. Under(k, x)
      BY <1>8, <1>9, <2>0, <2>2, <3>1 DEF Under
    <3>3. lowlink'[work'[k].node] = lowlink[work[k].node]
      BY <1>4, <1>8, <1>9, <3>1
    <3>4. CASE y = w
      BY <1>1, <1>4, <1>6, <1>9, <3>1, <3>3, <3>4, LowIsLow, VisitedFinite DEF TarjanLow
    <3>5. CASE y \in OnStack
      <4>1. Pending(x, y) \/ lowlink[work[k].node] <= index[y]
        BY <1>1, <2>2, <3>1, <3>2, <3>5 DEF TarjanLow, LowIsLowest
      <4> QED
        BY <1>9, <1>12, <3>3, <3>5, <4>1
    <3> QED
      BY <1>6, <3>4, <3>5
  <2> QED
    BY <1>6, <2>1, <2>2
<1> QED
  BY <1>14, <1>15, <1>16, <1>17, <1>18, <1>19 DEF TarjanInv, TarjanOrder, TarjanLow

(* A link to a record that was reached before: on the stack it lowers the      *)
(* lowlink, and one whose component is found is passed over.                   *)
LEMMA AdvanceKeepsTarjan ==
    ASSUME SearchInv, TarjanInv, NEW w \in Ids, FollowLink(w), w \in Visited,
           work' = Followed(w), UNCHANGED <<index, stack>>,
           \A x \in Ids : \/ lowlink'[x] = lowlink[x]
                          \/ x = Top.node /\ w \in OnStack /\ lowlink'[x] = index[w] /\ index[w] <= lowlink[x],
           w \in OnStack => lowlink'[Top.node] <= index[w]
    PROVE  TarjanInv'
<1> DEFINE v == Top.node
           top == Len(work)
<1>1. /\ LinksTypeOK /\ Numbered /\ WorkOrder /\ work # <<>> /\ w \in Top.rest
      /\ TarjanOrder /\ TarjanLow
  BY DEF SearchInv, SearchOrder, FollowLink, TarjanInv
<1>2. UNCHANGED <<store, pc, snap, archivedIds, cycles, walk, told>> /\ pc = "cycles"
  BY DEF FollowLink, InCycles
<1>3. /\ top \in DOMAIN work /\ Top = work[top] /\ v \in Ids /\ v \in OnStack
      /\ DOMAIN work = 1..top /\ top \in Nat /\ OnStack \subseteq Ids
      /\ \A k \in DOMAIN work : work[k].node \in Ids /\ work[k].node \in OnStack
      /\ \A r \in Ids : index[r] \in Nat /\ lowlink[r] \in Nat
  BY <1>1, StacksTyped DEF Frame, WorkOrder
<1>4. /\ DOMAIN work' = DOMAIN work
      /\ \A k \in DOMAIN work : work'[k].node = work[k].node
      /\ \A k \in DOMAIN work : k # top => work'[k].rest = work[k].rest
      /\ work'[top].rest = Top.rest \ {w}
  BY <1>1, FramesEffect
<1>5. w \in Graph(v)
  BY <1>1, <1>3 DEF WorkOrder
<1>6. OnStack' = OnStack /\ Visited' = Visited /\ Settled' = Settled
  BY DEF OnStack, Visited, Settled
<1>7. Reaches' = Reaches /\ \A s : Graph(s)' = Graph(s)
  BY <1>2, ReachesStays DEF store
<1>8. /\ \A x \in Ids : \/ lowlink'[x] = lowlink[x]
                        \/ x = v /\ w \in OnStack /\ lowlink'[x] = index[w] /\ index[w] <= lowlink[x]
      /\ w \in OnStack => lowlink'[v] <= index[w]
  OBVIOUS
<1> HIDE DEF top, v
<1>9. \A x, y : Pending(x, y) => Pending(x, y)' \/ (x = v /\ y = w)
  <2> SUFFICES ASSUME NEW x, NEW y, NEW k \in DOMAIN work, work[k].node = x, y \in work[k].rest, x # v \/ y # w
               PROVE  Pending(x, y)'
    BY DEF Pending
  <2>1. k \in DOMAIN work' /\ work'[k].node = x /\ y \in work'[k].rest
    BY <1>3, <1>4 DEF v
  <2> QED
    BY <2>1 DEF Pending
<1>10. SettledClosed' /\ CyclesOfSettled' /\ SearchEnded'
  BY <1>1, <1>2, <1>6, <1>7
  DEF TarjanInv, TarjanOrder, SettledClosed, CyclesOfSettled, Component, SearchEnded
<1>11. LinksFollowed'
  BY <1>1, <1>6, <1>7, <1>9 DEF TarjanOrder, LinksFollowed
<1>12. OpenReaches' /\ ReachesOpen'
  BY <1>1, <1>4, <1>6, <1>7 DEF TarjanOrder, OpenReaches, ReachesOpen
<1>13. LowIsReached'
  <2> SUFFICES ASSUME NEW x \in OnStack
               PROVE  \E y \in OnStack : index[y] = lowlink'[x] /\ y \in Reaches[x] /\ index[y] <= index[x]
    BY <1>6, <1>7 DEF LowIsReached
  <2>1. CASE lowlink'[x] = lowlink[x]
    BY <1>1, <2>1 DEF TarjanLow, LowIsReached
  <2>2. CASE x = v /\ w \in OnStack /\ lowlink'[x] = index[w] /\ index[w] <= lowlink[x]
    <3>1. w \in Reaches[x]
      BY <1>1, <1>3, <1>5, <2>2, ReachesFacts
    <3>2. index[w] <= index[x]
      <4>1. lowlink[x] <= index[x]
        BY <1>1, LowIsLow DEF TarjanLow
      <4> QED
        BY <1>3, <2>2, <4>1
    <3> QED
      BY <2>2, <3>1, <3>2
  <2> QED
    BY <1>3, <1>8, <2>1, <2>2
<1>14. LowIsLowest'
  <2> SUFFICES ASSUME NEW k \in DOMAIN work, NEW x \in OnStack, Under(k, x)',
                      NEW y \in Graph(x) \cap OnStack
               PROVE  Pending(x, y)' \/ lowlink'[work[k].node] <= index[y]
    BY <1>4, <1>6, <1>7 DEF LowIsLowest
  <2>1. Under(k, x)
    BY <1>4 DEF Under
  <2>2. Pending(x, y) \/ lowlink[work[k].node] <= index[y]
    BY <1>1, <2>1 DEF TarjanLow, LowIsLowest
  <2>3. lowlink'[work[k].node] \in Nat /\ lowlink'[work[k].node] <= lowlink[work[k].node]
    BY <1>3, <1>8
  <2>4. CASE lowlink[work[k].node] <= index[y]
    BY <1>3, <2>3, <2>4
  <2>5. CASE Pending(x, y) /\ x = v /\ y = w
    <3>1. k = top
      <4>1. work[top].node = v /\ index[v] \in Nat
        BY <1>3 DEF v
      <4>2. ~(k < top)
        BY <1>3, <2>1, <2>5, <4>1 DEF Under
      <4> QED
        BY <1>3, <4>2
    <3> QED
      BY <1>3, <1>8, <2>5, <3>1 DEF v
  <2> QED
    BY <1>9, <2>2, <2>4, <2>5
<1> QED
  BY <1>10, <1>11, <1>12, <1>13, <1>14 DEF TarjanInv, TarjanOrder, TarjanLow

(* A link is followed: to a new record, or to one that is numbered.            *)
LEMMA FollowKeepsTarjan ==
    ASSUME SearchInv, TarjanInv, NEW w \in Ids, FollowLink(w)
    PROVE  TarjanInv'
<1>1. LinksTypeOK /\ work # <<>>
  BY DEF SearchInv, FollowLink
<1>2. Top.node \in Ids /\ lowlink \in [Ids -> 0..N] /\ \A r \in Ids : index[r] \in Nat /\ lowlink[r] \in Nat
  BY <1>1, StacksTyped DEF Frame, LinksTypeOK
<1>3. OnStack \subseteq Visited
  BY DEF SearchInv, SearchOrder, Numbered
<1>4. \/ w \notin Visited /\ Visit(w, Followed(w))
      \/ /\ w \in OnStack /\ lowlink' = [lowlink EXCEPT ![Top.node] = Lower(@, index[w])]
         /\ work' = Followed(w) /\ UNCHANGED <<index, stack>>
      \/ w \in Visited \ OnStack /\ work' = Followed(w) /\ UNCHANGED <<index, lowlink, stack>>
  BY DEF FollowLink, Followed
<1>5. CASE w \notin Visited /\ Visit(w, Followed(w))
  BY <1>5, PushKeepsTarjan
<1>6. CASE /\ w \in OnStack /\ lowlink' = [lowlink EXCEPT ![Top.node] = Lower(@, index[w])]
           /\ work' = Followed(w) /\ UNCHANGED <<index, stack>>
  <2>1. /\ lowlink'[Top.node] = Lower(lowlink[Top.node], index[w])
        /\ \A x \in Ids : x # Top.node => lowlink'[x] = lowlink[x]
    BY <1>2, <1>6
  <2>2. /\ \A x \in Ids : \/ lowlink'[x] = lowlink[x]
                          \/ x = Top.node /\ w \in OnStack /\ lowlink'[x] = index[w] /\ index[w] <= lowlink[x]
        /\ lowlink'[Top.node] <= index[w]
    BY <1>2, <1>6, <2>1 DEF Lower
  <2> QED
    BY <1>3, <1>6, <2>2, AdvanceKeepsTarjan
<1>7. CASE w \in Visited \ OnStack /\ work' = Followed(w) /\ UNCHANGED <<index, lowlink, stack>>
  BY <1>7, AdvanceKeepsTarjan
<1> QED
  BY <1>4, <1>5, <1>6, <1>7

(* What all closed records have in common: v is open above every other open    *)
(* record, and has no links left to follow.                                    *)
LEMMA ClosingFacts ==
    ASSUME SearchInv, TarjanInv, CloseRecord
    PROVE  LET v == Top.node
               top == Len(work)
           IN  /\ v \in OnStack /\ v \in Ids /\ top \in Nat \ {0} /\ work[top].node = v
               /\ DOMAIN work = 1..top /\ DOMAIN work' = 1..(top - 1)
               /\ \A k \in DOMAIN work' : work'[k] = work[k] /\ k \in DOMAIN work /\ k < top
               /\ \A k \in DOMAIN work : /\ work[k].node \in Ids /\ work[k].node \in OnStack
                                         /\ k # top => index[work[k].node] < index[v]
               /\ \A r \in Ids : index[r] \in Nat /\ lowlink[r] \in Nat
               /\ OnStack \subseteq Ids /\ lowlink[v] <= index[v]
               /\ \A x, y : Pending(x, y) => Pending(x, y)'
               /\ \A x \in OnStack : Under(top, x) <=> index[v] <= index[x]
<1> DEFINE v == Top.node
           top == Len(work)
<1>1. /\ LinksTypeOK /\ SearchOrder /\ WorkOrder /\ TarjanOrder /\ TarjanLow
  BY DEF SearchInv, SearchOrder, TarjanInv
<1>2. /\ v \in OnStack /\ v \in Ids /\ Top.rest = {} /\ work # <<>>
      /\ DOMAIN work' = 1..(top - 1) /\ DOMAIN work = 1..top
      /\ \A k \in DOMAIN work' : work'[k] = work[k]
  BY <1>1, CloseEffect
<1>3. /\ top \in Nat \ {0} /\ Top = work[top] /\ OnStack \subseteq Ids /\ top \in DOMAIN work
      /\ \A k \in DOMAIN work : work[k].node \in Ids
      /\ \A r \in Ids : index[r] \in Nat /\ lowlink[r] \in Nat
  BY <1>1, <1>2, StacksTyped
<1> HIDE DEF top
<1>4. \A k \in DOMAIN work' : work'[k] = work[k] /\ k \in DOMAIN work /\ k < top
  BY <1>2, <1>3
<1>5. \A k \in DOMAIN work : work[k].node \in OnStack /\ (k # top => index[work[k].node] < index[v])
  BY <1>1, <1>2, <1>3 DEF WorkOrder
<1>6. lowlink[v] <= index[v]
  BY <1>1, <1>2, LowIsLow DEF TarjanLow
<1>7. \A x, y : Pending(x, y) => Pending(x, y)'
  <2> SUFFICES ASSUME NEW x, NEW y, NEW k \in DOMAIN work, work[k].node = x, y \in work[k].rest
               PROVE  Pending(x, y)'
    BY DEF Pending
  <2>1. k \in DOMAIN work'
    BY <1>2, <1>3
  <2> QED
    BY <1>2, <2>1 DEF Pending
<1>8. \A x \in OnStack : Under(top, x) <=> index[v] <= index[x]
  BY <1>2, <1>3 DEF Under
<1> QED
  BY <1>2, <1>3, <1>4, <1>5, <1>6, <1>7, <1>8

(* A record that reaches one numbered before it stays on the stack, and its    *)
(* lowlink goes to the record that it was reached from.                        *)
LEMMA ReturnKeepsTarjan ==
    ASSUME SearchInv, TarjanInv, CloseRecord, lowlink[Top.node] # index[Top.node]
    PROVE  TarjanInv'
<1> DEFINE v == Top.node
           top == Len(work)
           p == work[top - 1].node
<1>1. /\ LinksTypeOK /\ SearchOrder /\ TarjanOrder /\ TarjanLow
  BY DEF SearchInv, TarjanInv
<1>2. UNCHANGED <<store, pc, snap, archivedIds, walk, told, index>> /\ pc = "cycles"
  BY DEF CloseRecord, InCycles
<1>3. /\ v \in OnStack /\ v \in Ids /\ top \in Nat \ {0} /\ work[top].node = v
      /\ DOMAIN work = 1..top /\ DOMAIN work' = 1..(top - 1)
      /\ \A k \in DOMAIN work' : work'[k] = work[k] /\ k \in DOMAIN work /\ k < top
      /\ \A k \in DOMAIN work : work[k].node \in Ids /\ work[k].node \in OnStack
      /\ \A r \in Ids : index[r] \in Nat /\ lowlink[r] \in Nat
  BY ClosingFacts
<1>4. /\ \A k \in DOMAIN work : k # top => index[work[k].node] < index[v]
      /\ OnStack \subseteq Ids /\ lowlink[v] <= index[v]
      /\ \A x, y : Pending(x, y) => Pending(x, y)'
      /\ \A x \in OnStack : Under(top, x) <=> index[v] <= index[x]
  BY ClosingFacts
<1>6. UNCHANGED <<stack, cycles>> /\ work' = SubSeq(work, 1, top - 1)
      /\ lowlink' = IF work' = <<>> THEN lowlink
                    ELSE [lowlink EXCEPT ![work'[Len(work')].node] = Lower(@, lowlink[v])]
  BY DEF CloseRecord
<1>7. Len(work') = top - 1 /\ (work' = <<>> <=> top = 1)
  <2>1. Len(work') = top - 1
    BY <1>1, CloseEffect
  <2> QED
    BY <1>3, <1>6, <2>1
<1> HIDE DEF top, v
<1>8. PICK low \in OnStack : index[low] = lowlink[v] /\ low \in Reaches[v] /\ index[low] < index[v]
  <2>1. PICK y \in OnStack : index[y] = lowlink[v] /\ y \in Reaches[v] /\ index[y] <= index[v]
    BY <1>1, <1>3 DEF TarjanLow, LowIsReached
  <2> QED
    BY <1>3, <1>4, <2>1 DEF v
<1>9. PICK below \in DOMAIN work' : index[work[below].node] <= index[low] /\ work[below].node \in Reaches[v]
  <2>1. PICK k \in DOMAIN work : index[work[k].node] <= index[low] /\ work[k].node \in Reaches[low]
    BY <1>1, <1>8 DEF TarjanOrder, ReachesOpen
  <2>2. k # top
    BY <1>3, <1>4, <1>8, <2>1
  <2>3. work[k].node \in Reaches[v]
    BY <1>1, <1>3, <1>8, <2>1, ReachesFacts
  <2> QED
    BY <1>3, <2>1, <2>2, <2>3
<1>10. /\ top - 1 \in DOMAIN work' /\ top - 1 \in DOMAIN work /\ work' # <<>>
       /\ p \in Ids /\ p \in OnStack /\ index[p] < index[v]
  <2>1. top - 1 \in DOMAIN work' /\ top # 1
    BY <1>3, <1>9
  <2>2. top - 1 \in DOMAIN work /\ top - 1 # top /\ work' # <<>>
    BY <1>3, <1>7, <2>1
  <2> QED
    BY <1>3, <1>4, <2>1, <2>2
<1>11. /\ lowlink'[p] = Lower(lowlink[p], lowlink[v]) /\ \A x \in Ids : x # p => lowlink'[x] = lowlink[x]
       /\ work'[top - 1].node = p
  <2>1. lowlink' = [lowlink EXCEPT ![p] = Lower(@, lowlink[v])]
    BY <1>3, <1>6, <1>7, <1>10
  <2>2. lowlink \in [Ids -> 0..N]
    BY <1>1 DEF LinksTypeOK
  <2> HIDE DEF p
  <2>3. lowlink'[p] = Lower(lowlink[p], lowlink[v]) /\ \A x \in Ids : x # p => lowlink'[x] = lowlink[x]
    BY <1>10, <2>1, <2>2
  <2> QED
    BY <1>3, <1>10, <2>3 DEF p
<1> HIDE DEF p
<1>12. OnStack' = OnStack /\ Visited' = Visited /\ Settled' = Settled
  BY <1>2, <1>6 DEF OnStack, Visited, Settled
<1>13. Reaches' = Reaches /\ \A s : Graph(s)' = Graph(s)
  BY <1>2, ReachesStays DEF store
<1>14. SettledClosed' /\ CyclesOfSettled' /\ SearchEnded'
  BY <1>1, <1>2, <1>6, <1>12, <1>13
  DEF TarjanInv, TarjanOrder, SettledClosed, CyclesOfSettled, Component, SearchEnded
<1>15. LinksFollowed'
  BY <1>1, <1>4, <1>12, <1>13 DEF TarjanOrder, LinksFollowed
<1>16. OpenReaches'
  BY <1>1, <1>2, <1>3, <1>12, <1>13 DEF TarjanOrder, OpenReaches
<1>17. ReachesOpen'
  <2> SUFFICES ASSUME NEW x \in OnStack
               PROVE  \E k \in DOMAIN work' : index[work[k].node] <= index[x] /\ work[k].node \in Reaches[x]
    BY <1>2, <1>3, <1>12, <1>13 DEF ReachesOpen
  <2>1. PICK k \in DOMAIN work : index[work[k].node] <= index[x] /\ work[k].node \in Reaches[x]
    BY <1>1 DEF TarjanOrder, ReachesOpen
  <2>2. CASE k = top
    <3>1. work[below].node \in Reaches[x]
      BY <1>1, <1>3, <1>4, <1>9, <2>1, <2>2, ReachesFacts
    <3>2. index[work[below].node] <= index[x]
      BY <1>3, <1>4, <2>1, <2>2
    <3> QED
      BY <3>1, <3>2
  <2>3. CASE k # top
    BY <1>3, <2>1, <2>3
  <2> QED
    BY <2>2, <2>3
<1>18. LowIsReached'
  <2> SUFFICES ASSUME NEW x \in OnStack
               PROVE  \E y \in OnStack : index[y] = lowlink'[x] /\ y \in Reaches[x] /\ index[y] <= index[x]
    BY <1>2, <1>12, <1>13 DEF LowIsReached
  <2>1. CASE lowlink'[x] = lowlink[x]
    BY <1>1, <2>1 DEF TarjanLow, LowIsReached
  <2>2. CASE lowlink'[x] # lowlink[x]
    <3>1. x = p /\ lowlink'[x] = lowlink[v] /\ lowlink[v] < lowlink[p]
      BY <1>3, <1>4, <1>10, <1>11, <2>2 DEF Lower
    <3>2. v \in Reaches[p]
      <4>1. index[work[top - 1].node] <= index[v]
        BY <1>3, <1>10 DEF p
      <4> QED
        BY <1>1, <1>3, <1>10, <4>1 DEF TarjanOrder, OpenReaches, p
    <3>3. low \in Reaches[p]
      BY <1>1, <1>8, <1>10, <3>2, ReachesFacts
    <3>4. lowlink[p] <= index[p]
      BY <1>1, <1>10, LowIsLow DEF TarjanLow
    <3>5. index[low] <= index[p]
      BY <1>3, <1>8, <1>10, <3>1, <3>4
    <3> QED
      BY <1>8, <3>1, <3>3, <3>5
  <2> QED
    BY <2>1, <2>2
<1>19. LowIsLowest'
  <2> SUFFICES ASSUME NEW k \in DOMAIN work', NEW x \in OnStack, Under(k, x)',
                      NEW y \in Graph(x) \cap OnStack
               PROVE  Pending(x, y)' \/ lowlink'[work[k].node] <= index[y]
    BY <1>2, <1>3, <1>12, <1>13 DEF LowIsLowest
  <2>1. /\ index[work[k].node] <= index[x]
        /\ \A j \in DOMAIN work' : k < j => index[x] < index[work[j].node]
    BY <1>2, <1>3 DEF Under
  <2>2. /\ k \in DOMAIN work /\ lowlink'[work[k].node] \in Nat
        /\ lowlink'[work[k].node] <= lowlink[work[k].node]
    BY <1>3, <1>10, <1>11 DEF Lower
  <2>3. CASE index[x] < index[v]
    <3>1. Under(k, x)
      BY <1>3, <2>1, <2>2, <2>3 DEF Under
    <3>2. Pending(x, y) \/ lowlink[work[k].node] <= index[y]
      BY <1>1, <2>2, <3>1 DEF TarjanLow, LowIsLowest
    <3>3. lowlink[work[k].node] \in Nat /\ index[y] \in Nat
      BY <1>3, <1>4, <2>2
    <3> QED
      BY <1>4, <2>2, <3>2, <3>3
  <2>4. CASE index[v] <= index[x]
    <3>1. Pending(x, y) \/ lowlink[work[top].node] <= index[y]
      <4>1. Under(top, x) /\ top \in DOMAIN work
        BY <1>3, <1>4, <2>4
      <4> QED
        BY <1>1, <4>1 DEF TarjanLow, LowIsLowest
    <3>2. k = top - 1
      <4>1. index[p] < index[x]
        BY <1>3, <1>4, <1>10, <2>4
      <4>2. k < top - 1 => index[x] < index[p]
        BY <1>10, <2>1 DEF p
      <4> QED
        BY <1>3, <1>4, <1>10, <4>1, <4>2
    <3>3. lowlink'[work[k].node] <= lowlink[v]
      BY <1>3, <1>10, <1>11, <3>2 DEF Lower, p
    <3>4. lowlink[v] \in Nat /\ index[y] \in Nat /\ work[top].node = v
      BY <1>3, <1>4
    <3> QED
      BY <1>4, <2>2, <3>1, <3>3, <3>4
  <2> QED
    BY <1>3, <1>4, <2>3, <2>4
<1> QED
  BY <1>14, <1>15, <1>16, <1>17, <1>18, <1>19 DEF TarjanInv, TarjanOrder, TarjanLow

(* What is on the stack from v upwards is the component of v: nothing else on  *)
(* the stack is reached from it, and each reaches all the others.              *)
LEMMA ComponentFound ==
    ASSUME SearchInv, TarjanInv, CloseRecord, lowlink[Top.node] = index[Top.node],
           NEW component, component = {r \in OnStack : index[r] >= index[Top.node]}
    PROVE  /\ \A x \in component : Graph(x) \subseteq component \cup Settled
           /\ \A x \in component : component \ {x} = Component(x)
<1> DEFINE v == Top.node
           top == Len(work)
<1>1. /\ LinksTypeOK /\ Numbered /\ TarjanOrder /\ TarjanLow
  BY DEF SearchInv, SearchOrder, TarjanInv
<1>2. /\ v \in OnStack /\ v \in Ids /\ top \in Nat \ {0} /\ work[top].node = v
      /\ DOMAIN work = 1..top /\ DOMAIN work' = 1..(top - 1)
      /\ \A k \in DOMAIN work' : work'[k] = work[k] /\ k \in DOMAIN work /\ k < top
      /\ \A k \in DOMAIN work : work[k].node \in Ids /\ work[k].node \in OnStack
      /\ \A r \in Ids : index[r] \in Nat /\ lowlink[r] \in Nat
  BY ClosingFacts
<1>3. /\ \A k \in DOMAIN work : k # top => index[work[k].node] < index[v]
      /\ OnStack \subseteq Ids
      /\ \A x, y : Pending(x, y) => Pending(x, y)'
      /\ \A x \in OnStack : Under(top, x) <=> index[v] <= index[x]
  BY ClosingFacts
<1>4. component \subseteq OnStack /\ v \in component /\ \A x \in component : index[v] <= index[x]
  BY <1>2
<1>5. \A x \in OnStack : index[v] <= index[x] => x \in component
  BY <1>2, <1>3
<1>6. lowlink[v] = index[v]
  OBVIOUS
<1> HIDE DEF top, v
<1>7. ASSUME NEW x \in component, NEW y \in Graph(x) PROVE y \in component \cup Settled
  <2>1. ~Pending(x, y)
    <3> SUFFICES ASSUME Pending(x, y) PROVE FALSE
      OBVIOUS
    <3>1. PICK k \in DOMAIN work' : work'[k].node = x
      BY <1>3 DEF Pending
    <3> QED
      BY <1>2, <1>3, <1>4, <3>1
  <2>2. y \in Visited
    BY <1>1, <1>4, <2>1 DEF TarjanOrder, LinksFollowed
  <2>3. CASE y \in OnStack
    <3>1. top \in DOMAIN work /\ Under(top, x)
      BY <1>2, <1>3, <1>4
    <3>2. lowlink[v] <= index[y]
      BY <1>1, <1>2, <1>4, <2>1, <2>3, <3>1 DEF TarjanLow, LowIsLowest
    <3> QED
      BY <1>5, <1>6, <2>3, <3>2
  <2>4. CASE y \notin OnStack
    BY <2>2, <2>4 DEF Settled
  <2> QED
    BY <2>3, <2>4
<1>8. component \cup Settled \in SUBSET Ids /\ Settled \in SUBSET Ids
  BY <1>3, <1>4 DEF Settled, Visited
<1>9. \A r \in Settled : Reaches[r] \subseteq Settled
  BY <1>1, <1>8, ReachesFacts DEF TarjanOrder, SettledClosed
<1>10. \A x \in component : Reaches[x] \subseteq component \cup Settled
  <2>1. \A x \in component \cup Settled : Graph(x) \subseteq component \cup Settled
    BY <1>1, <1>7 DEF TarjanOrder, SettledClosed
  <2> QED
    BY <1>1, <1>8, <2>1, ReachesFacts
<1>11. \A x \in component : x \in Reaches[v] /\ v \in Reaches[x]
  <2> SUFFICES ASSUME NEW x \in component PROVE x \in Reaches[v] /\ v \in Reaches[x]
    OBVIOUS
  <2>1. x \in Reaches[v]
    BY <1>1, <1>2, <1>4 DEF TarjanOrder, OpenReaches
  <2>2. PICK k \in DOMAIN work : index[work[k].node] <= index[x] /\ work[k].node \in Reaches[x]
    BY <1>1, <1>4 DEF TarjanOrder, ReachesOpen
  <2>3. index[work[k].node] <= index[v]
    BY <1>2, <1>3
  <2>4. v \in Reaches[work[k].node]
    BY <1>1, <1>2, <2>3 DEF TarjanOrder, OpenReaches
  <2>5. v \in Reaches[x]
    BY <1>1, <1>3, <1>4, <2>2, <2>4, ReachesFacts
  <2> QED
    BY <2>1, <2>5
<1>12. \A x, y \in component : y \in Reaches[x]
  BY <1>1, <1>3, <1>4, <1>11, ReachesFacts
<1>13. component \subseteq snap /\ component \cap Settled = {}
  BY <1>1, <1>4 DEF Numbered, Settled
<1>14. ASSUME NEW x \in component PROVE component \ {x} = Component(x)
  <2>1. ASSUME NEW s \in Component(x) PROVE s \in component \ {x}
    <3>1. s # x /\ s \in Reaches[x] /\ x \in Reaches[s]
      BY <2>1 DEF Component
    <3> QED
      BY <1>9, <1>10, <1>13, <3>1
  <2>2. ASSUME NEW s \in component \ {x} PROVE s \in Component(x)
    BY <1>12, <1>13, <2>2 DEF Component
  <2> QED
    BY <2>1, <2>2
<1> QED
  BY <1>7, <1>14

(* A record closed with its own number as lowlink settles its component.       *)
LEMMA PopKeepsTarjan ==
    ASSUME SearchInv, TarjanInv, CloseRecord, lowlink[Top.node] = index[Top.node]
    PROVE  TarjanInv'
<1> DEFINE v == Top.node
           top == Len(work)
<1>0. PICK component : component = {r \in OnStack : index[r] >= index[v]}
  OBVIOUS
<1>1. /\ LinksTypeOK /\ SearchOrder /\ Numbered /\ TarjanOrder /\ TarjanLow
  BY DEF SearchInv, SearchOrder, TarjanInv
<1>2. UNCHANGED <<store, pc, snap, archivedIds, walk, told, index>> /\ pc = "cycles"
  BY DEF CloseRecord, InCycles
<1>3. /\ v \in OnStack /\ v \in Ids /\ top \in Nat \ {0} /\ work[top].node = v
      /\ DOMAIN work = 1..top /\ DOMAIN work' = 1..(top - 1)
      /\ \A k \in DOMAIN work' : work'[k] = work[k] /\ k \in DOMAIN work /\ k < top
      /\ \A k \in DOMAIN work : work[k].node \in Ids /\ work[k].node \in OnStack
      /\ \A r \in Ids : index[r] \in Nat /\ lowlink[r] \in Nat
  BY ClosingFacts
<1>4. /\ \A k \in DOMAIN work : k # top => index[work[k].node] < index[v]
      /\ OnStack \subseteq Ids
      /\ \A x, y : Pending(x, y) => Pending(x, y)'
  BY ClosingFacts
<1>5. /\ OnStack' = OnStack \ component
      /\ cycles' = [r \in Ids |-> IF r \in component THEN component \ {r} ELSE cycles[r]]
  BY <1>0, <1>1, CloseEffect
<1>6. /\ \A x \in component : Graph(x) \subseteq component \cup Settled
      /\ \A x \in component : component \ {x} = Component(x)
  BY <1>0, ComponentFound
<1>7. /\ component \subseteq OnStack /\ \A x \in OnStack' : x \in OnStack /\ index[x] < index[v]
      /\ \A x \in OnStack : index[x] < index[v] => x \in OnStack'
  BY <1>0, <1>3, <1>4, <1>5
<1>8. lowlink' = lowlink
  <2>1. lowlink \in [Ids -> 0..N]
    BY <1>1 DEF LinksTypeOK
  <2>2. lowlink' = lowlink \/ (/\ work' # <<>>
                               /\ lowlink' = [lowlink EXCEPT ![work'[Len(work')].node] = Lower(@, lowlink[v])])
    BY DEF CloseRecord
  <2>3. ASSUME work' # <<>>
        PROVE  /\ work'[Len(work')].node \in Ids
               /\ Lower(lowlink[work'[Len(work')].node], lowlink[v]) = lowlink[work'[Len(work')].node]
    <3>1. Len(work') = top - 1 /\ work' = SubSeq(work, 1, top - 1)
      BY <1>1, CloseEffect DEF CloseRecord
    <3>2. top - 1 \in DOMAIN work'
      <4> HIDE DEF top
      <4> QED
        BY <1>3, <2>3, <3>1
    <3>3. /\ work'[Len(work')].node = work[top - 1].node /\ work[top - 1].node \in OnStack
          /\ index[work[top - 1].node] < index[v] /\ work[top - 1].node \in Ids
      <4> HIDE DEF top
      <4>1. top - 1 # top
        BY <1>3
      <4> QED
        BY <1>3, <1>4, <3>1, <3>2, <4>1
    <3>4. lowlink[work[top - 1].node] <= index[work[top - 1].node]
      BY <1>1, <3>3, LowIsLow DEF TarjanLow
    <3> HIDE DEF top, v
    <3>5. lowlink[work[top - 1].node] < lowlink[v]
      BY <1>3, <3>3, <3>4 DEF v
    <3> QED
      BY <3>3, <3>5 DEF Lower
  <2> QED
    BY <2>1, <2>2, <2>3
<1> HIDE DEF top, v
<1>9. Visited' = Visited /\ Settled' = Settled \cup component
  BY <1>1, <1>2, <1>5, <1>7 DEF Visited, Settled, Numbered
<1>10. Reaches' = Reaches /\ \A s : Graph(s)' = Graph(s)
  BY <1>2, ReachesStays DEF store
<1>11. SettledClosed'
  BY <1>1, <1>6, <1>9, <1>10 DEF TarjanOrder, SettledClosed
<1>12. CyclesOfSettled'
  <2>1. \A r : Component(r)' = Component(r)
    BY <1>2, <1>10 DEF Component
  <2>2. Settled \cap component = {} /\ Settled \subseteq Ids /\ component \subseteq Ids
    BY <1>4, <1>7 DEF Settled, Visited
  <2>3. \A r \in Settled : cycles'[r] = Component(r)
    BY <1>5, <2>2 DEF TarjanInv, CyclesOfSettled
  <2>4. \A r \in component : cycles'[r] = Component(r)
    BY <1>5, <1>6, <2>2
  <2> QED
    BY <1>9, <2>1, <2>3, <2>4 DEF CyclesOfSettled
<1>13. LinksFollowed' /\ SearchEnded'
  BY <1>1, <1>2, <1>4, <1>7, <1>9, <1>10 DEF TarjanOrder, LinksFollowed, SearchEnded
<1>14. OpenReaches'
  BY <1>1, <1>2, <1>3, <1>7, <1>10 DEF TarjanOrder, OpenReaches
<1>15. ReachesOpen'
  <2> SUFFICES ASSUME NEW x \in OnStack'
               PROVE  \E k \in DOMAIN work' : index[work[k].node] <= index[x] /\ work[k].node \in Reaches[x]
    BY <1>2, <1>3, <1>10 DEF ReachesOpen
  <2>1. PICK k \in DOMAIN work : index[work[k].node] <= index[x] /\ work[k].node \in Reaches[x]
    BY <1>1, <1>7 DEF TarjanOrder, ReachesOpen
  <2>2. k # top
    BY <1>3, <1>4, <1>7, <2>1
  <2> QED
    BY <1>3, <2>1, <2>2
<1>16. LowIsReached'
  <2> SUFFICES ASSUME NEW x \in OnStack'
               PROVE  \E y \in OnStack' : index[y] = lowlink[x] /\ y \in Reaches[x] /\ index[y] <= index[x]
    BY <1>2, <1>8, <1>10 DEF LowIsReached
  <2>1. PICK y \in OnStack : index[y] = lowlink[x] /\ y \in Reaches[x] /\ index[y] <= index[x]
    BY <1>1, <1>7 DEF TarjanLow, LowIsReached
  <2> QED
    BY <1>3, <1>4, <1>7, <2>1
<1>17. LowIsLowest'
  <2> SUFFICES ASSUME NEW k \in DOMAIN work', NEW x \in OnStack', Under(k, x)',
                      NEW y \in Graph(x) \cap OnStack'
               PROVE  Pending(x, y)' \/ lowlink[work[k].node] <= index[y]
    BY <1>2, <1>3, <1>8, <1>10 DEF LowIsLowest
  <2>1. Under(k, x)
    <3>1. /\ index[work[k].node] <= index[x]
          /\ \A j \in DOMAIN work' : k < j => index[x] < index[work[j].node]
      BY <1>2, <1>3 DEF Under
    <3>2. \A j \in DOMAIN work : j \in DOMAIN work' \/ j = top
      BY <1>3
    <3>3. index[x] < index[work[top].node]
      BY <1>3, <1>7
    <3> QED
      BY <3>1, <3>2, <3>3 DEF Under
  <2>2. k \in DOMAIN work /\ x \in OnStack /\ y \in OnStack
    BY <1>3, <1>7
  <2> QED
    BY <1>1, <1>4, <2>1, <2>2 DEF TarjanLow, LowIsLowest
<1> QED
  BY <1>11, <1>12, <1>13, <1>14, <1>15, <1>16, <1>17 DEF TarjanInv, TarjanOrder, TarjanLow

LEMMA TarjanStep == SearchInv /\ TarjanInv /\ [LinksNext]_linksVars => TarjanInv'
<1> SUFFICES ASSUME SearchInv, TarjanInv, [LinksNext]_linksVars PROVE TarjanInv'
  OBVIOUS
<1>0. LinksTypeOK /\ SearchEnded /\ TarjanOrder
  BY DEF SearchInv, TarjanInv
<1>1. CASE Scan(1)
  <2>1. pc = "scanFirst" /\ pc' = "scanSecond" /\ UNCHANGED tarjan
    BY <1>1 DEF Scan, Stages
  <2>2. Visited = {} /\ stack = <<>> /\ work = <<>> /\ DOMAIN <<>> = {}
    BY <2>1 DEF SearchInv, SearchOrder, BeforeSearch
  <2>3. Visited' = {} /\ OnStack' = {} /\ DOMAIN work' = {} /\ Settled' = {}
    BY <2>1, <2>2 DEF Visited, OnStack, Settled, tarjan
  <2> QED
    BY <2>1, <2>3
    DEF TarjanInv, TarjanOrder, TarjanLow, SettledClosed, LinksFollowed, OpenReaches, ReachesOpen,
        LowIsReached, LowIsLowest, CyclesOfSettled, SearchEnded
<1>2. CASE Scan(2)
  <2>1. UNCHANGED <<snap, store, tarjan>> /\ pc' = "cycles"
    BY <1>2 DEF Scan, Stages, Trees
  <2> QED
    BY <2>1, TarjanUntouched DEF SearchEnded, store
<1>3. ASSUME NEW r \in Ids, DeleteRecord(r) \/ RestoreRecord(r) PROVE TarjanInv'
  <2>1. UNCHANGED <<snap, links, tarjan>> /\ pc' = "scanSecond"
    BY <1>3 DEF DeleteRecord, RestoreRecord
  <2> QED
    BY <2>1, TarjanUntouched DEF SearchEnded
<1>4. CASE CloseRecord
  BY <1>4, ReturnKeepsTarjan, PopKeepsTarjan
<1>5. ASSUME NEW r \in Ids, TakeUp(r) \/ Relate(r) PROVE TarjanInv'
  <2>1. UNCHANGED <<snap, store, tarjan>>
    BY <1>5 DEF TakeUp, Relate
  <2>2. SearchEnded'
    BY <1>5, <2>1 DEF TakeUp, Relate, SearchEnded, Visited, tarjan
  <2> QED
    BY <2>1, <2>2, TarjanUntouched DEF store
<1>6. CASE WalkLevel \/ Annotate
  <2>1. UNCHANGED <<snap, store, tarjan>>
    BY <1>6 DEF WalkLevel, Annotate
  <2>2. SearchEnded'
    BY <1>0, <1>6, <2>1 DEF WalkLevel, Annotate, SearchEnded, Visited, tarjan
  <2> QED
    BY <2>1, <2>2, TarjanUntouched DEF store
<1>7. CASE UNCHANGED linksVars
  <2>1. UNCHANGED <<snap, store, tarjan, pc>>
    BY <1>7 DEF linksVars
  <2>2. SearchEnded'
    BY <1>0, <2>1 DEF SearchEnded, Visited, tarjan
  <2> QED
    BY <2>1, <2>2, TarjanUntouched DEF store
<1> QED
  BY <1>1, <1>2, <1>3, <1>4, <1>5, <1>6, <1>7, StartKeepsTarjan, FollowKeepsTarjan DEF LinksNext

LEMMA TarjanCorrect == LinksSpec => []TarjanInv
<1>1. LinksInit => TarjanInv
  <2> SUFFICES ASSUME LinksInit PROVE TarjanInv
    OBVIOUS
  <2>1. Visited = {} /\ OnStack = {} /\ DOMAIN work = {} /\ Settled = {}
    <3>1. DOMAIN <<>> = {}
      OBVIOUS
    <3> QED
      BY <3>1 DEF LinksInit, Visited, OnStack, Settled
  <2> QED
    BY <2>1
    DEF LinksInit, TarjanInv, TarjanOrder, TarjanLow, SettledClosed, LinksFollowed, OpenReaches, ReachesOpen,
        LowIsReached, LowIsLowest, CyclesOfSettled, SearchEnded
<1> QED
  BY <1>1, LinksTypeCorrect, TarjanStep, PTL DEF LinksSpec

(* The depth-first search over the live records finds exactly the cycles, for  *)
(* any number of records, any links between them and any order in which they   *)
(* are followed: the entry of a record names the records that it can reach and *)
(* that can reach it.                                                          *)
THEOREM CyclesFound == LinksSpec => []CyclesAreFound
<1>1. SearchInv /\ TarjanInv => CyclesAreFound
  <2> SUFFICES ASSUME SearchInv, TarjanInv, pc \in {"walk", "annotate", "done"}, NEW r \in snap
               PROVE  cycles[r] = Component(r)
    BY DEF CyclesAreFound, Component
  <2>1. LinksTypeOK /\ ReachesOpen /\ work = <<>> /\ snap \subseteq Visited
    BY DEF SearchInv, TarjanInv, TarjanOrder, SearchEnded
  <2>2. Settled = Visited
    BY <2>1, NoneOpen
  <2> QED
    BY <2>1, <2>2 DEF TarjanInv, CyclesOfSettled
<1> QED
  BY <1>1, LinksTypeCorrect, TarjanCorrect, PTL

-----------------------------------------------------------------------------
(* Supersession: what the two scans see *)

(* Between the scans, what is live and was not restored was seen live; after   *)
(* them, what is in either tree and was not restored was seen in one of them.  *)
ScansSee ==
    /\ pc = "scanSecond" => live \ restored \subseteq snap
    /\ pc \notin {"scanFirst", "scanSecond"} => (live \cup archived) \ restored \subseteq Returned
    /\ pc \in {"done", "related"} => \A t \in DOMAIN labels : labels[t] = Label(t)

(* A link of a record is never told to be missing of a record that is in       *)
(* either tree all the time, for any number of records, deletes and restores   *)
(* between the two scans; only a restored one can escape both.                 *)
THEOREM NothingMissing == LinksSpec => []NeverMissing
<1>1. LinksInit => ScansSee
  BY DEF LinksInit, ScansSee
<1>2. ScansSee /\ [LinksNext]_linksVars => ScansSee'
  <2> SUFFICES ASSUME ScansSee, [LinksNext]_linksVars PROVE ScansSee'
    OBVIOUS
  <2>1. CASE Scan(1)
    BY <2>1 DEF Scan, Stages, Trees, ScansSee, store
  <2>2. CASE Scan(2)
    BY <2>2 DEF Scan, Stages, Trees, ScansSee, store, Returned
  <2>3. ASSUME NEW r \in Ids, DeleteRecord(r) PROVE ScansSee'
    BY <2>3 DEF DeleteRecord, ScansSee
  <2>4. ASSUME NEW r \in Ids, RestoreRecord(r) PROVE ScansSee'
    BY <2>4 DEF RestoreRecord, ScansSee
  <2>5. CASE StartSearch \/ CloseRecord \/ \E w \in Ids : FollowLink(w)
    <3>1. UNCHANGED <<store, pc, snap, archivedIds, told>> /\ pc = "cycles"
      BY <2>5 DEF StartSearch, CloseRecord, FollowLink, InCycles
    <3> QED
      BY <3>1 DEF ScansSee, store, Returned
  <2>6. ASSUME NEW r \in Ids, TakeUp(r) PROVE ScansSee'
    <3>1. UNCHANGED <<store, snap, archivedIds, told>> /\ pc = "cycles" /\ pc' \in {"walk", "annotate"}
      BY <2>6 DEF TakeUp
    <3> QED
      BY <3>1 DEF ScansSee, store, Returned
  <2>7. CASE WalkLevel
    <3>1. UNCHANGED <<store, snap, archivedIds, told>> /\ pc = "walk" /\ pc' \in {"walk", "annotate"}
      BY <2>7 DEF WalkLevel
    <3> QED
      BY <3>1 DEF ScansSee, store, Returned
  <2>8. CASE Annotate \/ \E r \in Ids : Relate(r)
    <3>1. UNCHANGED <<store, snap, archivedIds>> /\ pc \in {"annotate", "cycles"} /\ pc' \in {"done", "related"}
      BY <2>8 DEF Annotate, Relate
    <3>2. \A t \in DOMAIN labels' : labels'[t] = Label(t)
      BY <2>8 DEF Annotate, Relate
    <3>3. \A t : Label(t)' = Label(t)
      BY <3>1 DEF Label
    <3> QED
      BY <3>1, <3>2, <3>3 DEF ScansSee, store, Returned
  <2>9. CASE UNCHANGED linksVars
    <3>1. \A t : Label(t)' = Label(t)
      BY <2>9 DEF Label, linksVars
    <3> QED
      BY <2>9, <3>1 DEF linksVars, ScansSee, store, told, Returned
  <2> QED
    BY <2>1, <2>2, <2>3, <2>4, <2>5, <2>6, <2>7, <2>8, <2>9 DEF LinksNext
<1>3. ScansSee => NeverMissing
  BY DEF ScansSee, NeverMissing, Returned, Label
<1> QED
  BY <1>1, <1>2, <1>3, PTL DEF LinksSpec

-----------------------------------------------------------------------------
(* Supersession: the walk to the tips *)

Up == [r \in Ids |-> Superseders(r)]
Rise(k) == Within(Up)[k][origin]
AtLevel(t, k) == t \in Rise(k) /\ (k = 0 \/ t \notin Rise(k - 1))
TipsAtLevel == \A t \in Tips : AtLevel(t, tips[t])

(* While the walk is on, it has seen what is above its origin up to its level, *)
(* and the tips are what is current below the level; then they are all tips.   *)
WalkSees ==
    /\ pc \in {"scanFirst", "scanSecond", "cycles"} => Tips = {}
    /\ (pc = "walk" /\ ~CycleAhead(origin)) =>
        /\ depth - 1 \in 0..N
        /\ seen = Rise(depth - 1) /\ frontier = {t \in seen : AtLevel(t, depth - 1)}
        /\ Tips = {t \in seen \ frontier : t # origin /\ Superseders(t) = {}}
        /\ TipsAtLevel
    /\ (pc \in {"annotate", "done"} /\ ~CycleAhead(origin)) => Tips = Current(origin) /\ TipsAtLevel

NoSelfLink == \A r \in Ids : r \notin links[r]
HintsGiven == pc = "done" => hints = Hints(origin)

(* Above is the relation that the walk follows upwards.                        *)
LEMMA AboveFacts ==
    ASSUME LinksTypeOK
    PROVE  /\ Up \in Graphs /\ Above = Within(Up)[N]
           /\ \A r \in Ids : Superseders(r) \subseteq snap /\ snap \subseteq Ids
           /\ \A r \in Ids : Above[r] \subseteq Ids /\ r \in Above[r]
           /\ \A r \in Ids : \A s \in Above[r] : Superseders(s) \subseteq Above[r]
           /\ \A r \in Ids : \A s \in Above[r] : Above[s] \subseteq Above[r]
           /\ \A A \in SUBSET Ids : (\A s \in A : Superseders(s) \subseteq A) =>
                \A r \in A : Above[r] \subseteq A
<1>1. /\ Up \in Graphs /\ snap \subseteq Ids /\ \A r : Superseders(r) \subseteq snap
      /\ \A r \in Ids : Up[r] = Superseders(r)
  BY DEF LinksTypeOK, Superseders, Graphs, Up
<1>2. Above = Within(Up)[N]
  BY DEF Above, Up
<1>3. \A A \in SUBSET Ids : Closed(Up, A) <=> \A s \in A : Superseders(s) \subseteq A
  BY <1>1 DEF Closed
<1>4. Above \in Graphs
  BY <1>1, <1>2, Reachability
<1>5. \A r \in Ids : r \in Above[r] /\ Closed(Up, Above[r])
  BY <1>1, <1>2, Reachability
<1>6. \A r \in Ids : \A s \in Above[r] : Above[s] \subseteq Above[r]
  BY <1>1, <1>2, Reachability
<1>7. \A A \in SUBSET Ids : Closed(Up, A) => \A r \in A : Above[r] \subseteq A
  BY <1>1, <1>2, Reachability
<1>8. \A r \in Ids : Above[r] \in SUBSET Ids
  BY <1>4 DEF Graphs
<1> QED
  BY <1>1, <1>2, <1>3, <1>5, <1>6, <1>7, <1>8

LEMMA AboveStays ==
    ASSUME UNCHANGED <<links, snap>>
    PROVE  Up' = Up /\ Above' = Above /\ \A r : Superseders(r)' = Superseders(r)
BY DEF Above, Superseders, Up

(* A live record is above what it reaches.                                     *)
LEMMA ReachedFromAbove ==
    ASSUME LinksTypeOK, NEW s \in snap
    PROVE  \A x \in Reaches[s] : x \in snap /\ s \in Above[x]
<1> DEFINE A == {x \in snap : s \in Above[x]}
<1>1. A \in SUBSET Ids /\ s \in A /\ s \in Ids
  BY AboveFacts DEF LinksTypeOK
<1>2. ASSUME NEW x \in A, NEW y \in Graph(x) PROVE y \in A
  <2>1. x \in Superseders(y) /\ y \in snap /\ y \in Ids /\ x \in Ids
    BY <1>2 DEF Graph, Superseders, LinksTypeOK
  <2>2. x \in Above[y] /\ y \in Above[y]
    BY <2>1, AboveFacts
  <2>3. Above[x] \subseteq Above[y]
    BY <2>1, <2>2, AboveFacts
  <2> QED
    BY <1>2, <2>1, <2>3
<1>3. \A x \in A : Graph(x) \subseteq A
  BY <1>2
<1> HIDE DEF A
<1>4. Reaches[s] \subseteq A
  BY <1>1, <1>3, ReachesFacts
<1> QED
  BY <1>4 DEF A

(* Where no cycle lies ahead, the walk passes over no superseder.              *)
LEMMA NothingPassedOver ==
    ASSUME LinksTypeOK, CyclesAreFound, pc \in {"walk", "annotate", "done"}, origin \in Ids, ~CycleAhead(origin)
    PROVE  \A r \in Above[origin] : Onward(r) = Superseders(r)
<1> SUFFICES ASSUME NEW r \in Above[origin], NEW s \in Superseders(r), s \in InCycle PROVE FALSE
  BY DEF Onward
<1>1. r \in Ids /\ s \in snap /\ s \in Ids /\ s \in Above[origin]
  BY AboveFacts
<1>2. PICK t : t \in cycles[s]
  BY DEF InCycle
<1>3. t \in snap \ {s} /\ t \in Reaches[s] /\ s \in Reaches[t]
  BY <1>1, <1>2 DEF CyclesAreFound
<1>4. s \in Above[t] /\ t \in Above[s]
  BY <1>1, <1>3, ReachedFromAbove
<1>5. t \in Above[origin]
  BY <1>1, <1>4, AboveFacts
<1> QED
  BY <1>1, <1>3, <1>4, <1>5 DEF CycleAhead

(* The levels above the origin.                                                *)
LEMMA RiseFacts ==
    ASSUME LinksTypeOK, origin \in Ids
    PROVE  /\ Rise(0) = {origin} /\ Rise(N) = Above[origin]
           /\ \A k \in 0..N : Rise(k) \subseteq Above[origin] /\ origin \in Rise(k)
           /\ \A k \in 0..N : \A j \in 0..k : Rise(j) \subseteq Rise(k)
           /\ \A k \in 0..N : k < N => Rise(k + 1) = Rise(k) \cup UNION {Superseders(s) : s \in Rise(k)}
<1>1. Up \in Graphs /\ Above = Within(Up)[N] /\ N \in Nat
  BY AboveFacts, NIsNat
<1>2. /\ Rise(0) = {origin}
      /\ \A k \in 0..N : Rise(k) \subseteq Ids
      /\ \A k \in 0..N : k < N => Rise(k + 1) = Rise(k) \cup UNION {Up[s] : s \in Rise(k)}
  BY <1>1, WalksOf DEF Rise
<1>3. \A k \in 0..N : /\ origin \in Rise(k)
                      /\ \A j \in 0..k : Rise(j) \subseteq Rise(k)
  BY <1>1, WalksGrow DEF Rise
<1>4. Rise(N) = Above[origin]
  BY <1>1 DEF Rise
<1>5. \A k \in 0..N : Rise(k) \subseteq Above[origin]
  BY <1>1, <1>3, <1>4
<1>6. ASSUME NEW k \in 0..N PROVE {Up[s] : s \in Rise(k)} = {Superseders(s) : s \in Rise(k)}
  BY <1>2 DEF Up
<1> HIDE DEF Rise
<1>7. \A k \in 0..N : k < N => Rise(k + 1) = Rise(k) \cup UNION {Superseders(s) : s \in Rise(k)}
  BY <1>2, <1>6
<1> QED
  BY <1>2, <1>3, <1>4, <1>5, <1>7

(* A record is on one level only.                                              *)
LEMMA OneLevel ==
    ASSUME LinksTypeOK, origin \in Ids, NEW t, NEW j \in 0..N, NEW k \in 0..N, AtLevel(t, j), AtLevel(t, k)
    PROVE  j = k
<1>1. N \in Nat /\ \A m \in 0..N : \A i \in 0..m : Rise(i) \subseteq Rise(m)
  BY RiseFacts, NIsNat
<1>2. ASSUME NEW a \in 0..N, NEW b \in 0..N, a < b, AtLevel(t, a), AtLevel(t, b) PROVE FALSE
  <2>1. b - 1 \in 0..N /\ a \in 0..(b - 1) /\ b # 0
    BY <1>1, <1>2
  <2>2. Rise(a) \subseteq Rise(b - 1)
    BY <1>1, <2>1
  <2> QED
    BY <1>2, <2>1, <2>2 DEF AtLevel
<1>3. ~(j < k) /\ ~(k < j)
  BY <1>2
<1> QED
  BY <1>1, <1>3

LEMMA RiseStays ==
    ASSUME UNCHANGED <<links, snap, origin>>
    PROVE  /\ \A k : Rise(k)' = Rise(k)
           /\ \A t, k : AtLevel(t, k)' <=> AtLevel(t, k)
           /\ CycleAhead(origin)' <=> CycleAhead(origin)
           /\ Current(origin)' = Current(origin)
           /\ \A r : Superseders(r)' = Superseders(r)
<1>1. Up' = Up /\ Above' = Above /\ \A r : Superseders(r)' = Superseders(r)
  BY AboveStays
<1>2. \A k : Rise(k)' = Rise(k)
  BY <1>1 DEF Rise
<1>3. \A t, k : AtLevel(t, k)' <=> AtLevel(t, k)
  BY <1>2 DEF AtLevel
<1>4. CycleAhead(origin)' <=> CycleAhead(origin)
  BY <1>1 DEF CycleAhead
<1>5. Current(origin)' = Current(origin)
  BY <1>1 DEF Current
<1> QED
  BY <1>1, <1>2, <1>3, <1>4, <1>5

(* A record that nobody supersedes is its own only walk.                       *)
LEMMA NothingAbove ==
    ASSUME LinksTypeOK, NEW r \in Ids, Superseders(r) = {}
    PROVE  Above[r] = {r} /\ Current(r) = {}
<1>1. Above[r] \subseteq {r}
  <2>1. {r} \in SUBSET Ids /\ \A s \in {r} : Superseders(s) \subseteq {r}
    OBVIOUS
  <2> QED
    BY <2>1, AboveFacts
<1> QED
  BY <1>1, AboveFacts DEF Current

(* One level of the walk where no cycle lies ahead.                            *)
LEMMA LevelAhead ==
    ASSUME LinksTypeOK, CyclesAreFound, LevelsSeen, WalkSees, WalkLevel, ~CycleAhead(origin)
    PROVE  /\ depth \in 1..N /\ origin \in Ids
           /\ Rise(depth) = seen \cup Ahead /\ Ahead = Rise(depth) \ Rise(depth - 1)
           /\ Ends = {t \in frontier : t # origin /\ Superseders(t) = {}}
           /\ \A t \in Ends : depth - 1 # 0 /\ AtLevel(t, depth - 1)
           /\ Ahead = {} => Rise(depth - 1) = Above[origin]
<1>1. /\ pc = "walk" /\ origin \in Ids /\ depth \in Nat \ {0} /\ depth <= Cardinality(seen)
      /\ depth - 1 \in 0..N
  BY DEF WalkLevel, LevelsSeen, WalkSees
<1>2. /\ seen = Rise(depth - 1) /\ frontier = {t \in seen : AtLevel(t, depth - 1)}
  BY <1>1 DEF WalkSees
<1>3. N \in Nat /\ IsFiniteSet(Ids) /\ Cardinality(Ids) = N /\ seen \in SUBSET Ids
  <2>1. N \in Nat /\ Ids = 1..N /\ seen \in SUBSET Ids
    BY NIsNat DEF LinksTypeOK
  <2> QED
    BY <2>1, FS_Interval
<1>4. depth \in 1..N
  <2>1. Cardinality(seen) <= N /\ Cardinality(seen) \in Nat
    BY <1>3, FS_Subset, FS_CardinalityType
  <2> QED
    BY <1>1, <1>3, <2>1
<1>5. /\ depth - 1 \in 0..N /\ depth - 1 < N /\ (depth - 1) + 1 = depth
      /\ Rise(0) = {origin} /\ seen \subseteq Above[origin]
  BY <1>1, <1>2, <1>3, <1>4, RiseFacts
<1>6. Rise(depth) = seen \cup UNION {Superseders(s) : s \in seen}
  <2>1. Rise((depth - 1) + 1) = Rise(depth - 1) \cup UNION {Superseders(s) : s \in Rise(depth - 1)}
    BY <1>1, <1>5, RiseFacts
  <2> QED
    BY <1>2, <1>5, <2>1
<1>7. frontier \subseteq seen /\ \A r \in seen : Onward(r) = Superseders(r)
  BY <1>1, <1>2, <1>5, NothingPassedOver
<1>8. ASSUME NEW s \in seen \ frontier PROVE Superseders(s) \subseteq seen
  <2>1. depth - 1 # 0 /\ s \in Rise(depth - 2)
    <3>1. (depth - 1) - 1 = depth - 2
      BY <1>1
    <3> QED
      BY <1>2, <1>8, <3>1 DEF AtLevel
  <2>2. depth - 2 \in 0..N /\ depth - 2 < N /\ (depth - 2) + 1 = depth - 1
    BY <1>3, <1>4, <2>1
  <2>3. Rise((depth - 2) + 1) = Rise(depth - 2) \cup UNION {Superseders(r) : r \in Rise(depth - 2)}
    BY <1>1, <2>2, RiseFacts
  <2> QED
    BY <1>2, <2>1, <2>2, <2>3
<1>9. Ahead = (UNION {Superseders(s) : s \in frontier}) \ seen
  <2>1. {Onward(r) : r \in frontier} = {Superseders(r) : r \in frontier}
    BY <1>7
  <2> QED
    BY <2>1 DEF Ahead
<1>10. Rise(depth) = seen \cup Ahead
  BY <1>6, <1>7, <1>8, <1>9
<1>11. Ahead = Rise(depth) \ Rise(depth - 1)
  BY <1>2, <1>9, <1>10
<1>12. Ends = {t \in frontier : t # origin /\ Superseders(t) = {}}
  BY <1>7 DEF Ends
<1>13. \A t \in Ends : depth - 1 # 0 /\ AtLevel(t, depth - 1)
  BY <1>2, <1>5, <1>12
<1>14. ASSUME Ahead = {} PROVE Rise(depth - 1) = Above[origin]
  <2>1. \A s \in seen : Superseders(s) \subseteq seen
    BY <1>6, <1>10, <1>14
  <2>2. origin \in seen
    BY <1>1, <1>2, RiseFacts
  <2>3. Above[origin] \subseteq seen
    BY <1>3, <2>1, <2>2, AboveFacts
  <2> QED
    BY <1>2, <1>5, <2>3
<1> QED
  BY <1>1, <1>4, <1>10, <1>11, <1>12, <1>13, <1>14

(* A level of the walk: what is ahead is exactly one link further up.          *)
LEMMA WalkKeepsSight ==
    ASSUME LinksTypeOK, CyclesAreFound, LevelsSeen, WalkSees, WalkLevel
    PROVE  WalkSees'
<1>1. /\ pc = "walk" /\ tips' = [r \in Ids |-> IF r \in Ends THEN depth - 1 ELSE tips[r]]
      /\ seen' = seen \cup Ahead /\ frontier' = Ahead
      /\ IF Ahead = {} THEN pc' = "annotate" /\ depth' = depth ELSE pc' = pc /\ depth' = depth + 1
      /\ UNCHANGED <<links, snap, origin>>
  BY DEF WalkLevel, store
<1> SUFFICES ASSUME ~CycleAhead(origin) PROVE WalkSees'
  BY <1>1, RiseStays DEF WalkSees
<1>2. /\ depth \in 1..N /\ origin \in Ids
      /\ Rise(depth) = seen \cup Ahead /\ Ahead = Rise(depth) \ Rise(depth - 1)
      /\ Ends = {t \in frontier : t # origin /\ Superseders(t) = {}}
      /\ \A t \in Ends : depth - 1 # 0 /\ AtLevel(t, depth - 1)
      /\ Ahead = {} => Rise(depth - 1) = Above[origin]
  BY LevelAhead
<1>3. /\ seen = Rise(depth - 1) /\ frontier \subseteq seen
      /\ Tips = {t \in seen \ frontier : t # origin /\ Superseders(t) = {}}
      /\ TipsAtLevel /\ seen \subseteq Ids
  BY <1>1 DEF WalkSees, LinksTypeOK
<1>4. Tips' = Tips \cup Ends
  <2>1. \A r \in Ids : tips'[r] # 0 <=> r \in Ends \/ tips[r] # 0
    BY <1>1, <1>2
  <2> QED
    BY <1>2, <1>3, <2>1 DEF Tips
<1>5. Tips' = {t \in seen : t # origin /\ Superseders(t) = {}}
  BY <1>2, <1>3, <1>4
<1>6. \A t \in Tips' : AtLevel(t, tips'[t])
  <2>1. \A t \in Ends : t \in Ids /\ tips'[t] = depth - 1
    BY <1>1, <1>2, <1>3
  <2>2. \A t \in Tips : t \in Ids /\ (t \notin Ends => tips'[t] = tips[t])
    BY <1>1 DEF Tips
  <2> QED
    BY <1>2, <1>3, <1>4, <2>1, <2>2 DEF TipsAtLevel
<1>7. TipsAtLevel'
  BY <1>1, <1>6, RiseStays DEF TipsAtLevel
<1>8. CASE Ahead = {}
  <2>1. Tips' = Current(origin)
    BY <1>2, <1>3, <1>5, <1>8 DEF Current
  <2>2. pc' = "annotate" /\ Current(origin)' = Current(origin)
    BY <1>1, <1>8, RiseStays
  <2> QED
    BY <1>7, <2>1, <2>2 DEF WalkSees
<1>9. CASE Ahead # {}
  <2>1. pc' = "walk" /\ depth' = depth + 1 /\ depth' - 1 = depth /\ depth' # 1
    BY <1>1, <1>2, <1>9
  <2>2. \A t \in seen' : AtLevel(t, depth) <=> t \in Ahead
    <3>1. depth # 0
      BY <1>2
    <3> QED
      BY <1>1, <1>2, <3>1 DEF AtLevel
  <2>3. depth' - 1 \in 0..N /\ seen' = Rise(depth) /\ frontier' = {t \in seen' : AtLevel(t, depth)}
    BY <1>1, <1>2, <2>1, <2>2
  <2>4. (seen = Rise(depth - 1) /\ frontier = {t \in seen : AtLevel(t, depth - 1)})'
    <3>1. Up' = Up /\ origin' = origin
      BY <1>1, AboveStays
    <3> QED
      BY <2>1, <2>3, <3>1 DEF Rise, AtLevel
  <2>5. seen' \ frontier' = seen
    BY <1>1, <1>2, <1>3
  <2>6. Tips' = {t \in seen' \ frontier' : t # origin /\ Superseders(t) = {}}
    BY <1>5, <2>5
  <2>7. (Tips = {t \in seen \ frontier : t # origin /\ Superseders(t) = {}})'
    BY <1>1, <2>6, RiseStays
  <2> QED
    BY <1>7, <2>1, <2>3, <2>4, <2>7 DEF WalkSees
<1> QED
  BY <1>8, <1>9

ReadInv == WalkSees /\ NoSelfLink /\ HintsGiven

LEMMA SightUntouched ==
    ASSUME WalkSees, UNCHANGED <<links, snap, walk, pc>>
    PROVE  WalkSees'
<1>1. UNCHANGED <<origin, frontier, seen, tips, depth>> /\ Tips' = Tips
  BY DEF walk, Tips
<1>2. TipsAtLevel' <=> TipsAtLevel
  BY <1>1, RiseStays DEF TipsAtLevel
<1>3. Up' = Up /\ \A r : Superseders(r)' = Superseders(r)
  BY AboveStays
<1>4. CycleAhead(origin)' <=> CycleAhead(origin)
  BY <1>1, RiseStays
<1>5. Current(origin)' = Current(origin)
  BY <1>1, RiseStays
<1>6. Rise(depth - 1)' = Rise(depth - 1) /\ \A t : AtLevel(t, depth - 1)' <=> AtLevel(t, depth - 1)
  BY <1>1, <1>3 DEF Rise, AtLevel
<1> QED
  BY <1>1, <1>2, <1>3, <1>4, <1>5, <1>6 DEF WalkSees

(* The walk begins at its origin, on level 0, or has nowhere to go.            *)
LEMMA TakeUpSight ==
    ASSUME LinksTypeOK, WalkSees, NEW r \in Ids, TakeUp(r)
    PROVE  WalkSees'
<1>1. /\ pc = "cycles" /\ origin' = r /\ UNCHANGED <<links, snap, tips>>
      /\ IF Superseders(r) = {} THEN pc' = "annotate"
         ELSE pc' = "walk" /\ frontier' = {r} /\ seen' = {r} /\ depth' = 1
  BY DEF TakeUp, store
<1>2. Tips = {} /\ Tips' = {}
  BY <1>1 DEF WalkSees, Tips
<1>3. Up' = Up /\ Above' = Above /\ \A s : Superseders(s)' = Superseders(s)
  BY <1>1, AboveStays
<1>4. TipsAtLevel'
  BY <1>2 DEF TipsAtLevel
<1>5. CASE Superseders(r) = {}
  <2>1. Current(r) = {}
    BY <1>5, NothingAbove
  <2>2. Current(origin)' = {}
    BY <1>1, <1>3, <2>1 DEF Current
  <2> QED
    BY <1>1, <1>2, <1>4, <1>5, <2>2 DEF WalkSees
<1>6. CASE Superseders(r) # {}
  <2>1. pc' = "walk" /\ frontier' = {r} /\ seen' = {r} /\ depth' = 1 /\ depth' - 1 = 0 /\ 0 \in 0..N
    BY <1>1, <1>6, NIsNat
  <2>2. Within(Up)[0][r] = {r}
    BY AboveFacts, WalksOf
  <2>3. (Rise(depth - 1) = {r})'
    BY <1>1, <1>3, <2>1, <2>2 DEF Rise
  <2>4. (frontier = {t \in seen : AtLevel(t, depth - 1)})'
    BY <2>1, <2>3 DEF AtLevel
  <2> QED
    BY <1>2, <1>4, <2>1, <2>3, <2>4 DEF WalkSees
<1> QED
  BY <1>5, <1>6

LEMMA ReadStep ==
    ASSUME SearchInv, CyclesAreFound, ReadInv, [LinksNext]_linksVars
    PROVE  ReadInv'
<1>0. LinksTypeOK /\ LevelsSeen /\ WalkSees /\ NoSelfLink /\ HintsGiven
  BY DEF SearchInv, ReadInv
<1>1. NoSelfLink'
  <2>1. links' = links
    BY DEF LinksNext, Scan, DeleteRecord, RestoreRecord, StartSearch, CloseRecord, FollowLink, InCycles,
           TakeUp, Relate, WalkLevel, Annotate, linksVars, store
  <2> QED
    BY <1>0, <2>1 DEF NoSelfLink
<1>2. CASE \/ Scan(1) \/ Scan(2) \/ \E r \in Ids : DeleteRecord(r) \/ RestoreRecord(r)
  <2>1. /\ pc \in {"scanFirst", "scanSecond"} /\ pc' \in {"scanFirst", "scanSecond", "cycles"}
        /\ UNCHANGED walk
    BY <1>2 DEF Scan, Stages, DeleteRecord, RestoreRecord
  <2>2. Tips' = Tips
    BY <2>1 DEF Tips, walk
  <2> QED
    BY <1>0, <1>1, <2>1, <2>2 DEF ReadInv, WalkSees, HintsGiven
<1>3. CASE StartSearch \/ CloseRecord \/ \E w \in Ids : FollowLink(w)
  <2>1. pc = "cycles" /\ UNCHANGED <<links, snap, walk, pc>>
    BY <1>3 DEF StartSearch, CloseRecord, FollowLink, InCycles, store
  <2>2. WalkSees'
    BY <1>0, <2>1, SightUntouched
  <2> QED
    BY <1>1, <2>1, <2>2 DEF ReadInv, HintsGiven
<1>4. ASSUME NEW r \in Ids, TakeUp(r) PROVE ReadInv'
  <2>1. pc' \in {"annotate", "walk"}
    BY <1>4 DEF TakeUp
  <2> QED
    BY <1>0, <1>1, <1>4, <2>1, TakeUpSight DEF ReadInv, HintsGiven
<1>5. ASSUME NEW r \in Ids, Relate(r) PROVE ReadInv'
  <2>1. pc' = "related"
    BY <1>5 DEF Relate
  <2> QED
    BY <1>1, <2>1 DEF ReadInv, WalkSees, HintsGiven
<1>6. CASE WalkLevel
  <2>1. pc' \in {"annotate", "walk"}
    BY <1>6 DEF WalkLevel
  <2> QED
    BY <1>0, <1>1, <1>6, <2>1, WalkKeepsSight DEF ReadInv, HintsGiven
<1>7. CASE Annotate
  <2>1. /\ pc = "annotate" /\ pc' = "done" /\ hints' = Hints(origin)
        /\ UNCHANGED <<links, snap, origin, frontier, seen, tips, depth>>
    BY <1>7 DEF Annotate, store, walk
  <2>2. Tips' = Tips /\ (TipsAtLevel' <=> TipsAtLevel)
    BY <2>1, RiseStays DEF Tips, TipsAtLevel
  <2>3. Current(origin)' = Current(origin) /\ (CycleAhead(origin)' <=> CycleAhead(origin))
    BY <2>1, RiseStays
  <2>4. WalkSees'
    BY <1>0, <2>1, <2>2, <2>3 DEF WalkSees
  <2>5. Hints(origin)' = Hints(origin)
    <3>1. \A r : Superseders(r)' = Superseders(r)
      BY <2>1, RiseStays
    <3> QED
      BY <2>1, <2>2, <3>1 DEF Hints, Hops, SupersededBy
  <2> QED
    BY <1>1, <2>1, <2>4, <2>5 DEF ReadInv, HintsGiven
<1>8. CASE UNCHANGED linksVars
  <2>1. UNCHANGED <<links, snap, walk, pc, hints>>
    BY <1>8 DEF linksVars, store, told
  <2>2. WalkSees'
    BY <1>0, <2>1, SightUntouched
  <2>3. Hints(origin)' = Hints(origin)
    <3>1. \A r : Superseders(r)' = Superseders(r)
      BY <2>1, AboveStays
    <3> QED
      BY <2>1, <3>1 DEF Hints, Hops, SupersededBy, Tips, walk
  <2> QED
    BY <1>0, <1>1, <2>1, <2>2, <2>3 DEF ReadInv, HintsGiven
<1> QED
  BY <1>2, <1>3, <1>4, <1>5, <1>6, <1>7, <1>8 DEF LinksNext

LEMMA ReadCorrect == LinksSpec => []ReadInv
<1>1. LinksInit => ReadInv
  BY DEF LinksInit, ReadInv, WalkSees, NoSelfLink, HintsGiven, Tips
<1>2. SearchInv /\ CyclesAreFound /\ ReadInv /\ [LinksNext]_linksVars => ReadInv'
  BY ReadStep
<1> QED
  BY <1>1, <1>2, LinksTypeCorrect, CyclesFound, PTL DEF LinksSpec

(* Where no cycle lies ahead the walk returns exactly the current records that *)
(* stand in for its origin, each with the length of the shortest way to it,    *)
(* for any number of records and any links between them.                       *)
THEOREM TipsAreCurrent == LinksSpec => []ResolvesToCurrent
<1>1. SearchInv /\ ReadInv => ResolvesToCurrent
  <2> SUFFICES ASSUME SearchInv, ReadInv, pc \in {"annotate", "done"}, ~CycleAhead(origin)
               PROVE  Tips = Current(origin) /\ \A t \in Tips : tips[t] = Distance(origin, t)
    BY DEF ResolvesToCurrent
  <2>1. LinksTypeOK /\ origin \in Ids /\ Tips = Current(origin) /\ TipsAtLevel
    BY DEF SearchInv, LevelsSeen, ReadInv, WalkSees
  <2>2. ASSUME NEW t \in Tips PROVE tips[t] = Distance(origin, t)
    <3>1. tips[t] \in 0..N /\ AtLevel(t, tips[t])
      BY <2>1 DEF LinksTypeOK, Tips, TipsAtLevel
    <3>2. \A k \in 0..N : AtLevel(t, k) => k = tips[t]
      BY <2>1, <3>1, OneLevel
    <3>3. Distance(origin, t) = CHOOSE k \in 0..N : AtLevel(t, k)
      BY DEF Distance, AtLevel, Rise, Up
    <3> QED
      BY <3>1, <3>2, <3>3
  <2> QED
    BY <2>1, <2>2
<1> QED
  BY <1>1, LinksTypeCorrect, ReadCorrect, PTL

-----------------------------------------------------------------------------
(* Supersession: what the reader is told *)

(* Where no cycle lies ahead, every record has one above it, or is one itself, *)
(* that nobody supersedes: one of those above it with the fewest above them.   *)
LEMMA CurrentAbove ==
    ASSUME LinksTypeOK, NoSelfLink, origin \in Ids, ~CycleAhead(origin), NEW s \in Above[origin]
    PROVE  \E t \in Above[s] : Superseders(t) = {}
<1> DEFINE Height(x) == Cardinality(Above[x])
           Heights == {Height(x) : x \in Above[s]}
<1>1. s \in Ids /\ Above[s] \subseteq Above[origin] /\ s \in Above[s] /\ Above[s] \subseteq Ids
  BY AboveFacts
<1>2. \A x \in Ids : IsFiniteSet(Above[x]) /\ Height(x) \in Nat
  <2>1. IsFiniteSet(Ids)
    <3>1. N \in Nat /\ Ids = 1..N
      BY NIsNat
    <3> QED
      BY <3>1, FS_Interval
  <2>2. \A x \in Ids : Above[x] \in SUBSET Ids
    BY AboveFacts
  <2> QED
    BY <2>1, <2>2, FS_Subset, FS_CardinalityType
<1>3. Heights \subseteq Nat /\ Heights # {}
  BY <1>1, <1>2
<1> HIDE DEF Heights
<1>4. PICK h \in Heights : \A g \in Heights : ~(<<g, h>> \in OpToRel(<, Nat))
  BY <1>3, NatLessThanWellFounded, WFMin
<1>5. \A g \in Heights : ~(g < h)
  BY <1>3, <1>4 DEF OpToRel
<1>6. PICK x \in Above[s] : h = Height(x)
  BY DEF Heights
<1>7. ASSUME NEW y \in Superseders(x) PROVE FALSE
  <2>1. /\ x \in Ids /\ y \in Ids /\ y \in Above[x] /\ y # x /\ x \in Above[x]
        /\ Above[y] \subseteq Above[x] /\ y \in Above[s]
    <3>1. x \in Ids /\ y \in snap /\ y \in Ids
      BY <1>1, <1>6, <1>7, AboveFacts
    <3>2. y # x
      BY <1>7, <3>1 DEF NoSelfLink, Superseders
    <3>3. y \in Above[x] /\ x \in Above[x] /\ y \in Above[s]
      BY <1>1, <1>6, <1>7, <3>1, AboveFacts
    <3>4. Above[y] \subseteq Above[x]
      BY <3>1, <3>3, AboveFacts
    <3> QED
      BY <3>1, <3>2, <3>3, <3>4
  <2>2. x \notin Above[y]
    BY <1>1, <1>6, <2>1 DEF CycleAhead
  <2>3. Above[y] \in SUBSET Above[x] /\ Above[y] # Above[x]
    BY <2>1, <2>2
  <2>4. Height(y) <= Height(x) /\ Height(x) # Height(y)
    BY <1>2, <2>1, <2>3, FS_Subset
  <2>5. Height(y) \in Heights /\ Height(y) < h
    <3>1. Height(y) \in Heights
      BY <2>1 DEF Heights
    <3>2. Height(y) \in Nat /\ Height(x) \in Nat
      BY <1>2, <2>1
    <3> HIDE DEF Height
    <3> QED
      BY <1>6, <2>4, <3>1, <3>2
  <2> HIDE DEF Height
  <2> QED
    BY <1>5, <2>5
<1> QED
  BY <1>6, <1>7

(* The superseder that was scanned last is one of them.                        *)
LEMMA LastSuperseder ==
    ASSUME LinksTypeOK, NEW r \in Ids, Superseders(r) # {}
    PROVE  SupersededBy(r) \in Superseders(r)
<1> DEFINE U == {N - s : s \in Superseders(r)}
<1>1. N \in Nat /\ Superseders(r) \subseteq 1..N
  BY NIsNat DEF Superseders, LinksTypeOK
<1>2. U \subseteq Nat /\ U # {}
  BY <1>1
<1> HIDE DEF U
<1>3. PICK u \in U : \A w \in U : ~(<<w, u>> \in OpToRel(<, Nat))
  BY <1>2, NatLessThanWellFounded, WFMin
<1>4. \A w \in U : ~(w < u)
  BY <1>2, <1>3 DEF OpToRel
<1>5. PICK s \in Superseders(r) : u = N - s
  BY DEF U
<1>6. \A t \in Superseders(r) : t <= s
  <2> SUFFICES ASSUME NEW t \in Superseders(r) PROVE t <= s
    OBVIOUS
  <2>1. N - t \in U
    BY DEF U
  <2>2. ~(N - t < N - s)
    BY <1>4, <1>5, <2>1
  <2> QED
    BY <1>1, <1>5, <2>2
<1> QED
  BY <1>5, <1>6 DEF SupersededBy

(* Where no cycle lies ahead, the reader is pointed to every current record in *)
(* another domain and to nothing else; only where the one tip is a single hop  *)
(* away it may be another superseder that this tip supersedes too.             *)
THEOREM HintsAreTips == LinksSpec => []HintsNameTheTips
<1> DEFINE other == Elsewhere(origin)
<1>1. SearchInv /\ ReadInv => HintsNameTheTips
  <2> SUFFICES ASSUME SearchInv, ReadInv, pc = "done", ~CycleAhead(origin)
               PROVE  \/ hints = Current(origin) \cap other
                      \/ /\ Hops = 1 /\ Tips \subseteq Superseders(origin)
                         /\ hints \subseteq {s \in Superseders(origin) : Tips \subseteq Above[s]}
    BY DEF HintsNameTheTips
  <2>1. /\ LinksTypeOK /\ NoSelfLink /\ origin \in Ids /\ Tips = Current(origin) /\ TipsAtLevel
        /\ hints = Hints(origin)
    BY DEF SearchInv, LevelsSeen, ReadInv, WalkSees, HintsGiven
  <2>2. CASE Superseders(origin) = {}
    BY <2>1, <2>2, NothingAbove DEF Hints
  <2>3. CASE Superseders(origin) # {} /\ (Cardinality(Tips) > 1 \/ Hops > 1)
    BY <2>1, <2>3 DEF Hints
  <2>4. CASE Superseders(origin) # {} /\ ~(Cardinality(Tips) > 1 \/ Hops > 1)
    <3>1. hints \subseteq {SupersededBy(origin)} /\ SupersededBy(origin) \in Superseders(origin)
      BY <2>1, <2>4, LastSuperseder DEF Hints
    <3>2. ASSUME NEW s \in Superseders(origin)
          PROVE  \E t \in Tips : t \in Above[s]
      <4>1. s \in Above[origin] /\ s \in Ids
        BY <2>1, <3>2, AboveFacts
      <4>2. PICK t \in Above[s] : Superseders(t) = {}
        BY <2>1, <4>1, CurrentAbove
      <4>3. t \in Above[origin] /\ t # origin
        BY <2>1, <2>4, <4>1, <4>2, AboveFacts
      <4> QED
        BY <2>1, <4>2, <4>3 DEF Current
    <3>3. IsFiniteSet(Tips) /\ Cardinality(Tips) \in Nat
      <4>1. N \in Nat /\ Ids = 1..N /\ Tips \in SUBSET Ids
        BY NIsNat DEF Tips
      <4>2. IsFiniteSet(Ids)
        BY <4>1, FS_Interval
      <4> QED
        BY <4>1, <4>2, FS_Subset, FS_CardinalityType
    <3>4. Cardinality(Tips) = 1
      <4>1. Tips # {}
        BY <3>1, <3>2
      <4>2. Cardinality(Tips) # 0
        BY <3>3, <4>1, FS_EmptySet
      <4> QED
        BY <2>4, <3>3, <4>2
    <3>5. PICK t : Tips = {t}
      BY <3>3, <3>4, FS_Singleton
    <3>6. Hops = tips[t] /\ tips[t] # 0 /\ tips[t] \in 0..N /\ t \in Ids
      BY <2>1, <3>4, <3>5 DEF Hops, Tips, LinksTypeOK
    <3>7. Hops = 1 /\ AtLevel(t, 1) /\ 1 \in 0..N
      <4>1. tips[t] = 1
        BY <2>4, <3>6, NIsNat
      <4> QED
        BY <2>1, <3>5, <3>6, <4>1 DEF TipsAtLevel
    <3>8. t \in Superseders(origin)
      <4>1. Rise(0) = {origin} /\ Rise(0 + 1) = Rise(0) \cup UNION {Superseders(s) : s \in Rise(0)}
        <5>1. 0 \in 0..N /\ 0 < N
          BY <3>7, NIsNat
        <5> QED
          BY <2>1, <5>1, RiseFacts
      <4>2. t \in Rise(0 + 1) /\ t # origin
        BY <2>1, <3>5, <3>7 DEF AtLevel, Current
      <4> QED
        BY <4>1, <4>2
    <3> QED
      BY <3>1, <3>2, <3>5, <3>7, <3>8
  <2> QED
    BY <2>2, <2>3, <2>4
<1> QED
  BY <1>1, LinksTypeCorrect, ReadCorrect, PTL

-----------------------------------------------------------------------------
(* Reading: the orders of a page *)

LEMMA ReadingConstants ==
    /\ \A r \in Records : r \in Nat /\ r # 0
    /\ \A d \in Domains : d \in Nat /\ d # 0
    /\ Limits \cup {1} \subseteq Int /\ MaxClock \in Nat \ {0} /\ MaxTouches \in Nat
    /\ IsFiniteSet(Records \X Domains)
<1>1. IsFiniteSet(Records \X Domains)
  BY ReadingAssumption, FS_Product
<1>2. \A d \in Domains : d \in Nat /\ d # 0
  BY ReadingAssumption
<1>3. \A r \in Records : r \in Nat /\ r # 0
  BY ReadingAssumption
<1>4. Limits \cup {1} \subseteq Int /\ MaxClock \in Nat \ {0} /\ MaxTouches \in Nat
  BY ReadingAssumption
<1> QED
  BY <1>1, <1>2, <1>3, <1>4

(* The key orders the records, strictly and totally.                           *)
LEMMA KeyOrders ==
    ASSUME ReadingTypeOK
    PROVE  /\ \A r \in Records : ~Before(r, r)
           /\ \A r, q, p \in Records : Before(r, q) /\ Before(q, p) => Before(r, p)
           /\ \A r, q \in Records : r = q \/ Before(r, q) \/ Before(q, r)
<1>1. \A r \in Records : r \in Nat /\ stamp[r] \in Nat
  BY ReadingConstants DEF ReadingTypeOK
<1>2. \A r \in Records : ~Older(r, r)
  BY <1>1 DEF Older
<1>3. \A r, q, p \in Records : Older(r, q) /\ Older(q, p) => Older(r, p)
  BY <1>1 DEF Older
<1>4. \A r, q \in Records : r = q \/ Older(r, q) \/ Older(q, r)
  BY <1>1 DEF Older
<1> QED
  BY <1>2, <1>3, <1>4 DEF Before

(* What is read is finite, and a record is read once in a domain.              *)
LEMMA ReadOnce ==
    ASSUME ReadingTypeOK
    PROVE  /\ \A i \in got : i[1] \in Records /\ i[2] \in Domains /\ i = <<i[1], i[2]>>
           /\ \A i, j \in got : i[1] = j[1] /\ i[2] = j[2] => i = j
           /\ IsFiniteSet(got) /\ Left \in SUBSET got /\ IsFiniteSet(Left)
<1>1. got \in SUBSET (Records \X Domains)
  BY DEF ReadingTypeOK
<1>2. IsFiniteSet(got)
  BY <1>1, ReadingConstants, FS_Subset
<1>3. Left \in SUBSET got
  BY DEF Left
<1>4. IsFiniteSet(Left)
  BY <1>2, <1>3, FS_Subset
<1> QED
  BY <1>1, <1>2, <1>3, <1>4

Behind == [i \in Left |-> {j \in Left : Precedes(j, i)}]

(* The order of a page is strict and total.                                    *)
LEMMA LeftOrdered ==
    ASSUME ReadingTypeOK
    PROVE  OrderOf(Left, Behind)
<1>1. \A i \in Left : i[1] \in Records /\ i[2] \in Nat
  BY ReadOnce, ReadingConstants
<1>2. \A i, j \in Left : i[1] = j[1] /\ i[2] = j[2] => i = j
  BY ReadOnce
<1>3. \A i \in Left : ~Precedes(i, i)
  BY <1>1, KeyOrders DEF Precedes
<1>4. \A i, j, k \in Left : Precedes(i, j) /\ Precedes(j, k) => Precedes(i, k)
  <2> SUFFICES ASSUME NEW i \in Left, NEW j \in Left, NEW k \in Left,
                      Precedes(i, j), Precedes(j, k)
               PROVE  Precedes(i, k)
    OBVIOUS
  <2>1. i[1] \in Records /\ j[1] \in Records /\ k[1] \in Records
        /\ i[2] \in Nat /\ j[2] \in Nat /\ k[2] \in Nat
    BY <1>1
  <2>2. Before(i[1], j[1]) /\ Before(j[1], k[1]) => Before(i[1], k[1])
    BY <2>1, KeyOrders
  <2> QED
    BY <2>1, <2>2 DEF Precedes
<1>5. \A i, j \in Left : i = j \/ Precedes(i, j) \/ Precedes(j, i)
  <2> SUFFICES ASSUME NEW i \in Left, NEW j \in Left
               PROVE  i = j \/ Precedes(i, j) \/ Precedes(j, i)
    OBVIOUS
  <2>1. i[1] = j[1] \/ Before(i[1], j[1]) \/ Before(j[1], i[1])
    BY <1>1, KeyOrders
  <2>2. i[2] = j[2] \/ i[2] < j[2] \/ j[2] < i[2]
    BY <1>1
  <2> QED
    BY <1>2, <2>1, <2>2 DEF Precedes
<1> QED
  BY <1>3, <1>4, <1>5 DEF OrderOf, Behind

(* What is left after the anchor, in the order of the key.                     *)
LEMMA SortedIs ==
    ASSUME ReadingTypeOK
    PROVE  /\ Sorted \in Seq(Records \X Domains) /\ Len(Sorted) \in Nat
           /\ \A k \in 1..Len(Sorted) : Sorted[k] \in Left
           /\ \A i \in Left : \E k \in 1..Len(Sorted) : Sorted[k] = i
           /\ \A j, k \in 1..Len(Sorted) : j < k => Precedes(Sorted[j], Sorted[k])
<1>1. OrderOf(Left, Behind) /\ IsFiniteSet(Left)
  BY LeftOrdered, ReadOnce
<1>2. Sorted = InOrder(Behind)
  BY DEF Sorted, Behind
<1>3. Sorted \in Seq(Left) /\ Len(Sorted) \in Nat
  BY <1>1, <1>2, Ordered
<1>4. \A k \in 1..Len(Sorted) : Sorted[k] \in Left
  BY <1>1, <1>2, Ordered
<1>5. \A i \in Left : \E k \in 1..Len(Sorted) : Sorted[k] = i
  BY <1>1, <1>2, Ordered
<1>6. \A j, k \in 1..Len(Sorted) : j < k => Sorted[j] \in Behind[Sorted[k]]
  BY <1>1, <1>2, Ordered
<1>7. \A j, k \in 1..Len(Sorted) : j < k => Precedes(Sorted[j], Sorted[k])
  BY <1>4, <1>6 DEF Behind
<1>8. Left \subseteq Records \X Domains
  BY ReadOnce DEF ReadingTypeOK
<1>9. Sorted \in Seq(Records \X Domains)
  BY <1>3, <1>8, SeqMonotonic
<1> QED
  BY <1>3, <1>4, <1>5, <1>7, <1>9

(* A page is a beginning of what is left.                                      *)
LEMMA UptoIs ==
    ASSUME NEW S, NEW s \in Seq(S), NEW limit \in Int
    PROVE  /\ Upto(s, limit) \in Seq(S)
           /\ Len(Upto(s, limit)) \in Nat /\ Len(Upto(s, limit)) <= Len(s)
           /\ \A k \in 1..Len(Upto(s, limit)) : Upto(s, limit)[k] = s[k]
           /\ limit >= Len(s) => Upto(s, limit) = s
<1>1. Len(s) \in Nat /\ \A k \in 1..Len(s) : s[k] \in S
  BY LenProperties, ElementOfSeq
<1>2. CASE limit >= Len(s)
  BY <1>1, <1>2 DEF Upto
<1>3. CASE ~(limit >= Len(s))
  <2> PICK n \in Int : n = IF limit >= 0 THEN limit ELSE Len(s) + limit
    BY <1>1
  <2>1. n < Len(s)
    BY <1>1, <1>3
  <2>2. Upto(s, limit) = SubSeq(s, 1, n)
    BY <1>3 DEF Upto
  <2>3. \A k \in 1..n : s[k] \in S
    BY <1>1, <2>1
  <2>4. /\ SubSeq(s, 1, n) \in Seq(S)
        /\ Len(SubSeq(s, 1, n)) = IF 1 <= n THEN n - 1 + 1 ELSE 0
        /\ \A k \in 1..(n - 1 + 1) : SubSeq(s, 1, n)[k] = s[1 + k - 1]
    BY <2>3, SubSeqProperties
  <2>5. \A k \in 1..Len(SubSeq(s, 1, n)) : SubSeq(s, 1, n)[k] = s[k]
    BY <2>4
  <2> QED
    BY <1>1, <1>3, <2>1, <2>2, <2>4, <2>5
<1> QED
  BY <1>2, <1>3

Earlier(i, j) == Turn(i) < Turn(j) \/ (Turn(i) = Turn(j) /\ i[2] < j[2])
InTurn == [i \in got |-> {j \in got : Earlier(j, i)}]

(* The turn of a result counts those of its domain before it, so that it tells *)
(* the results of one domain apart, in the order in which the domain has them. *)
LEMMA TurnsGrow ==
    ASSUME ReadingTypeOK
    PROVE  /\ \A i \in got : Turn(i) \in Nat
           /\ \A i, j \in got : i[2] = j[2] => (i[1] < j[1] <=> Turn(i) < Turn(j))
           /\ \A i, j \in got : i[2] = j[2] /\ Turn(i) = Turn(j) => i = j
<1> DEFINE Prior(i) == {j \in got : j[2] = i[2] /\ j[1] < i[1]}
<1>1. \A i \in got : i[1] \in Nat
  BY ReadOnce, ReadingConstants
<1>2. ASSUME NEW i \in got PROVE IsFiniteSet(Prior(i)) /\ Turn(i) \in Nat
  <2>1. Prior(i) \in SUBSET got /\ Turn(i) = Cardinality(Prior(i))
    BY DEF Turn
  <2> QED
    BY <2>1, ReadOnce, FS_Subset, FS_CardinalityType
<1>3. ASSUME NEW i \in got, NEW j \in got, i[2] = j[2], i[1] < j[1]
      PROVE  Turn(i) < Turn(j)
  <2>1. Prior(i) \in SUBSET Prior(j)
    BY <1>1, <1>3
  <2>2. Prior(i) # Prior(j)
    <3>1. i \in Prior(j) /\ i \notin Prior(i)
      BY <1>1, <1>3
    <3> QED
      BY <3>1
  <2>3. Turn(i) = Cardinality(Prior(i)) /\ Turn(j) = Cardinality(Prior(j))
    BY DEF Turn
  <2>4. IsFiniteSet(Prior(j)) /\ Turn(i) \in Nat /\ Turn(j) \in Nat
    BY <1>2
  <2> HIDE DEF Prior
  <2>5. Cardinality(Prior(i)) <= Cardinality(Prior(j))
        /\ (Cardinality(Prior(j)) = Cardinality(Prior(i)) => Prior(j) = Prior(i))
    BY <2>1, <2>4, FS_Subset
  <2> QED
    BY <2>2, <2>3, <2>4, <2>5
<1>4. \A i, j \in got : i[2] = j[2] => i[1] < j[1] \/ j[1] < i[1] \/ i = j
  BY <1>1, ReadOnce
<1>5. \A i \in got : Turn(i) \in Nat
  BY <1>2
<1>6. \A i, j \in got : i[2] = j[2] /\ i[1] < j[1] => Turn(i) < Turn(j)
  BY <1>3
<1> QED
  BY <1>4, <1>5, <1>6

(* So is the order of the turns.                                               *)
LEMMA TurnsOrdered ==
    ASSUME ReadingTypeOK
    PROVE  OrderOf(got, InTurn)
<1>1. \A i \in got : i[2] \in Nat /\ Turn(i) \in Nat
  BY ReadOnce, ReadingConstants, TurnsGrow
<1>2. \A i, j \in got : i[2] = j[2] /\ Turn(i) = Turn(j) => i = j
  BY TurnsGrow
<1>3. \A i \in got : ~Earlier(i, i)
  BY <1>1 DEF Earlier
<1>4. \A i, j, k \in got : Earlier(i, j) /\ Earlier(j, k) => Earlier(i, k)
  BY <1>1 DEF Earlier
<1>5. \A i, j \in got : i = j \/ Earlier(i, j) \/ Earlier(j, i)
  BY <1>1, <1>2 DEF Earlier
<1> QED
  BY <1>3, <1>4, <1>5 DEF OrderOf, InTurn

(* The results of all domains, in turns.                                       *)
LEMMA RoundRobinIs ==
    ASSUME ReadingTypeOK
    PROVE  /\ RoundRobin \in Seq(Records \X Domains) /\ Len(RoundRobin) \in Nat
           /\ \A k \in 1..Len(RoundRobin) : RoundRobin[k] \in got
           /\ \A i \in got : \E k \in 1..Len(RoundRobin) : RoundRobin[k] = i
           /\ \A j, k \in 1..Len(RoundRobin) :
                  j < k <=> Earlier(RoundRobin[j], RoundRobin[k])
<1>1. OrderOf(got, InTurn) /\ IsFiniteSet(got)
  BY TurnsOrdered, ReadOnce
<1>2. RoundRobin = InOrder(InTurn)
  BY DEF RoundRobin, InTurn, Earlier
<1>3. RoundRobin \in Seq(got) /\ Len(RoundRobin) \in Nat
  BY <1>1, <1>2, Ordered
<1>4. \A k \in 1..Len(RoundRobin) : RoundRobin[k] \in got
  BY <1>1, <1>2, Ordered
<1>5. \A i \in got : \E k \in 1..Len(RoundRobin) : RoundRobin[k] = i
  BY <1>1, <1>2, Ordered
<1>6. \A j, k \in 1..Len(RoundRobin) : j < k <=> RoundRobin[j] \in InTurn[RoundRobin[k]]
  BY <1>1, <1>2, Ordered
<1>7. \A j, k \in 1..Len(RoundRobin) : j < k <=> Earlier(RoundRobin[j], RoundRobin[k])
  BY <1>4, <1>6 DEF InTurn
<1>8. RoundRobin \in Seq(Records \X Domains)
  BY <1>3, SeqMonotonic DEF ReadingTypeOK
<1> QED
  BY <1>3, <1>4, <1>5, <1>7, <1>8

Capped(limit) ==
    IF limit >= Len(RoundRobin) THEN RoundRobin ELSE SubSeq(RoundRobin, 1, limit)

(* A page of results is a beginning of them.                                   *)
LEMMA CappedIs ==
    ASSUME ReadingTypeOK, NEW limit \in Int
    PROVE  /\ Capped(limit) \in Seq(Records \X Domains)
           /\ Len(Capped(limit)) \in Nat /\ Len(Capped(limit)) <= Len(RoundRobin)
           /\ \A k \in 1..Len(Capped(limit)) : Capped(limit)[k] = RoundRobin[k]
           /\ limit >= 0 /\ limit < Len(RoundRobin) => Len(Capped(limit)) = limit
<1> DEFINE s == RoundRobin
           n == limit
<1>1. s \in Seq(Records \X Domains) /\ Len(s) \in Nat
      /\ \A k \in 1..Len(s) : s[k] \in Records \X Domains
  BY RoundRobinIs, ElementOfSeq
<1> HIDE DEF s
<1>2. CASE limit >= Len(s)
  BY <1>1, <1>2 DEF Capped, s
<1>3. CASE ~(limit >= Len(s))
  <2>1. \A k \in 1..n : s[k] \in Records \X Domains
    BY <1>1, <1>3
  <2>2. /\ SubSeq(s, 1, n) \in Seq(Records \X Domains)
        /\ Len(SubSeq(s, 1, n)) = IF 1 <= n THEN n - 1 + 1 ELSE 0
        /\ \A k \in 1..(n - 1 + 1) : SubSeq(s, 1, n)[k] = s[1 + k - 1]
    BY <2>1, SubSeqProperties
  <2>3. \A k \in 1..Len(SubSeq(s, 1, n)) : SubSeq(s, 1, n)[k] = s[k]
    BY <2>2
  <2>4. Capped(limit) = SubSeq(s, 1, n)
    BY <1>3 DEF Capped, s
  <2>5. Len(SubSeq(s, 1, n)) \in Nat /\ Len(SubSeq(s, 1, n)) <= Len(s)
        /\ (n >= 0 => Len(SubSeq(s, 1, n)) = n)
    BY <1>1, <1>3, <2>2
  <2> QED
    BY <2>2, <2>3, <2>4, <2>5 DEF s
<1> QED
  BY <1>2, <1>3

-----------------------------------------------------------------------------
(* Reading: the invariant of a walk over the pages *)

(* Only what has its time is read, and it keeps it.                            *)
StampedFirst ==
    /\ \A r \in Records : where[r] # 0 => stamp[r] # 0
    /\ \A i \in got : stamp[i[1]] # 0
    /\ \A k \in 1..Len(shown) : stamp[shown[k][1]] # 0

(* The cursor is the last record shown, and a walk that has none is at its     *)
(* beginning.                                                                  *)
AnchorIsLast ==
    /\ phase = "idle" => cursor = 0 /\ shown = <<>> /\ got = {}
    /\ phase = "reading" /\ cursor = 0 => shown = <<>>
    /\ phase = "more" => cursor # 0
    /\ cursor # 0 => shown # <<>> /\ cursor = shown[Len(shown)][1]

(* What is steady is what was asked for, and is read where it lies.            *)
SteadyIsRead == \A r \in steady :
    /\ where[r] \in ask.domains /\ Matches(r, ask)
    /\ \A i \in got : i[1] = r => i[2] = where[r]
    /\ phase = "reading" => where[r] \in unread \/ <<r, where[r]>> \in got

(* The pages shown so far, taken together, are in order.                       *)
ShownInOrder == \A j, k \in 1..Len(shown) : j < k =>
    \/ Before(shown[j][1], shown[k][1])
    \/ shown[j][1] = shown[k][1] /\ shown[j][1] \notin steady

(* What is steady is before the cursor, and shown, or behind it.               *)
IsShown(r) == \E k \in 1..Len(shown) : shown[k][1] = r
ShownOrAhead == \A r \in steady :
    /\ cursor = 0 \/ Before(cursor, r) \/ IsShown(r)
    /\ phase = "end" /\ ask.kind = "records" => IsShown(r)

ExpiredByChange == phase = "expired" => cursor \notin steady

WalkInv ==
    /\ ReadingTypeOK /\ StampedFirst /\ AnchorIsLast /\ SteadyIsRead
    /\ ShownInOrder /\ ShownOrAhead /\ ExpiredByChange

(* A page of results is the beginning of their order.                          *)
PageBegins ==
    phase \in Ended /\ ask.kind = "search" =>
        /\ page = IF ask.limit >= Len(RoundRobin) THEN RoundRobin
                   ELSE SubSeq(RoundRobin, 1, ask.limit)
        /\ phase = "cut" => ask.limit < Len(RoundRobin)

LEMMA ShowIsTyped ==
    ASSUME ReadingTypeOK, NEW records \in Seq(Records \X Domains), Show(records)
    PROVE  /\ shown' \in Seq(Records \X Domains) /\ page' \in Seq(Records \X Domains)
           /\ unread' = {} /\ got' = {}
           /\ UNCHANGED <<clock, files, touches, ask, steady>>
BY ConcatProperties DEF ReadingTypeOK, Show

LEMMA LastOfPage ==
    ASSUME NEW s \in Seq(Records \X Domains), s # <<>>
    PROVE  Len(s) \in 1..Len(s) /\ Last(s) = s[Len(s)] /\ Last(s)[1] \in Records
<1>1. Len(s) \in 1..Len(s)
  BY LenProperties, EmptySeq
<1>2. s[Len(s)] \in Records \X Domains
  BY <1>1, ElementOfSeq
<1> QED
  BY <1>1, <1>2 DEF Last

Written(r) ==
    StampRecord(r) \/ Archive(r) \/ Edit(r) \/ \E d \in Domains : Land(r, d) \/ Move(r, d)

Asked ==
    \/ ListDomains
    \/ \E limit \in Limits :
        \/ \E d \in Domains : ReadResource(d, limit)
        \/ \E domains \in (SUBSET Domains) \ {{}} :
            \/ SearchRecords(domains, limit)
            \/ \E filter \in BOOLEAN : ReadRecords(domains, filter, limit)

(* Whatever is asked for has the types of a request.                           *)
LEMMA AskIsTyped ==
    ASSUME ReadingTypeOK, Asked
    PROVE  \E kind \in Kinds, domains \in SUBSET Domains, since \in 0..MaxClock,
              filter \in BOOLEAN, limit \in Limits \cup {1} :
                  Ask(kind, domains, since, filter, limit)
<1>1. CASE ListDomains
  <2>1. "domains" \in Kinds /\ Domains \in SUBSET Domains /\ 0 \in 0..MaxClock
        /\ FALSE \in BOOLEAN /\ 1 \in Limits \cup {1}
    BY ReadingConstants DEF Kinds
  <2> QED
    BY <1>1, <2>1 DEF ListDomains
<1>2. ASSUME NEW limit \in Limits, NEW d \in Domains, ReadResource(d, limit)
      PROVE  \E kind \in Kinds, domains \in SUBSET Domains, since \in 0..MaxClock,
                filter \in BOOLEAN, lim \in Limits \cup {1} :
                    Ask(kind, domains, since, filter, lim)
  <2>1. "resource" \in Kinds /\ {d} \in SUBSET Domains /\ 0 \in 0..MaxClock
        /\ FALSE \in BOOLEAN /\ limit \in Limits \cup {1}
    BY ReadingConstants DEF Kinds
  <2> QED
    BY <1>2, <2>1 DEF ReadResource
<1>3. ASSUME NEW limit \in Limits, NEW domains \in SUBSET Domains, SearchRecords(domains, limit)
      PROVE  \E kind \in Kinds, ds \in SUBSET Domains, since \in 0..MaxClock,
                filter \in BOOLEAN, lim \in Limits \cup {1} :
                    Ask(kind, ds, since, filter, lim)
  <2>1. "search" \in Kinds /\ 0 \in 0..MaxClock
        /\ TRUE \in BOOLEAN /\ limit \in Limits \cup {1}
    BY ReadingConstants DEF Kinds
  <2> QED
    BY <1>3, <2>1 DEF SearchRecords
<1>4. ASSUME NEW limit \in Limits, NEW domains \in SUBSET Domains, NEW filter \in BOOLEAN,
             ReadRecords(domains, filter, limit)
      PROVE  \E kind \in Kinds, ds \in SUBSET Domains, since \in 0..MaxClock,
                want \in BOOLEAN, lim \in Limits \cup {1} :
                    Ask(kind, ds, since, want, lim)
  <2>1. "records" \in Kinds /\ limit \in Limits \cup {1}
    BY DEF Kinds
  <2>2. PICK since \in {0, noted} : Ask("records", domains, since, filter, limit)
    BY <1>4 DEF ReadRecords
  <2>3. since \in 0..MaxClock
    BY ReadingConstants DEF ReadingTypeOK
  <2> QED
    BY <2>1, <2>2, <2>3
<1> QED
  BY <1>1, <1>2, <1>3, <1>4 DEF Asked

LEMMA ReadingTypeStep ==
    ASSUME ReadingTypeOK, [ReadingNext]_readingVars
    PROVE  ReadingTypeOK'
<1> USE DEF ReadingTypeOK
<1>1. CASE Tick
  BY <1>1, ReadingConstants DEF Tick, files, reader
<1>2. ASSUME NEW r \in Records, Written(r) PROVE ReadingTypeOK'
  <2>1. touches' \in 0..MaxTouches /\ steady' \subseteq Records
        /\ UNCHANGED <<clock, noted, reader>>
    BY <1>2, ReadingConstants DEF Written, StampRecord, Archive, Edit, Land, Move, Touch
  <2>2. stamp' \in [Records -> 0..MaxClock] /\ where' \in [Records -> Domains \cup {0}]
        /\ fits' \in [Records -> BOOLEAN]
    <3>1. CASE StampRecord(r)
      <4>1. clock \in 0..MaxClock
        BY ReadingConstants
      <4> QED
        BY <3>1, <4>1 DEF StampRecord
    <3>2. CASE Archive(r)
      BY <3>2 DEF Archive
    <3>3. CASE Edit(r)
      BY <3>3 DEF Edit
    <3>4. ASSUME NEW d \in Domains, Land(r, d) \/ Move(r, d)
          PROVE  /\ stamp' \in [Records -> 0..MaxClock] /\ where' \in [Records -> Domains \cup {0}]
                 /\ fits' \in [Records -> BOOLEAN]
      BY <3>4 DEF Land, Move
    <3> QED
      BY <1>2, <3>1, <3>2, <3>3, <3>4 DEF Written
  <2> QED
    BY <2>1, <2>2 DEF reader
<1>3. CASE Asked
  <2> PICK kind \in Kinds, domains \in SUBSET Domains, since \in 0..MaxClock,
           filter \in BOOLEAN, limit \in Limits \cup {1} :
               Ask(kind, domains, since, filter, limit)
    BY <1>3, AskIsTyped
  <2> QED
    BY DEF Ask, files
<1>4. CASE NextPage
  BY <1>4 DEF NextPage, files
<1>5. CASE Leave
  <2>1. NoAsk \in [kind : Kinds, domains : SUBSET Domains, since : 0..MaxClock,
                   filter : BOOLEAN, limit : Limits \cup {1}]
    BY ReadingConstants DEF NoAsk, Kinds
  <2>2. <<>> \in Seq(Records \X Domains)
    BY EmptySeq
  <2> QED
    BY <1>5, <2>1, <2>2 DEF Leave, files
<1>6. ASSUME NEW d \in Domains, ReadDomain(d) PROVE ReadingTypeOK'
  BY <1>6 DEF ReadDomain, files
<1>7. CASE Expire
  <2>1. <<>> \in Seq(Records \X Domains)
    BY EmptySeq
  <2>2. Show(<<>>) /\ phase' = "expired" /\ UNCHANGED <<cursor, noted>>
    BY <1>7 DEF Expire
  <2> QED
    BY <2>1, <2>2, ShowIsTyped DEF files, Ended
<1>8. CASE Cut
  <2> PICK first : first = Upto(Sorted, ask.limit)
    OBVIOUS
  <2>1. first \in Seq(Records \X Domains)
    BY SortedIs, UptoIs, ReadingConstants
  <2>2. Show(first) /\ UNCHANGED noted /\ phase' \in {"end", "more", "cut"}
        /\ (cursor' = 0 \/ (first # <<>> /\ cursor' = Last(first)[1]))
    BY <1>8 DEF Cut
  <2>3. cursor' \in Records \cup {0}
    BY <2>1, <2>2, LastOfPage
  <2> QED
    BY <2>1, <2>2, <2>3, ShowIsTyped DEF files, Ended
<1>9. CASE Cap
  <2>1. page' = Capped(ask.limit) /\ ask.limit \in Int
    BY <1>9, ReadingConstants DEF Cap, Capped
  <2>2. page' \in Seq(Records \X Domains)
    BY <2>1, CappedIs
  <2> QED
    BY <1>9, <2>2 DEF Cap, files, Ended
<1>10. CASE Note
  <2>1. <<>> \in Seq(Records \X Domains)
    BY EmptySeq
  <2>2. Show(<<>>) /\ phase' = "end" /\ noted' = clock /\ UNCHANGED cursor
    BY <1>10 DEF Note
  <2>3. clock \in 0..MaxClock
    BY ReadingConstants
  <2> QED
    BY <2>1, <2>2, <2>3, ShowIsTyped DEF files, Ended
<1>11. CASE UNCHANGED readingVars
  BY <1>11 DEF readingVars, files, reader
<1> QED
  BY <1>1, <1>2, <1>3, <1>4, <1>5, <1>6, <1>7, <1>8, <1>9, <1>10, <1>11
     DEF ReadingNext, Written, Asked

LEMMA ReadingTypeInit == ReadingInit => ReadingTypeOK
<1> SUFFICES ASSUME ReadingInit PROVE ReadingTypeOK
  OBVIOUS
<1>1. NoAsk \in [kind : Kinds, domains : SUBSET Domains, since : 0..MaxClock,
                 filter : BOOLEAN, limit : Limits \cup {1}]
  BY ReadingConstants DEF NoAsk, Kinds
<1>2. <<>> \in Seq(Records \X Domains) /\ 0..1 \subseteq 0..MaxClock
      /\ 1 \in 1..MaxClock /\ 0 \in 0..MaxClock /\ 0 \in 0..MaxTouches
  BY EmptySeq, ReadingConstants
<1> QED
  BY <1>1, <1>2 DEF ReadingInit, ReadingTypeOK

(* The pages shown, the cursor and what is still to read keep their types.     *)
THEOREM ReadingTypeCorrect == ReadingSpec => []ReadingTypeOK
<1>1. ReadingTypeOK /\ [ReadingNext]_readingVars => ReadingTypeOK'
  BY ReadingTypeStep
<1> QED
  BY <1>1, ReadingTypeInit, PTL DEF ReadingSpec

-----------------------------------------------------------------------------
(* Reading: its steps *)

(* A change of a record leaves the others alone, and the times that are set.   *)
LEMMA WrittenKeeps ==
    ASSUME WalkInv, NEW r \in Records, Written(r)
    PROVE  /\ UNCHANGED reader /\ steady' = steady \ {r}
           /\ \A q \in Records : q # r =>
                stamp'[q] = stamp[q] /\ where'[q] = where[q] /\ fits'[q] = fits[q]
           /\ \A q \in Records : stamp[q] # 0 => stamp'[q] = stamp[q]
           /\ \A q \in Records : where'[q] # 0 => stamp'[q] # 0
<1> USE DEF WalkInv, ReadingTypeOK
<1>1. UNCHANGED reader /\ steady' = steady \ {r}
  BY DEF Written, StampRecord, Archive, Edit, Land, Move, Touch
<1>2. \A q \in Records : where[q] # 0 => stamp[q] # 0
  BY DEF StampedFirst
<1>3. CASE StampRecord(r)
  BY <1>1, <1>2, <1>3 DEF StampRecord
<1>4. CASE Archive(r)
  BY <1>1, <1>2, <1>4 DEF Archive
<1>5. CASE Edit(r)
  BY <1>1, <1>2, <1>5 DEF Edit
<1>6. ASSUME NEW d \in Domains, Land(r, d) \/ Move(r, d)
      PROVE  /\ \A q \in Records : q # r =>
                  stamp'[q] = stamp[q] /\ where'[q] = where[q] /\ fits'[q] = fits[q]
             /\ \A q \in Records : stamp[q] # 0 => stamp'[q] = stamp[q]
             /\ \A q \in Records : where'[q] # 0 => stamp'[q] # 0
  BY <1>2, <1>6 DEF Land, Move
<1> QED
  BY <1>1, <1>3, <1>4, <1>5, <1>6 DEF Written

(* No change of a record disturbs the walk.                                    *)
LEMMA WrittenStep ==
    ASSUME WalkInv, NEW r \in Records, Written(r), ReadingTypeOK'
    PROVE  WalkInv'
<1>1. UNCHANGED <<ask, phase, unread, got, cursor, shown, page>> /\ steady' = steady \ {r}
  BY WrittenKeeps DEF reader
<1>2. \A q \in Records : q # r =>
          stamp'[q] = stamp[q] /\ where'[q] = where[q] /\ fits'[q] = fits[q]
  BY WrittenKeeps
<1>3. \A q \in Records : stamp[q] # 0 => stamp'[q] = stamp[q]
  BY WrittenKeeps
<1>4. \A q \in Records : where'[q] # 0 => stamp'[q] # 0
  BY WrittenKeeps
<1>5. /\ \A i \in got : i[1] \in Records /\ stamp[i[1]] # 0
      /\ \A k \in 1..Len(shown) : shown[k][1] \in Records /\ stamp[shown[k][1]] # 0
      /\ steady \subseteq Records /\ cursor \in Records \cup {0}
  <2>1. \A k \in 1..Len(shown) : shown[k] \in Records \X Domains
    BY ElementOfSeq DEF WalkInv, ReadingTypeOK
  <2> QED
    BY <2>1 DEF WalkInv, ReadingTypeOK, StampedFirst
<1>6. cursor # 0 => stamp[cursor] # 0
  <2> SUFFICES ASSUME cursor # 0 PROVE stamp[cursor] # 0
    OBVIOUS
  <2>1. shown # <<>> /\ cursor = shown[Len(shown)][1]
    BY DEF WalkInv, AnchorIsLast
  <2>2. Len(shown) \in 1..Len(shown)
    BY <2>1, LenProperties, EmptySeq DEF WalkInv, ReadingTypeOK
  <2> QED
    BY <2>1, <2>2, <1>5
<1>7. \A q \in steady : where[q] # 0 /\ stamp[q] # 0
  <2>1. \A q \in steady : where[q] \in ask.domains /\ ask.domains \subseteq Domains
    BY DEF WalkInv, ReadingTypeOK, SteadyIsRead
  <2> QED
    BY <2>1, <1>5, ReadingConstants DEF WalkInv, StampedFirst
<1>8. StampedFirst'
  BY <1>1, <1>3, <1>4, <1>5 DEF StampedFirst
<1>9. AnchorIsLast'
  BY <1>1 DEF WalkInv, AnchorIsLast
<1>10. SteadyIsRead'
  <2> SUFFICES ASSUME NEW q \in steady, q # r
               PROVE  (/\ where[q] \in ask.domains /\ Matches(q, ask)
                       /\ \A i \in got : i[1] = q => i[2] = where[q]
                       /\ phase = "reading" => where[q] \in unread \/ <<q, where[q]>> \in got)'
    BY <1>1 DEF SteadyIsRead
  <2>1. stamp'[q] = stamp[q] /\ where'[q] = where[q] /\ fits'[q] = fits[q]
    BY <1>2, <1>5
  <2> QED
    BY <1>1, <2>1 DEF WalkInv, SteadyIsRead, Matches
<1>11. ShownInOrder'
  <2> SUFFICES ASSUME NEW j \in 1..Len(shown), NEW k \in 1..Len(shown), j < k
               PROVE  (\/ Before(shown[j][1], shown[k][1])
                       \/ shown[j][1] = shown[k][1] /\ shown[j][1] \notin steady)'
    BY <1>1 DEF ShownInOrder
  <2>1. Before(shown[j][1], shown[k][1])
        \/ (shown[j][1] = shown[k][1] /\ shown[j][1] \notin steady)
    BY DEF WalkInv, ShownInOrder
  <2>2. Before(shown[j][1], shown[k][1]) => Before(shown[j][1], shown[k][1])'
    BY <1>1, <1>3, <1>5 DEF Before, Older
  <2> QED
    BY <1>1, <2>1, <2>2
<1>12. ShownOrAhead'
  <2> SUFFICES ASSUME NEW q \in steady, q # r
               PROVE  (/\ cursor = 0 \/ Before(cursor, q) \/ IsShown(q)
                       /\ phase = "end" /\ ask.kind = "records" => IsShown(q))'
    BY <1>1 DEF ShownOrAhead
  <2>1. IsShown(q) => IsShown(q)'
    BY <1>1 DEF IsShown
  <2>2. cursor # 0 /\ Before(cursor, q) => Before(cursor, q)'
    BY <1>1, <1>3, <1>5, <1>6, <1>7 DEF Before, Older
  <2>3. /\ cursor = 0 \/ Before(cursor, q) \/ IsShown(q)
        /\ phase = "end" /\ ask.kind = "records" => IsShown(q)
    BY DEF WalkInv, ShownOrAhead
  <2> QED
    BY <1>1, <2>1, <2>2, <2>3
<1>13. ExpiredByChange'
  BY <1>1 DEF WalkInv, ExpiredByChange
<1> QED
  BY <1>8, <1>9, <1>10, <1>11, <1>12, <1>13 DEF WalkInv

LEMMA AskStep ==
    ASSUME WalkInv, Asked, ReadingTypeOK'
    PROVE  WalkInv'
<1>1. PICK kind \in Kinds, domains \in SUBSET Domains, since \in 0..MaxClock,
           filter \in BOOLEAN, limit \in Limits \cup {1} :
               Ask(kind, domains, since, filter, limit)
  BY AskIsTyped DEF WalkInv
<1>2. /\ phase = "idle" /\ phase' = "reading" /\ unread' = domains /\ ask'.domains = domains
      /\ steady' = {r \in Records : where[r] \in domains /\ Matches(r, ask')}
      /\ UNCHANGED <<stamp, where, fits, got, cursor, shown>>
  BY <1>1 DEF Ask, files
<1>3. cursor = 0 /\ shown = <<>> /\ got = {} /\ Len(shown) = 0
  BY <1>2, EmptySeq DEF WalkInv, AnchorIsLast
<1>4. StampedFirst'
  BY <1>2 DEF WalkInv, StampedFirst
<1>5. AnchorIsLast'
  BY <1>2, <1>3 DEF AnchorIsLast
<1>6. SteadyIsRead'
  BY <1>2, <1>3 DEF SteadyIsRead, Matches
<1>7. ShownInOrder'
  BY <1>2, <1>3 DEF ShownInOrder
<1>8. ShownOrAhead'
  BY <1>2, <1>3 DEF ShownOrAhead
<1>9. ExpiredByChange'
  BY <1>2 DEF ExpiredByChange
<1> QED
  BY <1>4, <1>5, <1>6, <1>7, <1>8, <1>9 DEF WalkInv

LEMMA NextPageStep ==
    ASSUME WalkInv, NextPage, ReadingTypeOK'
    PROVE  WalkInv'
<1>1. /\ phase = "more" /\ phase' = "reading" /\ unread' = ask.domains /\ got' = {}
      /\ UNCHANGED <<stamp, where, fits, ask, cursor, shown, steady>>
  BY DEF NextPage, files
<1>2. StampedFirst'
  BY <1>1 DEF WalkInv, StampedFirst
<1>3. AnchorIsLast'
  BY <1>1 DEF WalkInv, AnchorIsLast
<1>4. SteadyIsRead'
  BY <1>1 DEF WalkInv, SteadyIsRead, Matches
<1>5. ShownInOrder'
  BY <1>1 DEF WalkInv, ShownInOrder, Before, Older
<1>6. ShownOrAhead'
  BY <1>1 DEF WalkInv, ShownOrAhead, IsShown, Before, Older
<1>7. ExpiredByChange'
  BY <1>1 DEF ExpiredByChange
<1> QED
  BY <1>2, <1>3, <1>4, <1>5, <1>6, <1>7 DEF WalkInv

LEMMA LeaveStep ==
    ASSUME WalkInv, Leave, ReadingTypeOK'
    PROVE  WalkInv'
<1>1. /\ phase' = "idle" /\ got' = {} /\ cursor' = 0 /\ shown' = <<>> /\ steady' = {}
      /\ UNCHANGED <<stamp, where, fits>>
  BY DEF Leave, files
<1>2. Len(shown') = 0
  BY <1>1, EmptySeq
<1>3. StampedFirst'
  BY <1>1, <1>2 DEF WalkInv, StampedFirst
<1>4. AnchorIsLast'
  BY <1>1 DEF AnchorIsLast
<1>5. SteadyIsRead'
  BY <1>1 DEF SteadyIsRead
<1>6. ShownInOrder'
  BY <1>2 DEF ShownInOrder
<1>7. ShownOrAhead'
  BY <1>1 DEF ShownOrAhead
<1>8. ExpiredByChange'
  BY <1>1 DEF ExpiredByChange
<1> QED
  BY <1>3, <1>4, <1>5, <1>6, <1>7, <1>8 DEF WalkInv

(* A steady record of the domain is read now.                                  *)
LEMMA ReadDomainStep ==
    ASSUME WalkInv, NEW d \in Domains, ReadDomain(d), ReadingTypeOK'
    PROVE  WalkInv'
<1>1. /\ phase = "reading" /\ unread' = unread \ {d}
      /\ got' = got \cup {<<r, d>> : r \in {q \in Records : where[q] = d /\ Matches(q, ask)}}
      /\ UNCHANGED <<stamp, where, fits, ask, phase, cursor, shown, steady>>
  BY DEF ReadDomain, files
<1>2. \A i \in got' : i \in got
          \/ (i[1] \in Records /\ i[2] = d /\ where[i[1]] = d)
  BY <1>1
<1>3. d # 0
  BY ReadingConstants
<1>4. StampedFirst'
  BY <1>1, <1>2, <1>3 DEF WalkInv, StampedFirst
<1>5. AnchorIsLast'
  BY <1>1 DEF WalkInv, AnchorIsLast
<1>6. SteadyIsRead'
  <2> SUFFICES ASSUME NEW q \in steady
               PROVE  (/\ where[q] \in ask.domains /\ Matches(q, ask)
                       /\ \A i \in got : i[1] = q => i[2] = where[q]
                       /\ phase = "reading" => where[q] \in unread \/ <<q, where[q]>> \in got)'
    BY <1>1 DEF SteadyIsRead
  <2>1. q \in Records
    BY DEF WalkInv, ReadingTypeOK
  <2>2. /\ where[q] \in ask.domains /\ Matches(q, ask)
        /\ \A i \in got : i[1] = q => i[2] = where[q]
        /\ where[q] \in unread \/ <<q, where[q]>> \in got
    BY <1>1 DEF WalkInv, SteadyIsRead
  <2>3. \A i \in got' : i[1] = q => i[2] = where[q]
    BY <1>2, <2>2
  <2>4. where[q] = d => <<q, where[q]>> \in got'
    BY <1>1, <2>1, <2>2
  <2>5. where[q] \in unread' \/ <<q, where[q]>> \in got'
    BY <1>1, <2>2, <2>4
  <2>6. Matches(q, ask)'
    BY <1>1, <2>2 DEF Matches
  <2> QED
    BY <1>1, <2>2, <2>3, <2>5, <2>6
<1>7. ShownInOrder'
  BY <1>1 DEF WalkInv, ShownInOrder, Before, Older
<1>8. ShownOrAhead'
  BY <1>1 DEF WalkInv, ShownOrAhead, IsShown, Before, Older
<1>9. ExpiredByChange'
  BY <1>1 DEF ExpiredByChange
<1> QED
  BY <1>4, <1>5, <1>6, <1>7, <1>8, <1>9 DEF WalkInv

(* The end of a read without a page leaves the walk as it was.                 *)
LEMMA EmptyShow ==
    ASSUME WalkInv, Show(<<>>)
    PROVE  /\ shown' = shown /\ got' = {}
           /\ UNCHANGED <<stamp, where, fits, ask, steady>>
           /\ StampedFirst' /\ ShownInOrder'
<1>1. shown \in Seq(Records \X Domains)
  BY DEF WalkInv, ReadingTypeOK
<1>2. shown \o <<>> = shown
  BY <1>1, ConcatEmptySeq
<1>3. shown' = shown /\ got' = {} /\ UNCHANGED <<stamp, where, fits, ask, steady>>
  BY <1>2 DEF Show, files
<1>4. StampedFirst'
  BY <1>3 DEF WalkInv, StampedFirst
<1>5. ShownInOrder'
  BY <1>3 DEF WalkInv, ShownInOrder, Before, Older
<1> QED
  BY <1>3, <1>4, <1>5

(* A steady anchor would have been read.                                       *)
LEMMA ExpireStep ==
    ASSUME WalkInv, Expire, ReadingTypeOK'
    PROVE  WalkInv'
<1>1. phase = "reading" /\ unread = {} /\ ~Anchored /\ phase' = "expired"
      /\ Show(<<>>) /\ cursor' = cursor
  BY DEF Expire
<1>2. shown' = shown /\ got' = {} /\ UNCHANGED <<stamp, where, fits, ask, steady>>
  BY <1>1, EmptyShow
<1>3. StampedFirst' /\ ShownInOrder'
  BY <1>1, EmptyShow
<1>4. AnchorIsLast'
  BY <1>1, <1>2 DEF WalkInv, AnchorIsLast
<1>5. SteadyIsRead'
  BY <1>1, <1>2 DEF WalkInv, SteadyIsRead, Matches
<1>6. ShownOrAhead'
  BY <1>1, <1>2 DEF WalkInv, ShownOrAhead, IsShown, Before, Older
<1>7. ExpiredByChange'
  <2>1. ASSUME cursor \in steady PROVE FALSE
    <3>1. <<cursor, where[cursor]>> \in got
      BY <1>1, <2>1 DEF WalkInv, SteadyIsRead
    <3> QED
      BY <1>1, <3>1 DEF Anchored
  <2> QED
    BY <1>1, <1>2, <2>1 DEF ExpiredByChange
<1> QED
  BY <1>3, <1>4, <1>5, <1>6, <1>7 DEF WalkInv

LEMMA NoteStep ==
    ASSUME WalkInv, Note, ReadingTypeOK'
    PROVE  WalkInv'
<1>1. ask.kind = "domains" /\ phase' = "end" /\ Show(<<>>) /\ cursor' = cursor
  BY DEF Note
<1>2. shown' = shown /\ got' = {} /\ UNCHANGED <<stamp, where, fits, ask, steady>>
  BY <1>1, EmptyShow
<1>3. StampedFirst' /\ ShownInOrder'
  BY <1>1, EmptyShow
<1>4. AnchorIsLast'
  BY <1>1, <1>2 DEF WalkInv, AnchorIsLast
<1>5. SteadyIsRead'
  BY <1>1, <1>2 DEF WalkInv, SteadyIsRead, Matches
<1>6. ShownOrAhead'
  BY <1>1, <1>2 DEF WalkInv, ShownOrAhead, IsShown, Before, Older
<1>7. ExpiredByChange'
  BY <1>1 DEF ExpiredByChange
<1> QED
  BY <1>3, <1>4, <1>5, <1>6, <1>7 DEF WalkInv

LEMMA CapStep ==
    ASSUME WalkInv, Cap, ReadingTypeOK'
    PROVE  WalkInv'
<1>1. /\ ask.kind = "search" /\ phase' \in {"cut", "end"} /\ unread' = {}
      /\ UNCHANGED <<stamp, where, fits, ask, got, cursor, shown, steady>>
  BY DEF Cap, files
<1>2. StampedFirst'
  BY <1>1 DEF WalkInv, StampedFirst
<1>3. AnchorIsLast'
  BY <1>1 DEF WalkInv, AnchorIsLast
<1>4. SteadyIsRead'
  BY <1>1 DEF WalkInv, SteadyIsRead, Matches
<1>5. ShownInOrder'
  BY <1>1 DEF WalkInv, ShownInOrder, Before, Older
<1>6. ShownOrAhead'
  BY <1>1 DEF WalkInv, ShownOrAhead, IsShown, Before, Older
<1>7. ExpiredByChange'
  BY <1>1 DEF ExpiredByChange
<1> QED
  BY <1>2, <1>3, <1>4, <1>5, <1>6, <1>7 DEF WalkInv

(* The page that Cut takes, and what it shows with those before.               *)
First == Upto(Sorted, ask.limit)

(* The page goes behind what was shown.                                        *)
LEMMA CutShows ==
    ASSUME WalkInv, Cut
    PROVE  /\ Len(shown) \in Nat /\ Len(First) \in Nat
           /\ Len(First) <= Len(Sorted) /\ Len(Sorted) \in Nat
           /\ Len(shown') = Len(shown) + Len(First)
           /\ \A k \in 1..Len(shown) : shown'[k] = shown[k]
           /\ \A k \in 1..Len(First) : shown'[Len(shown) + k] = Sorted[k]
           /\ \A k \in 1..Len(Sorted) : Sorted[k] \in got /\ Beyond(Sorted[k][1])
           /\ got' = {} /\ UNCHANGED <<stamp, where, fits, ask, steady>>
<1>1. ReadingTypeOK /\ ask.limit \in Int
  BY ReadingConstants DEF WalkInv, ReadingTypeOK
<1>2. Sorted \in Seq(Records \X Domains) /\ Len(Sorted) \in Nat
  BY <1>1, SortedIs
<1>3. /\ First \in Seq(Records \X Domains)
      /\ Len(First) \in Nat /\ Len(First) <= Len(Sorted)
      /\ \A k \in 1..Len(First) : First[k] = Sorted[k]
  BY <1>1, <1>2, UptoIs DEF First
<1>4. /\ shown' = shown \o First
      /\ got' = {} /\ UNCHANGED <<stamp, where, fits, ask, steady>>
  BY DEF Cut, Show, First, files
<1>5. shown \in Seq(Records \X Domains) /\ Len(shown) \in Nat
  BY <1>1, LenProperties DEF ReadingTypeOK
<1>6. /\ Len(shown \o First) = Len(shown) + Len(First)
      /\ \A k \in 1..(Len(shown) + Len(First)) :
             (shown \o First)[k] = IF k <= Len(shown) THEN shown[k] ELSE First[k - Len(shown)]
  BY <1>3, <1>5, ConcatProperties
<1>7. \A k \in 1..Len(shown) : shown'[k] = shown[k]
  BY <1>3, <1>4, <1>5, <1>6
<1>8. ASSUME NEW k \in 1..Len(First) PROVE shown'[Len(shown) + k] = Sorted[k]
  <2>1. Len(shown) + k \in 1..(Len(shown) + Len(First)) /\ ~(Len(shown) + k <= Len(shown))
        /\ Len(shown) + k - Len(shown) = k
    BY <1>3, <1>5
  <2> QED
    BY <1>3, <1>4, <1>6, <2>1
<1>9. \A k \in 1..Len(Sorted) : Sorted[k] \in got /\ Beyond(Sorted[k][1])
  BY <1>1, SortedIs DEF Left
<1> QED
  BY <1>2, <1>3, <1>4, <1>5, <1>6, <1>7, <1>8, <1>9

(* Where the walk stands after it.                                             *)
LEMMA CutLeads ==
    ASSUME WalkInv, Cut
    PROVE  /\ phase' \in {"end", "more", "cut"}
           /\ phase' = "end" => Len(First) = Len(Sorted)
           /\ phase' = "more" => cursor' # 0
           /\ cursor' # 0 => Len(First) \in 1..Len(First) /\ cursor' = Sorted[Len(First)][1]
<1>1. ReadingTypeOK /\ ask.limit \in Int
  BY ReadingConstants DEF WalkInv, ReadingTypeOK
<1>2. Sorted \in Seq(Records \X Domains) /\ Len(Sorted) \in Nat
  BY <1>1, SortedIs
<1>3. /\ First \in Seq(Records \X Domains)
      /\ \A k \in 1..Len(First) : First[k] = Sorted[k]
      /\ ask.limit >= Len(Sorted) => First = Sorted
  BY <1>1, <1>2, UptoIs DEF First
<1>4. CASE ask.limit >= Len(Sorted)
  <2>1. phase' = "end" /\ cursor' = 0
    BY <1>4 DEF Cut
  <2> QED
    BY <1>3, <1>4, <2>1
<1>5. CASE ~(ask.limit >= Len(Sorted)) /\ ask.kind = "records" /\ First # <<>>
  <2>1. phase' = "more" /\ cursor' = Last(First)[1]
    BY <1>5 DEF Cut, First
  <2>2. Len(First) \in 1..Len(First) /\ Last(First) = First[Len(First)]
        /\ Last(First)[1] \in Records
    BY <1>3, <1>5, LastOfPage
  <2>3. cursor' # 0 /\ cursor' = Sorted[Len(First)][1]
    BY <1>3, <2>1, <2>2, ReadingConstants
  <2> QED
    BY <2>1, <2>2, <2>3
<1>6. CASE ~(ask.limit >= Len(Sorted)) /\ ~(ask.kind = "records" /\ First # <<>>)
  <2>1. phase' = "cut" /\ cursor' = 0
    BY <1>6 DEF Cut, First
  <2> QED
    BY <2>1
<1> QED
  BY <1>4, <1>5, <1>6

(* A record that is read twice has moved meanwhile.                            *)
LEMMA SortedAhead ==
    ASSUME WalkInv, NEW j \in 1..Len(Sorted), NEW k \in 1..Len(Sorted), j < k
    PROVE  Before(Sorted[j][1], Sorted[k][1])
           \/ (Sorted[j][1] = Sorted[k][1] /\ Sorted[j][1] \notin steady)
<1>1. ReadingTypeOK
  BY DEF WalkInv
<1>2. Sorted[j] \in Left /\ Sorted[k] \in Left /\ Precedes(Sorted[j], Sorted[k])
  BY <1>1, SortedIs
<1>3. Sorted[j] \in got /\ Sorted[k] \in got
  BY <1>2 DEF Left
<1>4. ASSUME Sorted[j][1] = Sorted[k][1], Sorted[j][2] < Sorted[k][2], Sorted[j][1] \in steady
      PROVE  FALSE
  <2>1. Sorted[j][2] = where[Sorted[j][1]] /\ Sorted[k][2] = where[Sorted[j][1]]
    BY <1>3, <1>4 DEF WalkInv, SteadyIsRead
  <2>2. Sorted[j][2] \in Nat
    BY <1>1, <1>3, ReadOnce, ReadingConstants
  <2> QED
    BY <1>4, <2>1, <2>2
<1> QED
  BY <1>2, <1>4 DEF Precedes

(* The new page goes on where the cursor was, and what is steady is in it or   *)
(* behind it.                                                                  *)
LEMMA CutStep ==
    ASSUME WalkInv, Cut, ReadingTypeOK'
    PROVE  WalkInv'
<1> DEFINE n == Len(shown)
           m == Len(First)
<1>1. /\ n \in Nat /\ m \in Nat /\ m <= Len(Sorted) /\ Len(Sorted) \in Nat
      /\ Len(shown') = n + m
  BY CutShows
<1>2. \A k \in 1..n : shown'[k] = shown[k]
  BY CutShows
<1>3. \A k \in 1..m : shown'[n + k] = Sorted[k]
  BY CutShows
<1>4. \A k \in 1..Len(Sorted) : Sorted[k] \in got /\ Beyond(Sorted[k][1])
  BY CutShows
<1>5. got' = {} /\ UNCHANGED <<stamp, where, fits, ask, steady>>
  BY CutShows
<1>6. ReadingTypeOK /\ phase = "reading" /\ unread = {}
  BY DEF WalkInv, Cut
<1>7. \A k \in 1..(n + m) : k \in 1..n \/ \E h \in 1..m : k = n + h
  <2> SUFFICES ASSUME NEW k \in 1..(n + m), k \notin 1..n
               PROVE  \E h \in 1..m : k = n + h
    OBVIOUS
  <2>1. k - n \in 1..m /\ k = n + (k - n)
    BY <1>1
  <2> QED
    BY <2>1
<1>8. \A h \in 1..m : h \in 1..Len(Sorted)
  BY <1>1
<1>9. \A k \in 1..n : shown[k] \in Records \X Domains
  BY <1>6, ElementOfSeq DEF ReadingTypeOK
<1>10. \A i \in got : i[1] \in Records
  BY <1>6, ReadOnce
<1> HIDE DEF n, m
<1>11. StampedFirst'
  <2>1. ASSUME NEW k \in 1..(n + m) PROVE stamp[shown'[k][1]] # 0
    <3>1. CASE k \in 1..n
      BY <1>2, <3>1 DEF WalkInv, StampedFirst, n
    <3>2. ASSUME NEW h \in 1..m, k = n + h PROVE stamp[shown'[k][1]] # 0
      BY <1>3, <1>4, <1>8, <3>2 DEF WalkInv, StampedFirst
    <3> QED
      BY <1>7, <3>1, <3>2
  <2> QED
    BY <1>1, <1>5, <2>1 DEF WalkInv, StampedFirst
<1>12. AnchorIsLast'
  <2>1. phase' \in {"end", "more", "cut"} /\ (phase' = "more" => cursor' # 0)
    BY CutLeads
  <2>2. ASSUME cursor' # 0 PROVE shown' # <<>> /\ cursor' = shown'[Len(shown')][1]
    <3>1. m \in 1..m /\ cursor' = Sorted[m][1]
      BY <2>2, CutLeads DEF m
    <3>2. shown'[n + m] = Sorted[m]
      BY <1>3, <3>1
    <3>3. Len(shown') # 0
      BY <1>1, <3>1
    <3> QED
      BY <1>1, <3>1, <3>2, <3>3, EmptySeq
  <2> QED
    BY <2>1, <2>2 DEF AnchorIsLast
<1>13. SteadyIsRead'
  <2>1. phase' # "reading"
    BY CutLeads
  <2> QED
    BY <1>5, <2>1 DEF WalkInv, SteadyIsRead, Matches
<1>14. ShownInOrder'
  <2>1. \A q, p \in Records : Before(q, p)' <=> Before(q, p)
    BY <1>5 DEF Before, Older
  <2>2. ASSUME NEW j \in 1..(n + m), NEW k \in 1..(n + m), j < k
        PROVE  Before(shown'[j][1], shown'[k][1])
               \/ (shown'[j][1] = shown'[k][1] /\ shown'[j][1] \notin steady)
    <3>1. CASE j \in 1..n /\ k \in 1..n
      BY <1>2, <2>2, <3>1 DEF WalkInv, ShownInOrder, n
    <3>2. ASSUME j \in 1..n, NEW h \in 1..m, k = n + h
          PROVE  Before(shown'[j][1], shown'[k][1])
      <4>1. shown # <<>> /\ n \in 1..n
        BY <1>1, <3>2, EmptySeq DEF n
      <4>2. cursor # 0 /\ cursor = shown[n][1]
        BY <1>6, <4>1 DEF WalkInv, AnchorIsLast, n
      <4>3. Before(cursor, Sorted[h][1])
        BY <1>4, <1>8, <3>2, <4>2 DEF Beyond
      <4>4. j < n \/ j = n
        BY <1>1, <3>2
      <4>5. Before(shown[j][1], shown[n][1]) \/ shown[j][1] = shown[n][1]
        BY <3>2, <4>1, <4>4 DEF WalkInv, ShownInOrder, n
      <4>6. shown[j][1] \in Records /\ shown[n][1] \in Records /\ Sorted[h][1] \in Records
        BY <1>4, <1>8, <1>9, <1>10, <3>2, <4>1
      <4>7. Before(shown[j][1], Sorted[h][1])
        BY <1>6, <4>2, <4>3, <4>5, <4>6, KeyOrders
      <4> QED
        BY <1>2, <1>3, <3>2, <4>7
    <3>3. ASSUME NEW g \in 1..m, NEW h \in 1..m, j = n + g, k = n + h
          PROVE  Before(shown'[j][1], shown'[k][1])
                 \/ (shown'[j][1] = shown'[k][1] /\ shown'[j][1] \notin steady)
      <4>1. g < h
        BY <1>1, <2>2, <3>3
      <4>2. Before(Sorted[g][1], Sorted[h][1])
            \/ (Sorted[g][1] = Sorted[h][1] /\ Sorted[g][1] \notin steady)
        BY <1>8, <4>1, SortedAhead
      <4> QED
        BY <1>3, <3>3, <4>2
    <3>4. ASSUME NEW g \in 1..m, j = n + g, k \in 1..n PROVE FALSE
      BY <1>1, <2>2, <3>4
    <3> QED
      BY <1>7, <3>1, <3>2, <3>3, <3>4
  <2>3. \A k \in 1..(n + m) : shown'[k][1] \in Records
    BY <1>2, <1>3, <1>4, <1>7, <1>8, <1>9, <1>10
  <2>4. ASSUME NEW j \in 1..Len(shown'), NEW k \in 1..Len(shown'), j < k
        PROVE  (\/ Before(shown[j][1], shown[k][1])
                \/ shown[j][1] = shown[k][1] /\ shown[j][1] \notin steady)'
    BY <1>1, <1>5, <2>1, <2>2, <2>3, <2>4
  <2> QED
    BY <2>4 DEF ShownInOrder
<1>15. ShownOrAhead'
  <2> SUFFICES ASSUME NEW q \in steady
               PROVE  (/\ cursor = 0 \/ Before(cursor, q) \/ IsShown(q)
                       /\ phase = "end" /\ ask.kind = "records" => IsShown(q))'
    BY <1>5 DEF ShownOrAhead
  <2>1. q \in Records
    BY <1>6 DEF ReadingTypeOK
  <2>2. IsShown(q) => IsShown(q)'
    <3> SUFFICES ASSUME IsShown(q) PROVE IsShown(q)'
      OBVIOUS
    <3>1. PICK k \in 1..n : shown[k][1] = q
      BY DEF IsShown, n
    <3>2. k \in 1..Len(shown') /\ shown'[k][1] = q
      BY <1>1, <1>2, <3>1
    <3> QED
      BY <3>2 DEF IsShown
  <2>3. CASE IsShown(q)
    BY <2>2, <2>3
  <2>4. CASE ~IsShown(q)
    <3>1. <<q, where[q]>> \in got
      BY <1>6 DEF WalkInv, SteadyIsRead
    <3>2. Beyond(q)
      BY <2>4 DEF WalkInv, ShownOrAhead, Beyond
    <3>3. <<q, where[q]>> \in Left
      BY <3>1, <3>2 DEF Left
    <3>4. PICK k \in 1..Len(Sorted) : Sorted[k] = <<q, where[q]>>
      BY <1>6, <3>3, SortedIs
    <3>5. k <= m => IsShown(q)'
      <4> SUFFICES ASSUME k <= m PROVE IsShown(q)'
        OBVIOUS
      <4>1. n + k \in 1..Len(shown') /\ shown'[n + k] = Sorted[k]
        BY <1>1, <1>3
      <4>2. shown'[n + k][1] = q
        BY <3>4, <4>1
      <4> QED
        BY <4>1, <4>2 DEF IsShown
    <3>6. phase' = "end" => IsShown(q)'
      BY <1>1, <3>5, CutLeads DEF m
    <3>7. ASSUME cursor' # 0, ~(k <= m) PROVE Before(cursor, q)'
      <4>1. m \in 1..m /\ cursor' = Sorted[m][1]
        BY <3>7, CutLeads DEF m
      <4>2. m < k /\ m \in 1..Len(Sorted)
        BY <1>1, <3>7, <4>1
      <4>3. Before(Sorted[m][1], Sorted[k][1])
        BY <3>4, <4>2, SortedAhead
      <4>4. Before(Sorted[m][1], q)
        BY <3>4, <4>3
      <4> QED
        BY <1>5, <4>1, <4>4 DEF Before, Older
    <3> QED
      BY <3>5, <3>6, <3>7
  <2> QED
    BY <2>3, <2>4
<1>16. ExpiredByChange'
  BY CutLeads DEF ExpiredByChange
<1> QED
  BY <1>11, <1>12, <1>13, <1>14, <1>15, <1>16 DEF WalkInv

LEMMA WalkStep ==
    ASSUME WalkInv, [ReadingNext]_readingVars
    PROVE  WalkInv'
<1>1. ReadingTypeOK'
  BY ReadingTypeStep DEF WalkInv
<1>2. ASSUME UNCHANGED <<stamp, where, fits, ask, phase, unread, got, cursor, shown, steady>>
      PROVE  WalkInv'
  <2>1. StampedFirst' /\ AnchorIsLast'
    BY <1>2 DEF WalkInv, StampedFirst, AnchorIsLast
  <2>2. SteadyIsRead'
    BY <1>2 DEF WalkInv, SteadyIsRead, Matches
  <2>3. ShownInOrder'
    BY <1>2 DEF WalkInv, ShownInOrder, Before, Older
  <2>4. ShownOrAhead' /\ ExpiredByChange'
    BY <1>2 DEF WalkInv, ShownOrAhead, IsShown, Before, Older, ExpiredByChange
  <2> QED
    BY <1>1, <2>1, <2>2, <2>3, <2>4 DEF WalkInv
<1>3. CASE Tick
  BY <1>2, <1>3 DEF Tick, files, reader
<1>4. CASE UNCHANGED readingVars
  BY <1>2, <1>4 DEF readingVars, files, reader
<1>5. ASSUME NEW r \in Records, Written(r) PROVE WalkInv'
  BY <1>1, <1>5, WrittenStep
<1>6. CASE Asked
  BY <1>1, <1>6, AskStep
<1>7. CASE NextPage
  BY <1>1, <1>7, NextPageStep
<1>8. CASE Leave
  BY <1>1, <1>8, LeaveStep
<1>9. ASSUME NEW d \in Domains, ReadDomain(d) PROVE WalkInv'
  BY <1>1, <1>9, ReadDomainStep
<1>10. CASE Expire
  BY <1>1, <1>10, ExpireStep
<1>11. CASE Cut
  BY <1>1, <1>11, CutStep
<1>12. CASE Cap
  BY <1>1, <1>12, CapStep
<1>13. CASE Note
  BY <1>1, <1>13, NoteStep
<1> QED
  BY <1>3, <1>4, <1>5, <1>6, <1>7, <1>8, <1>9, <1>10, <1>11, <1>12, <1>13
     DEF ReadingNext, Written, Asked

LEMMA WalkInvHolds == ReadingSpec => []WalkInv
<1>1. ReadingInit => WalkInv
  <2> SUFFICES ASSUME ReadingInit, ReadingTypeOK PROVE WalkInv
    BY ReadingTypeInit
  <2>1. Len(shown) = 0
    BY EmptySeq DEF ReadingInit
  <2>2. StampedFirst /\ AnchorIsLast
    BY <2>1 DEF ReadingInit, StampedFirst, AnchorIsLast
  <2>3. SteadyIsRead /\ ShownInOrder /\ ShownOrAhead /\ ExpiredByChange
    BY <2>1 DEF ReadingInit, SteadyIsRead, ShownInOrder, ShownOrAhead, ExpiredByChange
  <2> QED
    BY <2>2, <2>3 DEF WalkInv
<1>2. WalkInv /\ [ReadingNext]_readingVars => WalkInv'
  BY WalkStep
<1> QED
  BY <1>1, <1>2, PTL DEF ReadingSpec

(* Whatever is written, moved, archived or restored between the reads and the  *)
(* pages of a walk, and however many domains and pages it takes: the walk that *)
(* comes to its end has shown exactly once what nobody touched.                *)
THEOREM PagesAreComplete == ReadingSpec => []WalkIsComplete
<1>1. WalkInv => WalkIsComplete
  <2> SUFFICES ASSUME WalkInv PROVE WalkIsComplete
    OBVIOUS
  <2>1. phase = "expired" => cursor \notin steady
    BY DEF WalkInv, ExpiredByChange
  <2>2. ASSUME phase = "end", ask.kind = "records", NEW r \in steady
        PROVE  Times(r) = 1
    <3>1. PICK k \in 1..Len(shown) : shown[k][1] = r
      BY <2>2 DEF WalkInv, ShownOrAhead, IsShown
    <3>2. r \in Records /\ ~Before(r, r)
      BY <2>2, KeyOrders DEF WalkInv, ReadingTypeOK
    <3>3. Len(shown) \in Nat /\ DOMAIN shown = 1..Len(shown)
      BY LenProperties DEF WalkInv, ReadingTypeOK
    <3>4. ASSUME NEW j \in 1..Len(shown), shown[j][1] = r PROVE j = k
      <4>1. CASE j < k
        BY <2>2, <3>1, <3>2, <3>4, <4>1 DEF WalkInv, ShownInOrder
      <4>2. CASE k < j
        BY <2>2, <3>1, <3>2, <3>4, <4>2 DEF WalkInv, ShownInOrder
      <4> QED
        BY <3>1, <3>3, <3>4, <4>1, <4>2
    <3>5. {j \in DOMAIN shown : shown[j][1] = r} = {k}
      BY <3>1, <3>3, <3>4
    <3>6. Cardinality({k}) = 1
      BY FS_Singleton
    <3> QED
      BY <3>5, <3>6 DEF Times
  <2> QED
    BY <2>1, <2>2 DEF WalkIsComplete
<1> QED
  BY <1>1, WalkInvHolds, PTL

(* The pages of a walk never go back, and only what moved while it was read    *)
(* is shown twice.                                                             *)
THEOREM PagesGoForward == ReadingSpec => []WalkGoesForward
<1>1. WalkInv => WalkGoesForward
  <2> SUFFICES ASSUME WalkInv, NEW k \in 2..Len(shown)
               PROVE  \/ Before(shown[k - 1][1], shown[k][1])
                      \/ shown[k - 1][1] = shown[k][1] /\ shown[k][1] \notin steady
    BY DEF WalkGoesForward
  <2>1. Len(shown) \in Nat
    BY LenProperties DEF WalkInv, ReadingTypeOK
  <2>2. k - 1 \in 1..Len(shown) /\ k \in 1..Len(shown) /\ k - 1 < k
    BY <2>1
  <2> QED
    BY <2>2 DEF WalkInv, ShownInOrder
<1> QED
  BY <1>1, WalkInvHolds, PTL

-----------------------------------------------------------------------------
(* Reading: the share of every domain *)

LEMMA PageStep ==
    ASSUME ReadingTypeOK, PageBegins, [ReadingNext]_readingVars
    PROVE  PageBegins'
<1>1. ASSUME UNCHANGED <<ask, phase, got, page>> PROVE PageBegins'
  <2>1. RoundRobin' = RoundRobin
    BY <1>1 DEF RoundRobin, Turn
  <2> QED
    BY <1>1, <2>1 DEF PageBegins
<1>2. CASE Tick
  BY <1>1, <1>2 DEF Tick, reader
<1>3. CASE UNCHANGED readingVars
  BY <1>1, <1>3 DEF readingVars, reader
<1>4. ASSUME NEW r \in Records, Written(r) PROVE PageBegins'
  <2>1. UNCHANGED <<ask, phase, got, page>>
    BY <1>4 DEF Written, StampRecord, Archive, Edit, Land, Move, Touch, reader
  <2> QED
    BY <1>1, <2>1
<1>5. ASSUME phase' \notin Ended PROVE PageBegins'
  BY <1>5 DEF PageBegins
<1>6. CASE Asked
  <2> PICK kind \in Kinds, domains \in SUBSET Domains, since \in 0..MaxClock,
           filter \in BOOLEAN, limit \in Limits \cup {1} :
               Ask(kind, domains, since, filter, limit)
    BY <1>6, AskIsTyped
  <2> QED
    BY <1>5 DEF Ask, Ended
<1>7. CASE NextPage \/ Leave
  BY <1>5, <1>7 DEF NextPage, Leave, Ended
<1>8. ASSUME NEW d \in Domains, ReadDomain(d) PROVE PageBegins'
  BY <1>5, <1>8 DEF ReadDomain, Ended
<1>9. CASE Expire \/ Cut \/ Note
  <2>1. ask.kind # "search" /\ ask' = ask
    BY <1>9 DEF Expire, Cut, Note, Show
  <2> QED
    BY <2>1 DEF PageBegins
<1>10. CASE Cap
  <2>1. /\ page' = Capped(ask.limit) /\ ask' = ask /\ got' = got
        /\ phase' = IF Len(page') < Len(RoundRobin) THEN "cut" ELSE "end"
    BY <1>10 DEF Cap, Capped
  <2>2. RoundRobin' = RoundRobin
    BY <2>1 DEF RoundRobin, Turn
  <2>3. Len(RoundRobin) \in Nat /\ ask.limit \in Int
    BY RoundRobinIs, ReadingConstants DEF ReadingTypeOK
  <2>4. phase' = "cut" => ask.limit < Len(RoundRobin)
    BY <2>1, <2>3 DEF Capped
  <2> QED
    BY <2>1, <2>2, <2>4 DEF PageBegins, Capped
<1> QED
  BY <1>2, <1>3, <1>4, <1>6, <1>7, <1>8, <1>9, <1>10 DEF ReadingNext, Written, Asked

(* What of a domain is kept, when the first c in turn are.                     *)
Found(d) == {i \in got : i[2] = d}
Kept(d) == Found(d) \cap {page[k] : k \in 1..Len(page)}

(* What is kept has its turn before what is left out.                          *)
LEMMA KeptIsEarlier ==
    ASSUME ReadingTypeOK, page = Capped(ask.limit),
           NEW i \in got, NEW j \in got,
           i \in {page[k] : k \in 1..Len(page)}, j \notin {page[k] : k \in 1..Len(page)}
    PROVE  Earlier(i, j)
<1>1. ask.limit \in Int
  BY ReadingConstants DEF ReadingTypeOK
<1>2. /\ Len(page) \in Nat /\ Len(page) <= Len(RoundRobin)
      /\ \A k \in 1..Len(page) : page[k] = RoundRobin[k]
  BY <1>1, CappedIs
<1>3. PICK h \in 1..Len(page) : RoundRobin[h] = i
  BY <1>2
<1>4. PICK k \in 1..Len(RoundRobin) : RoundRobin[k] = j
  BY RoundRobinIs
<1>5. Len(RoundRobin) \in Nat
  BY RoundRobinIs
<1>6. ~(k <= Len(page))
  BY <1>2, <1>4, <1>5
<1>7. h \in 1..Len(RoundRobin) /\ h < k
  BY <1>2, <1>5, <1>6
<1> QED
  BY <1>3, <1>4, <1>7, RoundRobinIs

(* The first result of a domain that is left out has all that are kept of the  *)
(* domain before it, and no others.                                            *)
LEMMA FirstLeftOut ==
    ASSUME ReadingTypeOK, page = Capped(ask.limit), NEW d \in Domains, Kept(d) # Found(d)
    PROVE  \E j \in Found(d) \ Kept(d) : Turn(j) = Cardinality(Kept(d))
<1> DEFINE Out == Found(d) \ Kept(d)
           Numbers == {j[1] : j \in Out}
<1>1. Out # {} /\ Out \subseteq got /\ \A j \in Out : j[2] = d
  BY DEF Kept, Found
<1>2. Numbers # {} /\ Numbers \subseteq Nat
  BY <1>1, ReadOnce, ReadingConstants
<1>3. PICK r \in Numbers : \A q \in Numbers : ~(q < r)
  <2> HIDE DEF Numbers
  <2>1. PICK r \in Numbers : \A q \in Numbers : ~(<<q, r>> \in OpToRel(<, Nat))
    BY <1>2, NatLessThanWellFounded, WFMin
  <2> QED
    BY <1>2, <2>1 DEF OpToRel
<1>4. PICK j \in Out : j[1] = r
  BY <1>3
<1>5. j \in got /\ j[2] = d /\ j \notin {page[k] : k \in 1..Len(page)}
  BY <1>1, <1>4 DEF Kept, Found
<1>6. ASSUME NEW i \in got, i[2] = d, i[1] < j[1] PROVE i \in Kept(d)
  <2>1. i \in Found(d)
    BY <1>6 DEF Found
  <2>2. i \notin Out
    BY <1>3, <1>4, <1>6
  <2> QED
    BY <2>1, <2>2
<1>7. ASSUME NEW i \in Kept(d) PROVE i \in got /\ i[2] = d /\ i[1] < j[1]
  <2>1. i \in got /\ i[2] = d /\ i \in {page[k] : k \in 1..Len(page)}
    BY DEF Kept, Found
  <2>2. Earlier(i, j)
    BY <1>5, <2>1, KeptIsEarlier
  <2>3. Turn(i) < Turn(j)
    <3>1. Turn(i) = Turn(j) => i = j
      BY <1>5, <2>1, TurnsGrow
    <3>2. i # j
      BY <1>5, <2>1
    <3> QED
      BY <2>2, <3>1, <3>2 DEF Earlier
  <2> QED
    BY <1>5, <2>1, <2>3, TurnsGrow
<1>8. {i \in got : i[2] = j[2] /\ i[1] < j[1]} = Kept(d)
  BY <1>5, <1>6, <1>7
<1> QED
  BY <1>4, <1>8 DEF Turn

(* Of a domain there are at most n + 1 results whose turn is at most n.        *)
LEMMA FewTurns ==
    ASSUME ReadingTypeOK, NEW n \in Nat, NEW e, NEW S \in SUBSET got,
           \A i \in S : i[2] = e /\ Turn(i) <= n
    PROVE  Cardinality(S) \in Nat /\ Cardinality(S) <= n + 1
<1> DEFINE f == [i \in S |-> Turn(i)]
<1>1. \A i \in S : Turn(i) \in 0..n
  BY TurnsGrow
<1>2. \A i, j \in S : Turn(i) = Turn(j) => i = j
  BY TurnsGrow
<1>3. f \in Injection(S, 0..n)
  BY <1>1, <1>2 DEF Injection, IsInjective
<1>4. IsFiniteSet(0..n) /\ Cardinality(0..n) = n + 1
  BY FS_Interval
<1> HIDE DEF f
<1>5. IsFiniteSet(S) /\ Cardinality(S) <= n + 1
  BY <1>3, <1>4, FS_Injection
<1> QED
  BY <1>5, FS_CardinalityType

(* No domain has two more than one that has results left.                      *)
LEMMA SharesAreEven ==
    ASSUME ReadingTypeOK, page = Capped(ask.limit), NEW d \in Domains, NEW e \in Domains,
           Kept(d) # Found(d)
    PROVE  Cardinality(Kept(e)) <= Cardinality(Kept(d)) + 1
<1>1. PICK j \in Found(d) \ Kept(d) : Turn(j) = Cardinality(Kept(d))
  BY FirstLeftOut
<1>2. j \in got /\ j \notin {page[k] : k \in 1..Len(page)} /\ Turn(j) \in Nat
  BY TurnsGrow DEF Kept, Found
<1>3. ASSUME NEW i \in Kept(e) PROVE i \in got /\ i[2] = e /\ Turn(i) <= Turn(j)
  <2>1. i \in got /\ i[2] = e /\ i \in {page[k] : k \in 1..Len(page)}
    BY DEF Kept, Found
  <2>2. Earlier(i, j)
    BY <1>2, <2>1, KeptIsEarlier
  <2>3. Turn(i) \in Nat
    BY <2>1, TurnsGrow
  <2> QED
    BY <1>2, <2>1, <2>2, <2>3 DEF Earlier
<1>4. Kept(e) \in SUBSET got
  BY DEF Kept, Found
<1>5. Cardinality(Kept(e)) <= Turn(j) + 1
  BY <1>2, <1>3, <1>4, FewTurns
<1> QED
  BY <1>1, <1>5

(* A search that is cut gives every domain its share, however many domains,    *)
(* results and places there are.                                               *)
THEOREM SearchIsFair == ReadingSpec => []RoundRobinIsFair
<1>1. ReadingInit => PageBegins
  BY DEF ReadingInit, PageBegins, Ended
<1>2. ReadingTypeOK /\ PageBegins /\ [ReadingNext]_readingVars => PageBegins'
  BY PageStep
<1>3. ReadingTypeOK /\ PageBegins => RoundRobinIsFair
  <2> SUFFICES ASSUME ReadingTypeOK, PageBegins, phase \in Ended, ask.kind = "search"
               PROVE  RoundRobinIsFair
    BY DEF RoundRobinIsFair
  <2>1. page = Capped(ask.limit) /\ (phase = "cut" => ask.limit < Len(RoundRobin))
    BY DEF PageBegins, Capped
  <2>2. ask.limit \in Int
    BY ReadingConstants DEF ReadingTypeOK
  <2>3. Range(page) = {page[k] : k \in 1..Len(page)}
    BY LenProperties DEF Range, ReadingTypeOK
  <2>4. \A d, e \in Domains :
            Kept(d) # Found(d) => Cardinality(Kept(e)) <= Cardinality(Kept(d)) + 1
    BY <2>1, SharesAreEven
  <2>5. ASSUME NEW d \in Domains, NEW i \in Kept(d), NEW j \in Found(d) \ Kept(d)
        PROVE  i[1] < j[1]
    <3>1. /\ i \in got /\ i[2] = d /\ i \in {page[k] : k \in 1..Len(page)}
          /\ j \in got /\ j[2] = d /\ j \notin {page[k] : k \in 1..Len(page)}
      BY DEF Kept, Found
    <3>2. Earlier(i, j)
      BY <2>1, <3>1, KeptIsEarlier
    <3>3. Turn(i) = Turn(j) => i = j
      BY <3>1, TurnsGrow
    <3>4. Turn(i) < Turn(j)
      BY <3>1, <3>2, <3>3 DEF Earlier
    <3> QED
      BY <3>1, <3>4, TurnsGrow
  <2>6. phase = "cut" /\ ask.limit >= 0 => Len(page) = ask.limit
    BY <2>1, <2>2, CappedIs
  <2> QED
    BY <2>3, <2>4, <2>5, <2>6 DEF RoundRobinIsFair, Kept, Found
<1> QED
  BY <1>1, <1>2, <1>3, ReadingTypeCorrect, PTL DEF ReadingSpec
===============================================================================
