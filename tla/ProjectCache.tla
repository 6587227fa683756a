----------------------------- MODULE ProjectCache -----------------------------
(* The cache in front of the record files of a project (src/src/mulchd/mcp/    *)
(* project_cache.py).  Each call that needs all the records scans the          *)
(* directory: it lists the files, stats each one, and parses those whose mtime *)
(* is not the one in the cache.  The calls share the cache entry of the        *)
(* directory and one event loop, which a scan gives up only while a file is    *)
(* read; `ml` runs in processes of its own and may change, remove or create a  *)
(* file at any time.                                                           *)
(*                                                                             *)
(* A file's content is represented by its revision, and so is its mtime: two   *)
(* contents written within one tick of the file system's clock are one         *)
(* revision, the limit that the module's docstring accepts.                    *)
EXTENDS Naturals

CONSTANTS
    Files,          \* the domain files a project may have
    Scans,          \* the scans of one directory
    MaxRev,         \* bound on the revisions of a file
    NoScan,         \* the loop is free
    NoFile,         \* the scan is not reading a file
    NoEntry         \* the file is not in the cache

Revs == 0..MaxRev

ASSUME ProjectCacheAssumption ==
    /\ MaxRev \in Nat
    /\ NoScan \notin Scans /\ NoFile \notin Files
    /\ NoEntry \notin [mtime : Revs, content : Revs]

VARIABLES
    rev,        \* rev[f]: how often `ml` changed, removed or created f
    exists,     \* exists[f]: f is on disk
    entry,      \* file_entry: the cache entry of the directory
    loop,       \* the scan that holds the event loop
    stage, listed, todo, at, mtime, content,   \* the locals of a scan
    result,     \* result[s][f]: the revision of f that s returned
    began,      \* began[s][f]: the revision of f when s listed the directory
    gone,       \* gone[s]: the files removed while s was on its way
    raced       \* raced[s]: the files another scan put into the cache meanwhile

disk == <<rev, exists>>
locals == <<stage, listed, todo, at, mtime, content, result, began>>
ghosts == <<gone, raced>>
cacheVars == <<disk, entry, loop, locals, ghosts>>

Entry == [mtime : Revs, content : Revs]

CacheTypeOK ==
    /\ rev \in [Files -> Revs] /\ exists \in [Files -> BOOLEAN]
    /\ entry \in [Files -> Entry \cup {NoEntry}]
    /\ loop \in Scans \cup {NoScan}
    /\ stage \in [Scans -> {"idle", "stat", "parse", "store", "done", "failed"}]
    /\ listed \in [Scans -> SUBSET Files] /\ todo \in [Scans -> SUBSET Files]
    /\ at \in [Scans -> Files \cup {NoFile}]
    /\ mtime \in [Scans -> Revs] /\ content \in [Scans -> Revs]
    /\ result \in [Scans -> [Files -> Revs]] /\ began \in [Scans -> [Files -> Revs]]
    /\ gone \in [Scans -> SUBSET Files] /\ raced \in [Scans -> SUBSET Files]

(* The process has just started: nothing is cached, whatever is on disk.       *)
CacheInit ==
    /\ rev = [f \in Files |-> 0] /\ exists \in [Files -> BOOLEAN]
    /\ entry = [f \in Files |-> NoEntry]
    /\ loop = NoScan
    /\ stage = [s \in Scans |-> "idle"]
    /\ listed = [s \in Scans |-> {}] /\ todo = [s \in Scans |-> {}]
    /\ at = [s \in Scans |-> NoFile]
    /\ mtime = [s \in Scans |-> 0] /\ content = [s \in Scans |-> 0]
    /\ result = [s \in Scans |-> [f \in Files |-> 0]]
    /\ began = [s \in Scans |-> [f \in Files |-> 0]]
    /\ gone = [s \in Scans |-> {}] /\ raced = [s \in Scans |-> {}]

-----------------------------------------------------------------------------
(* `ml`, in a process of its own.                                              *)

(* The files a scan that has not ended has listed.                             *)
OnItsWay(s) == IF stage[s] \in {"stat", "parse", "store"} THEN listed[s] ELSE {}

Bump(f) == rev[f] < MaxRev /\ rev' = [rev EXCEPT ![f] = @ + 1]

(* A record is appended, rewritten or taken out; a missing file is created.    *)
Rewrite(f) ==
    /\ Bump(f)
    /\ exists' = [exists EXCEPT ![f] = TRUE]
    /\ UNCHANGED <<entry, loop, locals, ghosts>>

(* An empty domain file is unlinked.                                           *)
Unlink(f) ==
    /\ exists[f] /\ Bump(f)
    /\ exists' = [exists EXCEPT ![f] = FALSE]
    /\ gone' = [s \in Scans |-> gone[s] \cup ({f} \cap OnItsWay(s))]
    /\ UNCHANGED <<entry, loop, locals, raced>>

-----------------------------------------------------------------------------
(* _scan_cached_dir                                                            *)

GoTo(s, step) == stage' = [stage EXCEPT ![s] = step]

NoRevs == [f \in Files |-> 0]

\* Mutant of List: the whole entry of the directory is dropped.
ListClears(s) ==
    LET current == {f \in Files : exists[f]}
    IN  /\ stage[s] \in {"idle", "done", "failed"} /\ loop = NoScan
        /\ loop' = s /\ GoTo(s, "stat")
        /\ listed' = [listed EXCEPT ![s] = current]
        /\ todo' = [todo EXCEPT ![s] = current]
        /\ entry' = [f \in Files |-> NoEntry]
        /\ began' = [began EXCEPT ![s] = rev]
        /\ gone' = [gone EXCEPT ![s] = {}] /\ raced' = [raced EXCEPT ![s] = {}]
        /\ result' = [result EXCEPT ![s] = NoRevs]
        /\ UNCHANGED <<disk, at, mtime, content>>

(* The directory is listed, and entries of files that vanished are dropped.    *)
List(s) ==
    LET current == {f \in Files : exists[f]}
    IN  /\ stage[s] \in {"idle", "done", "failed"} /\ loop = NoScan
        /\ loop' = s /\ GoTo(s, "stat")
        /\ listed' = [listed EXCEPT ![s] = current]
        /\ todo' = [todo EXCEPT ![s] = current]
        /\ entry' = [f \in Files |-> IF f \in current THEN entry[f] ELSE NoEntry]
        /\ began' = [began EXCEPT ![s] = rev]
        /\ gone' = [gone EXCEPT ![s] = {}] /\ raced' = [raced EXCEPT ![s] = {}]
        /\ result' = [result EXCEPT ![s] = NoRevs]
        /\ UNCHANGED <<disk, at, mtime, content>>

Cached(f) == IF entry[f] = NoEntry THEN FALSE ELSE entry[f].mtime = rev[f]

(* A file whose mtime is the cached one is passed over.                        *)
Hit(s, f) ==
    /\ stage[s] = "stat" /\ loop = s /\ f \in todo[s] /\ exists[f]
    /\ Cached(f)
    /\ todo' = [todo EXCEPT ![s] = @ \ {f}]
    /\ UNCHANGED <<disk, entry, loop, stage, listed, at, mtime, content, result, began, ghosts>>

(* Any other is parsed, and the loop is free while it is read.                 *)
Miss(s, f) ==
    /\ stage[s] = "stat" /\ loop = s /\ f \in todo[s] /\ exists[f]
    /\ ~Cached(f)
    /\ loop' = NoScan /\ GoTo(s, "parse")
    /\ at' = [at EXCEPT ![s] = f]
    /\ mtime' = [mtime EXCEPT ![s] = rev[f]]
    /\ UNCHANGED <<disk, entry, listed, todo, content, result, began, ghosts>>

(* stat of a file that vanished since the listing raises FileNotFoundError.    *)
StatFails(s, f) ==
    /\ stage[s] = "stat" /\ loop = s /\ f \in todo[s] /\ ~exists[f]
    /\ loop' = NoScan /\ GoTo(s, "failed")
    /\ UNCHANGED <<disk, entry, listed, todo, at, mtime, content, result, began, ghosts>>

(* read_domain_records: a file that is not there any more has no records.      *)
Parse(s) ==
    /\ stage[s] = "parse" /\ GoTo(s, "store")
    /\ content' = [content EXCEPT ![s] = rev[at[s]]]
    /\ UNCHANGED <<disk, entry, loop, listed, todo, at, mtime, result, began, ghosts>>

(* It may also vanish between the check that it exists and the open.           *)
ParseFails(s) ==
    /\ stage[s] = "parse" /\ ~exists[at[s]]
    /\ GoTo(s, "failed")
    /\ UNCHANGED <<disk, entry, loop, listed, todo, at, mtime, content, result, began, ghosts>>

\* Mutant of Store: the mtime is that of the file after it was parsed.
StoreRestat(s) ==
    /\ stage[s] = "store" /\ loop = NoScan
    /\ loop' = s /\ GoTo(s, "stat")
    /\ entry' = [entry EXCEPT ![at[s]] = [mtime |-> rev[at[s]], content |-> content[s]]]
    /\ todo' = [todo EXCEPT ![s] = @ \ {at[s]}]
    /\ raced' = [t \in Scans |-> IF t = s THEN raced[t]
                                ELSE raced[t] \cup ({at[s]} \cap OnItsWay(t))]
    /\ at' = [at EXCEPT ![s] = NoFile]
    /\ mtime' = [mtime EXCEPT ![s] = 0] /\ content' = [content EXCEPT ![s] = 0]
    /\ UNCHANGED <<disk, listed, result, began, gone>>

Store(s) ==
    /\ stage[s] = "store" /\ loop = NoScan
    /\ loop' = s /\ GoTo(s, "stat")
    /\ entry' = [entry EXCEPT ![at[s]] = [mtime |-> mtime[s], content |-> content[s]]]
    /\ todo' = [todo EXCEPT ![s] = @ \ {at[s]}]
    /\ raced' = [t \in Scans |-> IF t = s THEN raced[t]
                                ELSE raced[t] \cup ({at[s]} \cap OnItsWay(t))]
    /\ at' = [at EXCEPT ![s] = NoFile]
    /\ mtime' = [mtime EXCEPT ![s] = 0] /\ content' = [content EXCEPT ![s] = 0]
    /\ UNCHANGED <<disk, listed, result, began, gone>>

(* The result is taken from the shared entry, not from what the scan parsed.   *)
Return(s) ==
    /\ stage[s] = "stat" /\ loop = s /\ todo[s] = {}
    /\ \A f \in listed[s] : entry[f] # NoEntry
    /\ loop' = NoScan /\ GoTo(s, "done")
    /\ result' = [result EXCEPT ![s] =
                    [f \in Files |-> IF f \in listed[s] THEN entry[f].content ELSE 0]]
    /\ UNCHANGED <<disk, entry, listed, todo, at, mtime, content, began, ghosts>>

(* An entry that another scan has dropped raises KeyError.                     *)
ReturnFails(s) ==
    /\ stage[s] = "stat" /\ loop = s /\ todo[s] = {}
    /\ \E f \in listed[s] : entry[f] = NoEntry
    /\ loop' = NoScan /\ GoTo(s, "failed")
    /\ UNCHANGED <<disk, entry, listed, todo, at, mtime, content, result, began, ghosts>>

-----------------------------------------------------------------------------
Step(s) ==
    \/ List(s) \/ Parse(s) \/ ParseFails(s) \/ Store(s)
    \/ Return(s) \/ ReturnFails(s)
    \/ \E f \in Files : Hit(s, f) \/ Miss(s, f) \/ StatFails(s, f)

CacheNext ==
    \/ \E f \in Files : Rewrite(f) \/ Unlink(f)
    \/ \E s \in Scans : Step(s)

CacheSpec == CacheInit /\ [][CacheNext]_cacheVars

-----------------------------------------------------------------------------
(* What is cached of a file is never older than the mtime it is kept under,    *)
(* however scans and changes overlap: the mtime is read before the content, so *)
(* a later scan that finds the mtime unchanged may use it, and one that finds  *)
(* another replaces it (_scan_cached_dir).                                     *)
EntryNotOlder == \A f \in Files : entry[f] # NoEntry => entry[f].mtime <= entry[f].content

(* A scan returns no file as it was before the scan began, unless another scan *)
(* put that file into the cache while this one was on its way.                 *)
FreshUnlessRaced == \A s \in Scans : stage[s] = "done" =>
    \A f \in listed[s] \ raced[s] : began[s][f] <= result[s][f]

(* A scan fails only when a file was removed while it was on its way, under    *)
(* its own eyes or before the eyes of another that dropped the shared entry.   *)
FailsOnlyOnRemoval == \A s \in Scans : stage[s] = "failed" => gone[s] # {}
=============================================================================
