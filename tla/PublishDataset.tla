--------------------------- MODULE PublishDataset ---------------------------
(***************************************************************************)
(* publishDataset (packages/schema/src/publishDataset.ts): any number of   *)
(* processes publish into one data/published directory.  A call validates  *)
(* its input, spins on the O_EXCL lock file, allocates the next counter,   *)
(* writes history/<counter>-<iso>.json and then current.v1.json, each by   *)
(* temp file, fsync, rename and directory fsync, and unlinks the lock.     *)
(* Every file is kept twice: as processes see it and as it would be found  *)
(* after a power loss, because a rename is durable only once its directory *)
(* was synced.                                                             *)
(***************************************************************************)
EXTENDS Integers, FiniteSets

CONSTANTS Publishers,                 \* processes that call publishDataset
          Datasets,                   \* candidate datasets
          ValidDatasets,              \* those validatePublishedDataset accepts
          COUNTER_LOCK_MAX_ATTEMPTS,  \* spins before the lock-timeout error
          NoOwner,                    \* the lock file does not exist
          NoVersion,                  \* current.v1.json does not exist
          Faults,                     \* what may go wrong in this instance
          MaxCounter                  \* bound: no new call at this counter

ASSUME DatasetsAssumption == ValidDatasets \subseteq Datasets
ASSUME AttemptsAssumption == COUNTER_LOCK_MAX_ATTEMPTS \in Nat
ASSUME OwnerAssumption == NoOwner \notin Publishers
ASSUME VersionAssumption == NoVersion \notin [n : Nat \ {0}, data : Datasets]
ASSUME FaultsAssumption == Faults \subseteq {"process", "power", "io"}
ASSUME BoundAssumption == MaxCounter \in Nat

VARIABLES
    pc,          \* where each process is
    target,      \* the file atomicWriteText is writing
    attempt,     \* spins so far
    input,       \* the dataset being published
    next,        \* the counter allocated to the call
    lock,        \* owner of .archive-counter.lock, or NoOwner
    lockDur,     \*   ... as a power loss would leave it
    counter,     \* .archive-counter, 0 when absent
    counterDur,
    history,     \* the files of history/
    historyDur,
    current,     \* current.v1.json
    currentDur,
    confirmed    \* versions some caller received {ok: true} for

calls == <<pc, target, attempt, input, next>>
files == <<lock, lockDur, counter, counterDur, history, historyDur, current,
           currentDur>>
vars == <<calls, files, confirmed>>

Version == [n : Nat \ {0}, data : Datasets]
Num(v) == IF v = NoVersion THEN 0 ELSE v.n

Targets == {"counter", "archive", "current"}

(* The steps taken while the lock file is held.                            *)
Critical == {"read", "stage", "rename", "syncdir", "unlock", "fail"}
Inside(p) == pc[p] \in Critical

(* The version process p writes.                                           *)
Mine(p) == [n |-> next[p], data |-> input[p]]

Init == /\ pc = [p \in Publishers |-> "idle"]
        /\ target = [p \in Publishers |-> "counter"]
        /\ attempt = [p \in Publishers |-> 0]
        /\ input \in [Publishers -> Datasets]
        /\ next = [p \in Publishers |-> 0]
        /\ lock = NoOwner /\ lockDur = NoOwner
        /\ counter = 0 /\ counterDur = 0
        /\ history = {} /\ historyDur = {}
        /\ current = NoVersion /\ currentDur = NoVersion
        /\ confirmed = {}
-----------------------------------------------------------------------------
(* A call is made.  An invalid dataset is turned away with its issues      *)
(* before anything is written, which leaves no trace; MaxCounter only      *)
(* bounds the number of calls.                                             *)
Submit(p, d) ==
    /\ pc[p] = "idle"
    /\ counter < MaxCounter
    /\ d \in ValidDatasets
    /\ pc' = [pc EXCEPT ![p] = "open"]
    /\ input' = [input EXCEPT ![p] = d]
    /\ attempt' = [attempt EXCEPT ![p] = 0]
    /\ UNCHANGED <<target, next, files, confirmed>>

(* open(lockPath, 'wx') creates the lock file.                             *)
AcquireLock(p) ==
    /\ pc[p] = "open"
    /\ attempt[p] < COUNTER_LOCK_MAX_ATTEMPTS
    /\ lock = NoOwner
    /\ lock' = p
    /\ pc' = [pc EXCEPT ![p] = "read"]
    /\ UNCHANGED <<target, attempt, input, next, lockDur, counter, counterDur,
                   history, historyDur, current, currentDur, confirmed>>

(* Mutant: the loop does not count its attempts.                           *)
SpinUncounted(p) ==
    /\ pc[p] = "open"
    /\ attempt[p] < COUNTER_LOCK_MAX_ATTEMPTS
    /\ lock # NoOwner
    /\ UNCHANGED vars

(* EEXIST: sleep COUNTER_LOCK_RETRY_MS and try again.                      *)
Spin(p) ==
    /\ pc[p] = "open"
    /\ attempt[p] < COUNTER_LOCK_MAX_ATTEMPTS
    /\ lock # NoOwner
    /\ attempt' = [attempt EXCEPT ![p] = @ + 1]
    /\ UNCHANGED <<pc, target, input, next, files, confirmed>>

(* Mutant: whoever times out breaks the lock.                              *)
TimeOutUnlinking(p) ==
    /\ pc[p] = "open"
    /\ attempt[p] = COUNTER_LOCK_MAX_ATTEMPTS
    /\ lock' = NoOwner
    /\ pc' = [pc EXCEPT ![p] = "idle"]
    /\ UNCHANGED <<target, attempt, input, next, lockDur, counter, counterDur,
                   history, historyDur, current, currentDur, confirmed>>

(* The loop ends without the lock: the call throws.                        *)
TimeOut(p) ==
    /\ pc[p] = "open"
    /\ attempt[p] = COUNTER_LOCK_MAX_ATTEMPTS
    /\ pc' = [pc EXCEPT ![p] = "idle"]
    /\ UNCHANGED <<target, attempt, input, next, files, confirmed>>

(* Mutant: the counter read is the number used.                            *)
ReadCounterAsIs(p) ==
    /\ pc[p] = "read"
    /\ next' = [next EXCEPT ![p] = counter]
    /\ target' = [target EXCEPT ![p] = "counter"]
    /\ pc' = [pc EXCEPT ![p] = "stage"]
    /\ UNCHANGED <<attempt, input, files, confirmed>>

(* Reads .archive-counter (absent counts as 0) and turns to writing it.    *)
ReadCounter(p) ==
    /\ pc[p] = "read"
    /\ next' = [next EXCEPT ![p] = counter + 1]
    /\ target' = [target EXCEPT ![p] = "counter"]
    /\ pc' = [pc EXCEPT ![p] = "stage"]
    /\ UNCHANGED <<attempt, input, files, confirmed>>

(* atomicWriteText 1-2: the temp file is written and synced under a name   *)
(* nobody reads, so only its completion matters.                           *)
StageTemp(p) ==
    /\ pc[p] = "stage"
    /\ pc' = [pc EXCEPT ![p] = "rename"]
    /\ UNCHANGED <<target, attempt, input, next, files, confirmed>>

(* Mutant: current.v1.json is renamed without its directory sync.          *)
RenameOnly(p) ==
    /\ pc[p] = "rename"
    /\ pc' = [pc EXCEPT ![p] = IF target[p] = "current" THEN "unlock" ELSE "syncdir"]
    /\ counter' = IF target[p] = "counter" THEN next[p] ELSE counter
    /\ history' = IF target[p] = "archive"
                     THEN history \cup {Mine(p)} ELSE history
    /\ current' = IF target[p] = "current" THEN Mine(p) ELSE current
    /\ UNCHANGED <<target, attempt, input, next, lock, lockDur, counterDur,
                   historyDur, currentDur, confirmed>>

(* atomicWriteText 3: the new content becomes visible.                     *)
Rename(p) ==
    /\ pc[p] = "rename"
    /\ pc' = [pc EXCEPT ![p] = "syncdir"]
    /\ counter' = IF target[p] = "counter" THEN next[p] ELSE counter
    /\ history' = IF target[p] = "archive"
                     THEN history \cup {Mine(p)} ELSE history
    /\ current' = IF target[p] = "current" THEN Mine(p) ELSE current
    /\ UNCHANGED <<target, attempt, input, next, lock, lockDur, counterDur,
                   historyDur, currentDur, confirmed>>

(* SyncDir with the order of the writes and the place of the unlock as     *)
(* parameters, for the mutants of it.                                      *)
SyncDirWith(p, after, dur) ==
    /\ pc[p] = "syncdir"
    /\ counterDur' = IF target[p] = "counter" /\ ~dur THEN counterDur ELSE counter
    /\ historyDur' = IF target[p] = "archive" THEN history ELSE historyDur
    /\ currentDur' = IF target[p] = "archive" THEN currentDur ELSE current
    /\ lockDur' = lock
    /\ target' = [target EXCEPT ![p] = after[@]]
    /\ pc' = [pc EXCEPT ![p] = IF after[target[p]] = target[p] THEN "unlock" ELSE "stage"]
    /\ UNCHANGED <<attempt, input, next, lock, counter, history, current, confirmed>>

InOrder == [t \in Targets |-> IF t = "counter" THEN "archive" ELSE "current"]
Swapped == [t \in Targets |-> IF t = "counter" THEN "current" ELSE "archive"]

(* Mutant: the counter's directory entry is not synced.                    *)
SyncDirNotCounter(p) == SyncDirWith(p, InOrder, FALSE)

(* Mutant: current.v1.json is written before the archive.                  *)
SyncDirSwapped(p) == SyncDirWith(p, Swapped, TRUE)

(* atomicWriteText 4: the directory is synced.  The root directory holds   *)
(* the counter, current.v1.json and the lock file; history/ the archives.  *)
SyncDir(p) ==
    /\ pc[p] = "syncdir"
    /\ IF target[p] = "archive"
          THEN /\ historyDur' = history
               /\ UNCHANGED <<lockDur, counterDur, currentDur>>
          ELSE /\ lockDur' = lock
               /\ counterDur' = counter
               /\ currentDur' = current
               /\ UNCHANGED historyDur
    /\ target' = [target EXCEPT ![p] =
                    CASE @ = "counter" -> "archive"
                      [] @ = "archive" -> "current"
                      [] @ = "current" -> "current"]
    /\ pc' = [pc EXCEPT ![p] = IF target[p] = "current" THEN "unlock" ELSE "stage"]
    /\ UNCHANGED <<attempt, input, next, lock, counter, history, current,
                   confirmed>>

(* The finally block after the body returned: the lock file is unlinked    *)
(* and the caller receives {ok: true}.  A failing unlink is swallowed.     *)
Unlock(p) ==
    /\ pc[p] = "unlock"
    /\ \/ lock' = NoOwner
       \/ "io" \in Faults /\ UNCHANGED lock
    /\ confirmed' = confirmed \cup {Mine(p)}
    /\ pc' = [pc EXCEPT ![p] = "idle"]
    /\ UNCHANGED <<target, attempt, input, next, lockDur, counter, counterDur,
                   history, historyDur, current, currentDur>>

(* The same finally block after a file operation threw: the caller gets    *)
(* the error.                                                              *)
UnlockFailed(p) ==
    /\ pc[p] = "fail"
    /\ \/ lock' = NoOwner
       \/ UNCHANGED lock
    /\ pc' = [pc EXCEPT ![p] = "idle"]
    /\ UNCHANGED <<target, attempt, input, next, lockDur, counter, counterDur,
                   history, historyDur, current, currentDur, confirmed>>
-----------------------------------------------------------------------------
(* A file operation throws (disk full, EIO) before its effect.             *)
IOError(p) ==
    /\ "io" \in Faults
    /\ pc[p] \in {"read", "stage", "rename", "syncdir"}
    /\ pc' = [pc EXCEPT ![p] = "fail"]
    /\ UNCHANGED <<target, attempt, input, next, files, confirmed>>

(* The process dies; whatever it did to the directory stays, the lock file *)
(* included.                                                               *)
Crash(p) ==
    /\ "process" \in Faults
    /\ pc[p] # "idle"
    /\ pc' = [pc EXCEPT ![p] = "idle"]
    /\ UNCHANGED <<target, attempt, input, next, files, confirmed>>

(* The machine loses power: every process dies and each directory entry    *)
(* that was not synced is found in its old or its new state.               *)
PowerLoss ==
    /\ "power" \in Faults
    /\ pc' = [p \in Publishers |-> "idle"]
    /\ lock' \in {lock, lockDur}
    /\ counter' \in {counter, counterDur}
    /\ current' \in {current, currentDur}
    /\ \E kept \in SUBSET (history \ historyDur) : history' = historyDur \cup kept
    /\ lockDur' = lock'
    /\ counterDur' = counter'
    /\ currentDur' = current'
    /\ historyDur' = history'
    /\ UNCHANGED <<target, attempt, input, next, confirmed>>

(* The operator deletes a lock file no running process holds, the only way *)
(* forward after a crash inside the lock (nothing in the code does it).    *)
RemoveStaleLock ==
    /\ lock # NoOwner
    /\ \A p \in Publishers : ~Inside(p)
    /\ lock' = NoOwner
    /\ UNCHANGED <<calls, lockDur, counter, counterDur, history, historyDur,
                   current, currentDur, confirmed>>

(* A step of the code itself in process p.                                 *)
Step(p) == \/ AcquireLock(p) \/ Spin(p) \/ TimeOut(p) \/ ReadCounter(p)
           \/ StageTemp(p) \/ Rename(p) \/ SyncDir(p)
           \/ Unlock(p) \/ UnlockFailed(p)

Next == \/ \E p \in Publishers : \/ \E d \in Datasets : Submit(p, d)
                                 \/ Step(p)
                                 \/ IOError(p)
                                 \/ Crash(p)
        \/ PowerLoss
        \/ RemoveStaleLock

Spec == Init /\ [][Next]_vars

(* A running call keeps running: Node resumes it when its file operation   *)
(* or its sleep completes.                                                 *)
FairSpec == Spec /\ \A p \in Publishers : WF_vars(Step(p))
-----------------------------------------------------------------------------
TypeOK ==
    /\ pc \in [Publishers -> {"idle", "open"} \cup Critical]
    /\ target \in [Publishers -> Targets]
    /\ attempt \in [Publishers -> 0..COUNTER_LOCK_MAX_ATTEMPTS]
    /\ input \in [Publishers -> Datasets]
    /\ next \in [Publishers -> Nat]
    /\ lock \in Publishers \cup {NoOwner}
    /\ lockDur \in Publishers \cup {NoOwner}
    /\ counter \in Nat /\ counterDur \in Nat
    /\ history \subseteq Version /\ historyDur \subseteq Version
    /\ current \in Version \cup {NoVersion}
    /\ currentDur \in Version \cup {NoVersion}
    /\ confirmed \subseteq Version

(* A process between open('wx') and unlink is the one the lock file names: *)
(* no other call is in the counter, archive and current writes at the same *)
(* time, after crashes, failed unlinks and manual clean-ups too.           *)
WritersHoldTheLock == \A p \in Publishers : Inside(p) => lock = p

(* No two archives carry the same number, whatever crashed between the     *)
(* counter write and the archive write: version_id stays unique.           *)
ArchiveNumbersUnique == \A a, b \in history : a.n = b.n => a = b

(* What the public app is served passed validation and is in the history,  *)
(* durably: a power loss cannot leave current.v1.json without its archive. *)
ServedIsArchived ==
    current # NoVersion =>
        /\ current \in history \cap historyDur
        /\ current.data \in ValidDatasets

(* Once a caller was told {ok: true}, its version is in the history for    *)
(* good and neither a crash, a power loss, a failing later publish nor a   *)
(* slow concurrent one brings back an older current.v1.json.               *)
ConfirmedIsKept ==
    \A c \in confirmed : /\ c \in history \cap historyDur
                         /\ c.n <= Num(current)
                         /\ c.n <= Num(currentDur)

(* current.v1.json never moves to a lower counter ("regress the published  *)
(* snapshot relative to archive order"), except back to its durable        *)
(* version in a power loss; the durable version never moves back.          *)
CurrentNeverRegresses ==
    [][/\ Num(current') >= Num(current) \/ current' = currentDur
       /\ Num(currentDur') >= Num(currentDur)]_vars

(* Publishing implements the abstract history.                             *)
Log == INSTANCE PublishLog WITH served <- current
ImplementsLog == Log!Spec

(* Every call returns, with its version or with an error, also behind a    *)
(* stale lock file.                                                        *)
EveryCallReturns == \A p \in Publishers : pc[p] # "idle" ~> pc[p] = "idle"
=============================================================================
