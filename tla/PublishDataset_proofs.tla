----------------------- MODULE PublishDataset_proofs -----------------------
(***************************************************************************)
(* Theorems about PublishDataset, for any number of processes, datasets,   *)
(* attempts and any combination of the modelled faults.                    *)
(***************************************************************************)
EXTENDS PublishDataset, TLAPS

(* Numbers are only ever handed out upwards and durably before use.        *)
Numbered == /\ counterDur <= counter
            /\ historyDur \subseteq history
            /\ \A a \in history : a.n <= counterDur /\ a.data \in ValidDatasets
            /\ ArchiveNumbersUnique

(* What is served is durable history, and the durable version is no newer. *)
Served == /\ current \in historyDur \cup {NoVersion}
          /\ currentDur \in historyDur \cup {NoVersion}
          /\ Num(currentDur) <= Num(current)

(* How far the call that holds the lock has come.                          *)
Allocating(p) == /\ target[p] = "counter"
                 /\ pc[p] \in {"stage", "rename"} => next[p] = counter + 1
                 /\ pc[p] = "syncdir" => next[p] = counter /\ counterDur < counter

Archiving(p) == /\ target[p] = "archive"
                /\ next[p] = counter /\ counter = counterDur
                /\ pc[p] \in {"stage", "rename"} => \A a \in history : a.n < next[p]
                /\ pc[p] = "syncdir" => Mine(p) \in history
                /\ Num(current) < next[p]

Promoting(p) == /\ target[p] = "current"
                /\ next[p] = counter /\ counter = counterDur
                /\ Mine(p) \in historyDur
                /\ pc[p] \in {"stage", "rename"} => Num(current) < next[p]
                /\ pc[p] = "syncdir" => current = Mine(p)

Phase(p) ==
    /\ pc[p] # "idle" => input[p] \in ValidDatasets
    /\ pc[p] \in {"stage", "rename", "syncdir"} =>
          Allocating(p) \/ Archiving(p) \/ Promoting(p)
    /\ pc[p] = "unlock" => /\ current = Mine(p) /\ currentDur = current
                           /\ current \in historyDur

IInv == /\ TypeOK
        /\ WritersHoldTheLock
        /\ Numbered
        /\ Served
        /\ ConfirmedIsKept
        /\ \A p \in Publishers : Phase(p)
-----------------------------------------------------------------------------
(* The counter of a version, and of no version, is a natural number.       *)
LEMMA NumNat == ASSUME NEW v \in Version \cup {NoVersion}
                PROVE  Num(v) \in Nat
  BY DEF Num, Version

LEMMA NumOfVersion == ASSUME NEW v \in Version
                      PROVE  v # NoVersion /\ Num(v) = v.n
  BY VersionAssumption DEF Num, Version

(* The invariant holds in the initial states.                              *)
LEMMA InitIInv == Init => IInv
  BY AttemptsAssumption, VersionAssumption
     DEF Init, IInv, TypeOK, WritersHoldTheLock, Numbered, Served,
         ConfirmedIsKept, Phase, Inside, Critical, Targets, Num,
         ArchiveNumbersUnique, Version

(* Steps that change only the program counter of a process, and possibly   *)
(* its input or its attempts, to a place where Phase asks nothing new.     *)
LEMMA SubmitIInv == ASSUME IInv, NEW p \in Publishers, NEW d \in Datasets,
                           Submit(p, d)
                    PROVE  IInv'
<1>1. TypeOK'
  BY AttemptsAssumption DEF IInv, TypeOK, Submit, files, Critical
<1>2. WritersHoldTheLock'
  BY DEF IInv, TypeOK, WritersHoldTheLock, Submit, files, Inside, Critical
<1>3. Numbered' /\ Served' /\ ConfirmedIsKept'
  BY DEF IInv, Numbered, Served, ConfirmedIsKept, Submit, files, Num,
         ArchiveNumbersUnique
<1>4. \A q \in Publishers : Phase(q)'
  BY DEF IInv, TypeOK, Phase, Allocating, Archiving, Promoting, Mine, Submit,
         files, Num
<1>. QED  BY <1>1, <1>2, <1>3, <1>4 DEF IInv

(* Opening the lock file succeeds only when nobody holds it.               *)
LEMMA AcquireIInv == ASSUME IInv, NEW p \in Publishers, AcquireLock(p)
                     PROVE  IInv'
<1>1. TypeOK'
  BY DEF IInv, TypeOK, AcquireLock, Critical
<1>2. WritersHoldTheLock'
  BY OwnerAssumption
     DEF IInv, TypeOK, WritersHoldTheLock, AcquireLock, Inside, Critical
<1>3. Numbered' /\ Served' /\ ConfirmedIsKept'
  BY DEF IInv, Numbered, Served, ConfirmedIsKept, AcquireLock, Num,
         ArchiveNumbersUnique
<1>4. \A q \in Publishers : Phase(q)'
  BY DEF IInv, TypeOK, Phase, Allocating, Archiving, Promoting, Mine,
         AcquireLock, Num
<1>. QED  BY <1>1, <1>2, <1>3, <1>4 DEF IInv

(* Spinning, giving up, reading the counter and staging the temp file      *)
(* leave every file as it was.                                             *)
LEMMA SpinIInv == ASSUME IInv, NEW p \in Publishers, Spin(p) \/ TimeOut(p)
                  PROVE  IInv'
<1>1. TypeOK'
  BY AttemptsAssumption DEF IInv, TypeOK, Spin, TimeOut, files, Critical
<1>2. WritersHoldTheLock'
  BY DEF IInv, TypeOK, WritersHoldTheLock, Spin, TimeOut, files, Inside, Critical
<1>3. Numbered' /\ Served' /\ ConfirmedIsKept'
  BY DEF IInv, Numbered, Served, ConfirmedIsKept, Spin, TimeOut, files, Num,
         ArchiveNumbersUnique
<1>4. \A q \in Publishers : Phase(q)'
  BY DEF IInv, TypeOK, Phase, Allocating, Archiving, Promoting, Mine, Spin,
         TimeOut, files, Num
<1>. QED  BY <1>1, <1>2, <1>3, <1>4 DEF IInv

LEMMA ReadIInv == ASSUME IInv, NEW p \in Publishers, ReadCounter(p)
                  PROVE  IInv'
<1>1. TypeOK'
  BY DEF IInv, TypeOK, ReadCounter, files, Critical, Targets
<1>2. WritersHoldTheLock'
  BY DEF IInv, TypeOK, WritersHoldTheLock, ReadCounter, files, Inside, Critical
<1>3. Numbered' /\ Served' /\ ConfirmedIsKept'
  BY DEF IInv, Numbered, Served, ConfirmedIsKept, ReadCounter, files, Num,
         ArchiveNumbersUnique
<1>4. \A q \in Publishers : Phase(q)'
  <2> SUFFICES ASSUME NEW q \in Publishers PROVE Phase(q)'
    OBVIOUS
  <2>1. CASE q = p
    BY <2>1 DEF IInv, TypeOK, Phase, Allocating, ReadCounter, files
  <2>2. CASE q # p
    BY <2>2 DEF IInv, TypeOK, Phase, Allocating, Archiving, Promoting, Mine,
                ReadCounter, files, Num
  <2>. QED  BY <2>1, <2>2
<1>. QED  BY <1>1, <1>2, <1>3, <1>4 DEF IInv

LEMMA StageIInv == ASSUME IInv, NEW p \in Publishers, StageTemp(p)
                   PROVE  IInv'
<1>1. TypeOK'
  BY DEF IInv, TypeOK, StageTemp, files, Critical
<1>2. WritersHoldTheLock'
  BY DEF IInv, TypeOK, WritersHoldTheLock, StageTemp, files, Inside, Critical
<1>3. Numbered' /\ Served' /\ ConfirmedIsKept'
  BY DEF IInv, Numbered, Served, ConfirmedIsKept, StageTemp, files, Num,
         ArchiveNumbersUnique
<1>4. \A q \in Publishers : Phase(q)'
  BY DEF IInv, TypeOK, Phase, Allocating, Archiving, Promoting, Mine, StageTemp,
         files, Num
<1>. QED  BY <1>1, <1>2, <1>3, <1>4 DEF IInv

(* Only the holder of the lock is inside, so a step of p inside leaves the *)
(* other processes with nothing to show in Phase but their inputs.         *)
LEMMA OthersOutside == ASSUME IInv, NEW p \in Publishers, Inside(p),
                              NEW q \in Publishers, q # p
                       PROVE  ~Inside(q)
  BY DEF IInv, WritersHoldTheLock

(* The three renames.  A counter rename raises the counter above every     *)
(* number in use; an archive rename adds the new number; a current rename  *)
(* serves the archived, durable, newest version.                           *)
LEMMA RenameIInv == ASSUME IInv, NEW p \in Publishers, Rename(p)
                    PROVE  IInv'
<1>0. /\ TypeOK /\ Phase(p) /\ Inside(p) /\ lock = p
      /\ Mine(p) \in Version \/ target[p] = "counter"
      /\ Allocating(p) \/ Archiving(p) \/ Promoting(p)
  <2>1. TypeOK /\ Phase(p) /\ Inside(p) /\ lock = p
    BY DEF IInv, Rename, WritersHoldTheLock, Inside, Critical
  <2>2. Allocating(p) \/ Archiving(p) \/ Promoting(p)
    BY <2>1 DEF Phase, Rename
  <2>3. next[p] \in Nat /\ counter \in Nat /\ input[p] \in Datasets
    BY <2>1 DEF TypeOK
  <2>4. Num(current) \in Nat
    BY <2>1, NumNat DEF TypeOK
  <2>5. Mine(p) \in Version \/ target[p] = "counter"
    BY <2>1, <2>2, <2>3, <2>4
       DEF Allocating, Archiving, Promoting, Mine, Version, Rename
  <2>. QED  BY <2>1, <2>2, <2>5
<1>1. TypeOK'
  <2>1. counter' \in Nat /\ history' \subseteq Version
        /\ current' \in Version \cup {NoVersion}
    BY <1>0 DEF TypeOK, Rename
  <2>. QED  BY <1>0, <2>1 DEF TypeOK, Rename, Critical
<1>2. WritersHoldTheLock'
  BY DEF IInv, TypeOK, WritersHoldTheLock, Rename, Inside, Critical
<1>3. \A q \in Publishers \ {p} : Phase(q)'
  <2> SUFFICES ASSUME NEW q \in Publishers \ {p} PROVE Phase(q)'
    OBVIOUS
  <2>1. ~Inside(q) /\ Phase(q)
    BY <1>0, OthersOutside DEF IInv
  <2>. QED  BY <2>1 DEF Phase, Inside, Critical, Rename, IInv, TypeOK
<1>4. CASE Allocating(p)
  <2>1. Numbered' /\ Served' /\ ConfirmedIsKept'
    BY <1>0, <1>4 DEF IInv, TypeOK, Numbered, Served, ConfirmedIsKept, Num,
       Rename, Allocating, ArchiveNumbersUnique
  <2>2. Phase(p)'
    BY <1>0, <1>4 DEF IInv, TypeOK, Numbered, Phase, Rename, Allocating
  <2>. QED  BY <1>1, <1>2, <1>3, <2>1, <2>2 DEF IInv
<1>5. CASE Archiving(p)
  <2>1. /\ counter' = counter /\ current' = current /\ history' = history \cup {Mine(p)}
        /\ Mine(p).n = next[p] /\ Mine(p).data = input[p]
    BY <1>5 DEF Archiving, Rename, Mine
  <2>2. next[p] = counterDur /\ input[p] \in ValidDatasets
        /\ \A a \in history : a.n < next[p]
    BY <1>0, <1>5 DEF Archiving, Phase, Rename
  <2>3. Numbered'
    BY <1>0, <2>1, <2>2 DEF IInv, TypeOK, Numbered, ArchiveNumbersUnique, Rename,
       Version
  <2>4. Served' /\ ConfirmedIsKept'
    BY <2>1 DEF IInv, Served, ConfirmedIsKept, Num, Rename
  <2>5. Phase(p)'
    BY <1>0, <1>5, <2>1 DEF IInv, TypeOK, Phase, Rename, Archiving, Mine, Num
  <2>. QED  BY <1>1, <1>2, <1>3, <2>3, <2>4, <2>5 DEF IInv
<1>6. CASE Promoting(p)
  <2>1. /\ counter' = counter /\ history' = history /\ current' = Mine(p)
        /\ Mine(p) \in historyDur /\ Num(current) < next[p]
    BY <1>6 DEF Promoting, Rename
  <2>2. Num(current') = next[p]
    BY <1>0, <1>6, <2>1, NumOfVersion DEF Mine, Promoting
  <2>3. Num(current) \in Nat /\ Num(currentDur) \in Nat /\ next[p] \in Nat
        /\ \A c \in confirmed : c.n \in Nat
    BY <1>0, NumNat DEF TypeOK, Version
  <2>4. Numbered'
    BY <2>1 DEF IInv, Numbered, ArchiveNumbersUnique, Rename
  <2>5. Num(currentDur)' = Num(currentDur) /\ Num(current)' = next[p]
    BY <2>1, <2>2 DEF Num, Rename
  <2>6. Served'
    BY <2>1, <2>3, <2>5 DEF IInv, Served, Rename
  <2>7. ConfirmedIsKept'
    BY <2>1, <2>3, <2>5 DEF IInv, ConfirmedIsKept, Rename
  <2>8. Phase(p)'
    BY <1>0, <1>6, <2>1 DEF IInv, TypeOK, Phase, Rename, Promoting, Mine
  <2>. QED  BY <1>1, <1>2, <1>3, <2>4, <2>6, <2>7, <2>8 DEF IInv
<1>. QED  BY <1>0, <1>4, <1>5, <1>6

(* The three directory syncs make what was renamed durable.                *)
LEMMA SyncIInv == ASSUME IInv, NEW p \in Publishers, SyncDir(p)
                  PROVE  IInv'
<1>0. /\ TypeOK /\ Phase(p) /\ Inside(p)
      /\ Allocating(p) \/ Archiving(p) \/ Promoting(p)
  <2>1. TypeOK /\ Phase(p) /\ Inside(p)
    BY DEF IInv, SyncDir, Inside, Critical
  <2>. QED  BY <2>1 DEF Phase, SyncDir
<1>1. TypeOK'
  BY <1>0 DEF TypeOK, SyncDir, Critical, Targets
<1>2. WritersHoldTheLock'
  BY DEF IInv, TypeOK, WritersHoldTheLock, SyncDir, Inside, Critical
<1>3. \A q \in Publishers \ {p} : Phase(q)'
  <2> SUFFICES ASSUME NEW q \in Publishers \ {p} PROVE Phase(q)'
    OBVIOUS
  <2>1. ~Inside(q) /\ Phase(q)
    BY <1>0, OthersOutside DEF IInv
  <2>. QED  BY <2>1 DEF Phase, Inside, Critical, SyncDir, IInv, TypeOK
<1>4. /\ counter \in Nat /\ counterDur \in Nat /\ next[p] \in Nat
      /\ Num(current) \in Nat /\ Num(currentDur) \in Nat
      /\ \A c \in confirmed : c.n \in Nat
      /\ \A a \in history : a.n \in Nat
  BY <1>0, NumNat DEF TypeOK, Version
<1>5. CASE Allocating(p)
  <2>1. /\ target'[p] = "archive" /\ pc'[p] = "stage" /\ historyDur' = historyDur
        /\ counterDur' = counter /\ counter' = counter /\ currentDur' = current
        /\ current' = current /\ history' = history /\ next' = next /\ input' = input
        /\ next[p] = counter /\ counterDur < counter /\ confirmed' = confirmed
    BY <1>0, <1>5 DEF SyncDir, Allocating, TypeOK
  <2>2. Numbered'
    BY <1>4, <2>1 DEF IInv, Numbered, ArchiveNumbersUnique
  <2>3. Num(current)' = Num(current) /\ Num(currentDur)' = Num(current)
    BY <2>1 DEF Num
  <2>4. Served' /\ ConfirmedIsKept'
    BY <1>4, <2>1, <2>3 DEF IInv, Served, ConfirmedIsKept
  <2>5. Num(current) < next[p]
    <3>1. CASE current = NoVersion
      BY <3>1, <1>4, <2>1 DEF Num
    <3>2. CASE current # NoVersion
      BY <3>2, <1>4, <2>1 DEF IInv, Served, Numbered, Num
    <3>. QED  BY <3>1, <3>2
  <2>6. Archiving(p)'
    BY <1>4, <2>1, <2>3, <2>5 DEF IInv, Numbered, Archiving
  <2>7. Phase(p)'
    BY <1>0, <2>1, <2>6 DEF Phase, SyncDir
  <2>. QED  BY <1>1, <1>2, <1>3, <2>2, <2>4, <2>7 DEF IInv
<1>6. CASE Archiving(p)
  <2>1. /\ target'[p] = "current" /\ pc'[p] = "stage" /\ historyDur' = history
        /\ counterDur' = counterDur /\ counter' = counter /\ currentDur' = currentDur
        /\ current' = current /\ history' = history /\ next' = next /\ input' = input
        /\ confirmed' = confirmed /\ Mine(p) \in history
    BY <1>0, <1>6 DEF SyncDir, Archiving, TypeOK
  <2>2. Numbered'
    BY <2>1 DEF IInv, Numbered, ArchiveNumbersUnique
  <2>3. Num(current)' = Num(current) /\ Num(currentDur)' = Num(currentDur)
    BY <2>1 DEF Num
  <2>4. Served' /\ ConfirmedIsKept'
    BY <2>1, <2>3 DEF IInv, Served, ConfirmedIsKept, Numbered
  <2>5. Promoting(p)'
    BY <1>6, <2>1, <2>3 DEF Archiving, Promoting, Mine
  <2>6. Phase(p)'
    BY <1>0, <2>1, <2>5 DEF Phase, SyncDir
  <2>. QED  BY <1>1, <1>2, <1>3, <2>2, <2>4, <2>6 DEF IInv
<1>7. CASE Promoting(p)
  <2>1. /\ target'[p] = "current" /\ pc'[p] = "unlock" /\ historyDur' = historyDur
        /\ counterDur' = counter /\ counter' = counter /\ currentDur' = current
        /\ current' = current /\ history' = history /\ next' = next /\ input' = input
        /\ confirmed' = confirmed /\ counter = counterDur
        /\ current = Mine(p) /\ Mine(p) \in historyDur
    BY <1>0, <1>7 DEF SyncDir, Promoting, TypeOK
  <2>2. Numbered'
    BY <2>1 DEF IInv, Numbered, ArchiveNumbersUnique
  <2>3. Num(current)' = Num(current) /\ Num(currentDur)' = Num(current)
    BY <2>1 DEF Num
  <2>4. Served' /\ ConfirmedIsKept'
    BY <1>4, <2>1, <2>3 DEF IInv, Served, ConfirmedIsKept
  <2>5. Phase(p)'
    BY <1>0, <2>1 DEF Phase, SyncDir, Mine
  <2>. QED  BY <1>1, <1>2, <1>3, <2>2, <2>4, <2>5 DEF IInv
<1>. QED  BY <1>0, <1>5, <1>6, <1>7

(* The call returns its version, which is served and durable by then.      *)
LEMMA UnlockIInv == ASSUME IInv, NEW p \in Publishers, Unlock(p)
                    PROVE  IInv'
<1>0. /\ TypeOK /\ Phase(p) /\ Inside(p) /\ lock = p
      /\ current = Mine(p) /\ currentDur = current /\ current \in historyDur
      /\ current \in Version
  <2>1. TypeOK /\ Phase(p) /\ Inside(p) /\ lock = p
    BY DEF IInv, Unlock, WritersHoldTheLock, Inside, Critical
  <2>. QED  BY <2>1 DEF Phase, Unlock, TypeOK
<1>1. TypeOK'
  BY <1>0 DEF TypeOK, Unlock
<1>2. WritersHoldTheLock'
  <2> SUFFICES ASSUME NEW q \in Publishers, Inside(q)' PROVE lock' = q
    BY DEF WritersHoldTheLock
  <2>1. q # p /\ Inside(q)
    BY <1>0 DEF TypeOK, Unlock, Inside, Critical
  <2>. QED  BY <2>1, <1>0, OthersOutside
<1>3. Numbered' /\ Served'
  BY DEF IInv, Numbered, Served, Unlock, Num, ArchiveNumbersUnique
<1>4. ConfirmedIsKept'
  <2>1. Num(current) = Mine(p).n /\ Num(currentDur) = Mine(p).n /\ Mine(p).n \in Nat
    BY <1>0, NumOfVersion, NumNat
  <2>2. Num(current)' = Num(current) /\ Num(currentDur)' = Num(currentDur)
    BY DEF Unlock, Num
  <2>. QED  BY <1>0, <2>1, <2>2 DEF IInv, ConfirmedIsKept, Unlock, Numbered
<1>5. \A q \in Publishers : Phase(q)'
  BY <1>0 DEF IInv, TypeOK, Phase, Allocating, Archiving, Promoting, Mine, Unlock,
     Num
<1>. QED  BY <1>1, <1>2, <1>3, <1>4, <1>5 DEF IInv

LEMMA UnlockFailedIInv == ASSUME IInv, NEW p \in Publishers, UnlockFailed(p)
                          PROVE  IInv'
<1>0. TypeOK /\ Inside(p) /\ lock = p
  BY DEF IInv, UnlockFailed, WritersHoldTheLock, Inside, Critical
<1>1. TypeOK'
  BY <1>0 DEF TypeOK, UnlockFailed
<1>2. WritersHoldTheLock'
  <2> SUFFICES ASSUME NEW q \in Publishers, Inside(q)' PROVE lock' = q
    BY DEF WritersHoldTheLock
  <2>1. q # p /\ Inside(q)
    BY <1>0 DEF TypeOK, UnlockFailed, Inside, Critical
  <2>. QED  BY <2>1, <1>0, OthersOutside
<1>3. Numbered' /\ Served' /\ ConfirmedIsKept'
  BY DEF IInv, Numbered, Served, ConfirmedIsKept, UnlockFailed, Num,
         ArchiveNumbersUnique
<1>4. \A q \in Publishers : Phase(q)'
  BY <1>0 DEF IInv, TypeOK, Phase, Allocating, Archiving, Promoting, Mine,
     UnlockFailed, Num
<1>. QED  BY <1>1, <1>2, <1>3, <1>4 DEF IInv

(* A failing file operation or a dying process leaves the files alone.     *)
LEMMA FailIInv == ASSUME IInv, NEW p \in Publishers, IOError(p) \/ Crash(p)
                  PROVE  IInv'
<1>1. TypeOK'
  BY DEF IInv, TypeOK, IOError, Crash, files, Critical
<1>2. WritersHoldTheLock'
  BY DEF IInv, TypeOK, WritersHoldTheLock, IOError, Crash, files, Inside, Critical
<1>3. Numbered' /\ Served' /\ ConfirmedIsKept'
  BY DEF IInv, Numbered, Served, ConfirmedIsKept, IOError, Crash, files, Num,
         ArchiveNumbersUnique
<1>4. \A q \in Publishers : Phase(q)'
  BY DEF IInv, TypeOK, Phase, Allocating, Archiving, Promoting, Mine, IOError,
         Crash, files, Num
<1>. QED  BY <1>1, <1>2, <1>3, <1>4 DEF IInv

(* After a power loss each file is as visible or as durable before it.     *)
LEMMA PowerIInv == ASSUME IInv, PowerLoss
                   PROVE  IInv'
<1>0. /\ TypeOK /\ Numbered /\ Served /\ ConfirmedIsKept
      /\ historyDur' = history' /\ history' \subseteq history
      /\ historyDur \subseteq history'
      /\ counterDur' = counter' /\ counter' \in {counter, counterDur}
      /\ currentDur' = current' /\ current' \in {current, currentDur}
      /\ confirmed' = confirmed
  BY DEF IInv, PowerLoss, Numbered
<1>1. TypeOK'
  BY <1>0 DEF TypeOK, PowerLoss
<1>2. WritersHoldTheLock' /\ \A q \in Publishers : Phase(q)'
  BY DEF WritersHoldTheLock, Phase, Inside, Critical, PowerLoss
<1>3. Numbered'
  BY <1>0 DEF TypeOK, Numbered, ArchiveNumbersUnique, Version
<1>4. /\ Num(current') \in {Num(current), Num(currentDur)}
      /\ Num(current)' = Num(current') /\ Num(currentDur)' = Num(current')
  BY <1>0 DEF Num
<1>5. Num(current) \in Nat /\ Num(currentDur) \in Nat
  BY <1>0, NumNat DEF TypeOK
<1>6. Served' /\ ConfirmedIsKept'
  BY <1>0, <1>4, <1>5 DEF Served, ConfirmedIsKept
<1>. QED  BY <1>1, <1>2, <1>3, <1>6 DEF IInv

LEMMA RemoveIInv == ASSUME IInv, RemoveStaleLock
                    PROVE  IInv'
<1>1. TypeOK'
  BY DEF IInv, TypeOK, RemoveStaleLock, calls
<1>2. WritersHoldTheLock'
  BY DEF WritersHoldTheLock, RemoveStaleLock, calls, Inside
<1>3. Numbered' /\ Served' /\ ConfirmedIsKept'
  BY DEF IInv, Numbered, Served, ConfirmedIsKept, RemoveStaleLock, Num,
         ArchiveNumbersUnique
<1>4. \A q \in Publishers : Phase(q)'
  BY DEF IInv, Phase, Allocating, Archiving, Promoting, Mine, RemoveStaleLock,
         calls, Num
<1>. QED  BY <1>1, <1>2, <1>3, <1>4 DEF IInv

LEMMA StutterIInv == ASSUME IInv, UNCHANGED vars
                     PROVE  IInv'
  BY DEF IInv, TypeOK, WritersHoldTheLock, Numbered, Served, ConfirmedIsKept,
     Phase, Allocating, Archiving, Promoting, Mine, Inside, Num,
     ArchiveNumbersUnique, vars, calls, files

(* Every step of the specification preserves the invariant.                *)
LEMMA NextIInv == IInv /\ [Next]_vars => IInv'
<1> SUFFICES ASSUME IInv, [Next]_vars PROVE IInv'
  OBVIOUS
<1>1. ASSUME NEW p \in Publishers, Step(p) PROVE IInv'
  BY <1>1, AcquireIInv, SpinIInv, ReadIInv, StageIInv, RenameIInv, SyncIInv,
     UnlockIInv, UnlockFailedIInv DEF Step
<1>2. ASSUME NEW p \in Publishers, NEW d \in Datasets, Submit(p, d) PROVE IInv'
  BY <1>2, SubmitIInv
<1>3. ASSUME NEW p \in Publishers, IOError(p) \/ Crash(p) PROVE IInv'
  BY <1>3, FailIInv
<1>. QED  BY <1>1, <1>2, <1>3, PowerIInv, RemoveIInv, StutterIInv DEF Next

THEOREM Invariance == Spec => []IInv
  BY InitIInv, NextIInv, PTL DEF Spec

(* Each variable keeps its type, for any number of processes and calls.    *)
THEOREM TypeCorrect == Spec => []TypeOK
<1>1. IInv => TypeOK
  BY DEF IInv
<1>. QED  BY Invariance, <1>1, PTL

(* Only the process the lock file names is between open('wx') and unlink,  *)
(* in publishDataset and under every modelled fault.                       *)
THEOREM LockExcludes == Spec => []WritersHoldTheLock
<1>1. IInv => WritersHoldTheLock
  BY DEF IInv
<1>. QED  BY Invariance, <1>1, PTL

(* No archive number is ever used twice.                                   *)
THEOREM NumbersUnique == Spec => []ArchiveNumbersUnique
<1>1. IInv => ArchiveNumbersUnique
  BY DEF IInv, Numbered
<1>. QED  BY Invariance, <1>1, PTL

(* current.v1.json always holds a validated, durably archived version.     *)
THEOREM ServedArchived == Spec => []ServedIsArchived
<1>1. IInv => ServedIsArchived
  BY DEF IInv, Numbered, Served, ServedIsArchived
<1>. QED  BY Invariance, <1>1, PTL

(* A version a caller was told of is never lost nor superseded by an older *)
(* one.                                                                    *)
THEOREM ConfirmedKept == Spec => []ConfirmedIsKept
<1>1. IInv => ConfirmedIsKept
  BY DEF IInv
<1>. QED  BY Invariance, <1>1, PTL

(* What a rename of process p can do to the served version.                *)
LEMMA RenameServes == ASSUME IInv, NEW p \in Publishers, Rename(p)
                      PROVE  \/ current' = current
                             \/ /\ current' = Mine(p)
                                /\ Mine(p) \in historyDur
                                /\ next[p] = counterDur
                                /\ Num(current') = next[p]
                                /\ Num(current) < next[p]
<1>1. CASE Promoting(p)
  <2>1. Mine(p) \in Version /\ Mine(p).n = next[p] /\ current' = Mine(p)
    BY <1>1 DEF IInv, TypeOK, Promoting, Rename, Mine
  <2>. QED  BY <1>1, <2>1, NumOfVersion DEF Promoting, Rename
<1>2. CASE Allocating(p) \/ Archiving(p)
  BY <1>2 DEF Allocating, Archiving, Rename
<1>. QED  BY <1>1, <1>2 DEF IInv, Phase, Rename

(* current.v1.json moves to a lower counter in no step but a power loss,   *)
(* which can only take it back to its durable version; that one only grows.*)
THEOREM NeverRegresses == Spec => CurrentNeverRegresses
<1> DEFINE Grows == /\ Num(current') >= Num(current) \/ current' = currentDur
                    /\ Num(currentDur') >= Num(currentDur)
<1>1. ASSUME IInv, [Next]_vars PROVE Grows \/ UNCHANGED vars
  <2>1. Num(current) \in Nat /\ Num(currentDur) \in Nat
        /\ Num(currentDur) <= Num(current)
    BY <1>1, NumNat DEF IInv, TypeOK, Served
  <2>2. ASSUME NEW p \in Publishers, Rename(p) PROVE Grows
    <3>1. currentDur' = currentDur
      BY <2>2 DEF Rename
    <3>2. next[p] \in Nat
      BY <1>1 DEF IInv, TypeOK
    <3>. QED  BY <1>1, <2>1, <2>2, <3>1, <3>2, RenameServes
  <2>3. ASSUME NEW p \in Publishers, SyncDir(p) PROVE Grows
    BY <2>1, <2>3 DEF SyncDir
  <2>4. CASE PowerLoss
    BY <2>1, <2>4 DEF PowerLoss
  <2>5. ASSUME NEW p \in Publishers,
               \/ \E d \in Datasets : Submit(p, d)
               \/ AcquireLock(p) \/ Spin(p) \/ TimeOut(p) \/ ReadCounter(p)
               \/ StageTemp(p) \/ Unlock(p) \/ UnlockFailed(p)
               \/ IOError(p) \/ Crash(p)
        PROVE  Grows
    <3>1. current' = current /\ currentDur' = currentDur
      BY <2>5 DEF Submit, AcquireLock, Spin, TimeOut, ReadCounter, StageTemp,
         Unlock, UnlockFailed, IOError, Crash, files
    <3>. QED  BY <2>1, <3>1
  <2>6. CASE RemoveStaleLock
    BY <2>1, <2>6 DEF RemoveStaleLock
  <2>. QED  BY <1>1, <2>2, <2>3, <2>4, <2>5, <2>6 DEF Next, Step
<1>2. IInv /\ [Next]_vars => [Grows]_vars
  BY <1>1
<1>. QED  BY Invariance, <1>2, PTL DEF Spec, CurrentNeverRegresses
-----------------------------------------------------------------------------
(* The initial states are initial states of the abstract history.          *)
LEMMA InitLog == Init => Log!Init
  BY DEF Init, Log!Init

(* Every step archives a version, starts serving the newest one, confirms  *)
(* it, takes back what was not confirmed, or is invisible.                 *)
LEMMA StepLog == IInv /\ IInv' /\ [Next]_vars => [Log!Next]_Log!vars
<1> SUFFICES ASSUME IInv, IInv', [Next]_vars PROVE [Log!Next]_Log!vars
  OBVIOUS
<1>1. ASSUME NEW p \in Publishers, Rename(p) PROVE [Log!Next]_Log!vars
  <2>0. confirmed' = confirmed
    BY <1>1 DEF Rename
  <2>1. CASE Archiving(p)
    <3>1. /\ history' = history \cup {Mine(p)} /\ current' = current
          /\ \A a \in history : a.n < Mine(p).n
          /\ Mine(p) \in history' /\ history' \subseteq Version
      BY <1>1, <2>1 DEF Archiving, Rename, Mine, IInv, TypeOK
    <3>2. Log!Archive(Mine(p))
      BY <2>0, <3>1 DEF Log!Archive, Log!Version, Version
    <3>. QED  BY <3>1, <3>2 DEF Log!Next
  <2>2. CASE ~Archiving(p)
    <3>1. history' = history
      BY <1>1, <2>2 DEF IInv, Phase, Rename, Allocating, Promoting
    <3>2. CASE current' = current
      BY <2>0, <3>1, <3>2 DEF Log!vars
    <3>3. CASE current' # current
      <4>1. /\ current' = Mine(p) /\ Mine(p) \in history
            /\ \A a \in history : a.n <= Mine(p).n
        BY <1>1, <3>3, RenameServes DEF IInv, Numbered, Mine
      <4>2. Log!Serve(Mine(p))
        BY <2>0, <3>1, <4>1 DEF Log!Serve
      <4>. QED  BY <4>1, <4>2 DEF Log!Next
    <3>. QED  BY <3>2, <3>3
  <2>. QED  BY <2>1, <2>2
<1>2. ASSUME NEW p \in Publishers, Unlock(p) PROVE [Log!Next]_Log!vars
  <2>1. current = Mine(p) /\ current # NoVersion
    BY <1>2, VersionAssumption DEF IInv, Phase, Unlock, TypeOK, Version, Numbered
  <2>2. Log!Confirm
    BY <1>2, <2>1 DEF Log!Confirm, Unlock
  <2>. QED  BY <2>2 DEF Log!Next
<1>3. CASE PowerLoss
  <2>1. /\ history' \subseteq history /\ confirmed' = confirmed
        /\ \A c \in confirmed : c \in history' /\ c.n <= Num(current')
    BY <1>3 DEF PowerLoss, IInv, ConfirmedIsKept, Numbered, Num
  <2>2. current' \in history' \cup {NoVersion}
    BY DEF IInv, Served, Numbered
  <2>3. Log!Lose
    BY <2>1, <2>2 DEF Log!Lose, Log!Num, Num
  <2>. QED  BY <2>3 DEF Log!Next
<1>4. ASSUME NEW p \in Publishers,
             \/ \E d \in Datasets : Submit(p, d)
             \/ AcquireLock(p) \/ Spin(p) \/ TimeOut(p) \/ ReadCounter(p)
             \/ StageTemp(p) \/ SyncDir(p) \/ UnlockFailed(p)
             \/ IOError(p) \/ Crash(p)
      PROVE  [Log!Next]_Log!vars
  BY <1>4 DEF Submit, AcquireLock, Spin, TimeOut, ReadCounter, StageTemp, SyncDir,
     UnlockFailed, IOError, Crash, files, Log!vars
<1>5. CASE RemoveStaleLock \/ UNCHANGED vars
  BY <1>5 DEF RemoveStaleLock, vars, files, Log!vars
<1>. QED  BY <1>1, <1>2, <1>3, <1>4, <1>5 DEF Next, Step

(* publishDataset, with its lock file, temp files, crashes and power       *)
(* losses, implements the abstract history.                                *)
THEOREM Refinement == Spec => ImplementsLog
<1>1. IInv /\ IInv' /\ [Next]_vars => [Log!Next]_Log!vars
  BY StepLog
<1>. QED  BY InitLog, <1>1, Invariance, PTL DEF Spec, ImplementsLog, Log!Spec
=============================================================================
