----------------------------- MODULE PublishLog -----------------------------
(***************************************************************************)
(* What publishing promises, without locks, files or processes: a numbered *)
(* history of datasets, the version the public app is served, and the      *)
(* versions a caller was told were published.  PublishDataset implements   *)
(* this (packages/schema/src/publishDataset.ts).                           *)
(***************************************************************************)
EXTENDS Integers

CONSTANTS Datasets,   \* dataset bodies that may be published
          NoVersion   \* nothing published yet

VARIABLES history,    \* the archived versions, [n |-> number, data |-> dataset]
          served,     \* the version current.v1.json holds, or NoVersion
          confirmed   \* the versions some caller received {ok: true} for

vars == <<history, served, confirmed>>

Version == [n : Nat \ {0}, data : Datasets]

Num(v) == IF v = NoVersion THEN 0 ELSE v.n

Init == /\ history = {}
        /\ served = NoVersion
        /\ confirmed = {}

(* A new version takes a number above every number in the history.         *)
Archive(v) == /\ v \in Version
              /\ \A a \in history : a.n < v.n
              /\ history' = history \cup {v}
              /\ UNCHANGED <<served, confirmed>>

(* Only the newest version in the history can start being served.          *)
Serve(v) == /\ v \in history
            /\ \A a \in history : a.n <= v.n
            /\ served' = v
            /\ UNCHANGED <<history, confirmed>>

(* A caller is told of a version while that version is the one served.     *)
Confirm == /\ served # NoVersion
           /\ confirmed' = confirmed \cup {served}
           /\ UNCHANGED <<history, served>>

(* A power loss may take back anything no caller was told of, but a        *)
(* confirmed version stays in the history and nothing older than it is     *)
(* served again.                                                           *)
Lose == /\ history' \subseteq history
        /\ confirmed \subseteq history'
        /\ served' \in history' \cup {NoVersion}
        /\ \A c \in confirmed : c.n <= Num(served')
        /\ UNCHANGED confirmed

Next == \/ \E v \in history' : Archive(v)
        \/ \E v \in history : Serve(v)
        \/ Confirm
        \/ Lose

Spec == Init /\ [][Next]_vars
=============================================================================
