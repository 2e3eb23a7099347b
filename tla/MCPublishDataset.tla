-------------------------- MODULE MCPublishDataset --------------------------
(***************************************************************************)
(* Small instances of PublishDataset for TLC.                              *)
(***************************************************************************)
EXTENDS PublishDataset, TLC

CONSTANTS p1, p2, d1, d2, bad

MCPublishers == {p1, p2}
MCDatasets == {d1, d2, bad}
MCValid == {d1, d2}
MCAllFaults == {"process", "power", "io"}
MCNoPowerLoss == {"process", "io"}

(* Processes and valid datasets are interchangeable.                       *)
MCSymmetry == Permutations({p1, p2}) \cup Permutations({d1, d2})
=============================================================================
