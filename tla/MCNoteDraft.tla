---------------------------- MODULE MCNoteDraft ----------------------------
(***************************************************************************)
(* Small instances of NoteDraft.                                           *)
(***************************************************************************)
EXTENDS NoteDraft, TLC

CONSTANTS a, b, p1, p2

MCTexts == {Empty, a, b}
MCOneText == {Empty, a}
MCAllOps == {"type", "delete", "escape", "modEnter"}
MCNoEscape == {"type", "delete", "modEnter"}

MCSymmetry == Permutations(Paths)
=============================================================================
