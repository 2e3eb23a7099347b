--------------------------- MODULE MCResortDraft ---------------------------
(***************************************************************************)
(* Small instances of ResortDraft: altitude_m with its two leaves and      *)
(* slopes_km, whose mode can be switched.                                  *)
(***************************************************************************)
EXTENDS ResortDraft, TLC

MCAltitude == {"altitude_m.min", "altitude_m.max"}
MCFields == MCAltitude \cup {"slopes_km"}
MCParent == [f \in MCFields |-> IF f \in MCAltitude THEN "altitude_m" ELSE f]
MCOneField == {"slopes_km"}
MCOneParent == [f \in MCOneField |-> f]
MCNone == {}

MCContent == [vals |-> [f \in Fields |-> 0], srcs |-> [f \in Fields |-> 0],
              live |-> FALSE]

MCFreshOps == {"type", "mode", "clear", "modEnter"}
MCRetypeOps == {"type", "retype"}
=============================================================================
