------------------------- MODULE MCWorkspaceServer -------------------------
(***************************************************************************)
(* Small instances of WorkspaceServer.  altitude_m has two leaves a body   *)
(* replaces together; snow is a live value.  The bodies are edits made     *)
(* from the initial resort, so that later ones carry stale neighbours.     *)
(***************************************************************************)
EXTENDS WorkspaceServer, TLC

CONSTANTS s1, s2, r1, r2, r3, h0, hMin, hMax, hSnow, n1

MCFields == {"altitude.min", "altitude.max", "snow"}
MCLive == {"snow"}
MCHashes == {h0, hMin, hMax, hSnow}

Altitude(lo, hi, h, live) ==
    [kind |-> "resort",
     vals |-> ("altitude.min" :> lo @@ "altitude.max" :> hi),
     srcs |-> h, live |-> live]

RaiseMin == Altitude(2, 4, "altitude.min" :> hMin, "keep")
RaiseMax == Altitude(1, 5, "altitude.max" :> hMax, "keep")
ClearLive == [kind |-> "resort", vals |-> << >>, srcs |-> << >>, live |-> "clear"]
Snow(live) == [kind |-> "resort", vals |-> ("snow" :> 3), srcs |-> ("snow" :> hSnow),
               live |-> live]
Note(t) == [kind |-> "note", path |-> "resort", text |-> t]

MCBodies == {RaiseMin, RaiseMax, ClearLive, Snow("patch"),
             Snow("complete"), Note(n1), Note(NoNote)}
MCOneBody == {RaiseMin}

Resort == [vals |-> ("altitude.min" :> 1 @@ "altitude.max" :> 4 @@ "snow" :> 2),
           srcs |-> [f \in MCFields |-> h0], live |-> TRUE]

MCInitFiles == {NoFile, Corrupt}
MCInitPublished == {NotPublished, Resort}
MCPublishedOnly == {Resort}
MCNoFile == {NoFile}
MCBreakdowns == {"io", "restart"}
MCPublishing == {"io", "publish"}
MCSymmetry == Permutations(Requests)
=============================================================================
