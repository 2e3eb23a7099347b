--------------------------- MODULE MCPublishFlow ---------------------------
(***************************************************************************)
(* A small instance of PublishFlow: two resorts, two publish requests, one *)
(* durable and three live paths, of which two are the leaves of lifts_open,*)
(* a value stale after one day and gone after two.                         *)
(***************************************************************************)
EXTENDS PublishFlow, TLC

CONSTANTS c1, c2, s1, s2, slopes, snow, count, total

MCSymmetry == Permutations(Calls)

Live(vals, srcs, fx) == [vals |-> vals, srcs |-> srcs, at |-> 0, fx |-> fx]

Resort(rev, live) == [rev |-> rev, srcs |-> slopes :> 0, live |-> live]

MCAgedBy == slopes :> slopes @@ snow :> snow @@ count :> count @@ total :> count

(* Fresh at the limit, stale at its limit, and past it; the leaves of      *)
(* lifts_open with sources of different age.                               *)
OneDay == Live({snow}, snow :> 1, TRUE)
Aged == Live({snow, count, total}, snow :> 3 @@ count :> 1 @@ total :> 2, TRUE)
Gone == Live({count, total}, count :> 3 @@ total :> 0, TRUE)

File(s, e) == [slug |-> s, entry |-> e]
Docs(e1, e2) == [at |-> 0, entries |-> s1 :> e1 @@ s2 :> e2]

MCEdits == {Resort(1, NoLive)}

Published == Resort(0, OneDay)

(* Files as the admin and an analyst with a shell leave them: none; a      *)
(* corrupt one; one whose name and slug differ; one without a durable or a *)
(* live source; one with a live source in the wrong map; a wrong fx block; *)
(* a signal observed in the future.                                        *)
MCInitFiles ==
    LET pair(f, g) == (s1 :> f @@ s2 :> g)
    IN  {pair(Absent, Absent), pair(Corrupt, Absent),
         pair(Absent, File(s1, Resort(0, NoLive))),
         pair(File(s2, Resort(3, OneDay)), File(s2, Resort(0, NoLive))),
         pair(File(s1, [Resort(0, Aged) EXCEPT !.srcs = << >>]), Absent),
         pair(File(s1, [Resort(0, Live({count, total}, count :> 2, TRUE)) EXCEPT
                          !.srcs = slopes :> 0 @@ total :> 2]), Absent),
         pair(File(s1, Resort(0, [Gone EXCEPT !.at = 1])),
              File(s2, Resort(0, Live({snow}, snow :> 0, FALSE))))}

(* Nothing served; one resort; two, one of them with aged values.          *)
MCInitDocs ==
    {NoDoc, [at |-> 0, entries |-> s1 :> Published], Docs(Published, Resort(0, Aged))}
=============================================================================
