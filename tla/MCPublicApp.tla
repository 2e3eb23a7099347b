---------------------------- MODULE MCPublicApp ----------------------------
(***************************************************************************)
(* A small instance of PublicApp: two resorts in the dataset, in two       *)
(* countries, and a slug and a country that have left it.  One resort has  *)
(* no price yet.                                                           *)
(***************************************************************************)
EXTENDS PublicApp, TLC

CONSTANTS a, b, gone, X, Y, Z

MCCatalog == <<a, b>>
MCCountry == (a :> X) @@ (b :> Y)
MCNameRank == (a :> 2) @@ (b :> 1)
MCPrice == (a :> 41) @@ (b :> None)
MCSnow == (a :> 0) @@ (b :> 30)

Query(v, c, list, d) ==
    [view |-> v, country |-> c, shortlist |-> list, detail |-> d]

(* A link with a country and a drawer of a resort that left, and one with  *)
(* a drawer, and repetitions and junk in its lists, the shortlist too long *)
(* and with a resort that left.                                            *)
MCLinks ==
    {Query(None, <<Z>>, << >>, gone),
     Query("matrix", <<Y, Junk, Y>>, <<gone, Junk, b, b>>, b)}

(* Nothing, or a list with an entry no longer accepted and longer than the *)
(* limit; the lists the app itself leaves come by themselves.              *)
MCStoredLists == {NoList, <<gone, Junk, a, b>>}
MCNothingStored == {NoList}
=============================================================================
