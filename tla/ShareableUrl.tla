---------------------------- MODULE ShareableUrl ----------------------------
(***************************************************************************)
(* The shareable query string of the public app: what lib/urlState.ts and  *)
(* state/useURLState.ts compute from it, and the list operations of        *)
(* state/useShortlist.ts.  A query is a record of raw parameters, some of  *)
(* which may be junk; a URL state is what parseURL makes of it.            *)
(*                                                                         *)
(* view and detail are the PUSH keys.  Of the REPLACE keys shortlist and   *)
(* country are kept: sort and highlight take the same path through every   *)
(* function here.                                                          *)
(***************************************************************************)
EXTENDS Naturals, Sequences, FiniteSets

CONSTANTS
    Slugs,          \* strings SLUG_REGEX accepts
    Countries,      \* strings COUNTRY_REGEX accepts
    Junk,           \* any string the value's schema refuses
    None,           \* an absent parameter, an undefined optional key
    SHORTLIST_MAX   \* 6 in the code

ASSUME UrlAssumption ==
    /\ SHORTLIST_MAX \in Nat \ {0}
    /\ Junk \notin Slugs \cup Countries /\ None \notin Slugs /\ Junk # None
    /\ {"cards", "matrix"} \cap (Slugs \cup {Junk, None}) = {}

Views == {"cards", "matrix"}

(* The raw parameters: "cards" may be written out although it is the       *)
(* default, and a list may hold junk, repetitions and too many slugs.      *)
Queries == [view : Views \cup {None, Junk},
            country : Seq(Countries \cup {Junk}),
            shortlist : Seq(Slugs \cup {Junk}),
            detail : Slugs \cup {None, Junk}]

UrlStates == [view : Views, country : Seq(Countries), shortlist : Seq(Slugs),
              detail : Slugs \cup {None}]

Members(list) == {list[i] : i \in DOMAIN list}

(* The elements of a list at some of its positions, in their order; the    *)
(* first case is one of the second, and quicker to evaluate.               *)
ElementsAt(list, kept) ==
    IF kept = DOMAIN list THEN list
    ELSE [n \in 1..Cardinality(kept) |->
             list[CHOOSE i \in kept : Cardinality(kept \cap 1..i) = n]]

(* Array.prototype.filter.                                                 *)
Filter(list, S) == ElementsAt(list, {i \in DOMAIN list : list[i] \in S})
Without(list, s) == ElementsAt(list, {i \in DOMAIN list : list[i] # s})

FirstOf(list, n) == SubSeq(list, 1, IF Len(list) < n THEN Len(list) ELSE n)

(* parseCsv: parts the schema refuses are dropped; and the SLUG_REGEX      *)
(* filter of readStored.                                                   *)
ParseCsv(list, valid) == Filter(list, valid)
ValidSlugs(list) == ParseCsv(list, Slugs)

ParseURL(q) ==
    [view |-> IF q.view = "matrix" THEN "matrix" ELSE "cards",
     country |-> ParseCsv(q.country, Countries),
     shortlist |-> FirstOf(ValidSlugs(q.shortlist), SHORTLIST_MAX),
     detail |-> IF q.detail \in Slugs THEN q.detail ELSE None]

(* Defaults are omitted and the list is cut at its tail.                   *)
SerializeURL(u) ==
    [view |-> IF u.view = "cards" THEN None ELSE u.view,
     country |-> u.country,
     shortlist |-> FirstOf(u.shortlist, SHORTLIST_MAX),
     detail |-> u.detail]

Canonical(q) == SerializeURL(ParseURL(q))

(* `partial` is a function on some of the keys: an optional key set to     *)
(* None clears it, an absent key is preserved.                             *)
MergeURLState(current, partial) ==
    [k \in DOMAIN current |->
        IF k \in DOMAIN partial THEN partial[k] ELSE current[k]]

(* Mutant: clearing a PUSH key pushes like setting it.                     *)
PushOnClear(current, next) ==
    IF current.view # next.view \/ current.detail # next.detail
    THEN "push" ELSE "replace"

(* The first PUSH key that differs decides, and clearing it is a REPLACE.  *)
InferTransition(current, next) ==
    IF current.view # next.view THEN "push"
    ELSE IF current.detail # next.detail /\ next.detail # None THEN "push"
    ELSE "replace"

(***************************************************************************)
(* The session history of the tab: the queries of its entries and the      *)
(* entry shown.  pushState drops the entries ahead of it.                  *)
(***************************************************************************)
Here(h) == h.entries[h.pos]

ReplaceState(h, q) == [h EXCEPT !.entries[h.pos] = q]

PushState(h, q) ==
    [entries |-> Append(SubSeq(h.entries, 1, h.pos), q), pos |-> h.pos + 1]

SetURLState(h, partial) ==
    LET current == ParseURL(Here(h))
        next == MergeURLState(current, partial)
    IN  IF InferTransition(current, next) = "push"
        THEN PushState(h, SerializeURL(next))
        ELSE ReplaceState(h, SerializeURL(next))

(* Runs when the app subscribes and after every popstate.                  *)
NormalizeIfNeeded(h) == ReplaceState(h, Canonical(Here(h)))

(* Mutant: the list is cut at its tail, as the URL layer does.             *)
CapAtTail(list) == FirstOf(list, SHORTLIST_MAX)

(***************************************************************************)
(* The list operations of useShortlist.                                    *)
(***************************************************************************)
(* Appending at the limit drops the oldest slugs: the cut is at the head,  *)
(* where the URL layer cuts at the tail.                                   *)
CapWithNewest(list) ==
    IF Len(list) <= SHORTLIST_MAX THEN list
    ELSE SubSeq(list, Len(list) - SHORTLIST_MAX + 1, Len(list))

Toggled(list, s) ==
    IF s \in Members(list) THEN Without(list, s)
    ELSE CapWithNewest(Append(list, s))

(* A Set made of a list, and read back in the order of insertion.          *)
Distinct(list) ==
    ElementsAt(list, {i \in DOMAIN list : \A j \in 1..(i - 1) : list[j] # list[i]})

(* The loop of merge(): a repeated stored slug is added once.              *)
UnionOf(urlSlugs, storedSlugs) ==
    urlSlugs \o Filter(Distinct(storedSlugs), Slugs \ Members(urlSlugs))

MergedList(urlSlugs, storedSlugs) ==
    FirstOf(UnionOf(urlSlugs, storedSlugs), SHORTLIST_MAX)

(* Same length, and everything in the second is in the first.              *)
SetEqual(list, other) ==
    /\ Len(list) = Len(other)
    /\ Members(other) \subseteq Members(list)
=============================================================================
