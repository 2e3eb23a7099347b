------------------------------ MODULE CardsGrid -----------------------------
(***************************************************************************)
(* Which cards the public landing page shows, and in which order           *)
(* (views/cardsSelectors.ts), and the chips of its filter strip            *)
(* (views/FilterBar.tsx).                                                  *)
(***************************************************************************)
EXTENDS ShareableUrl, Integers

CONSTANTS
    Catalog,    \* the slugs of the published dataset, in its order
    Country,    \* slug -> country
    NameRank,   \* slug -> place of its name in the alphabet
    Price,      \* slug -> amount of lift_pass_day, None if never_fetched
    Snow        \* slug -> snow_depth_cm, None if never_fetched

Dataset == Members(Catalog)

ASSUME GridAssumption ==
    /\ Catalog \in Seq(Slugs) \ {<< >>}
    /\ \A i, j \in DOMAIN Catalog : Catalog[i] = Catalog[j] => i = j
    /\ Country \in [Dataset -> Countries]
    /\ NameRank \in [Dataset -> Nat]
    /\ {Price, Snow} \subseteq [Dataset -> Nat \cup {None}]

PriceBuckets == {"any", "lo", "mid", "hi"}
SortValues == {"name", "price_asc", "price_desc", "snow_depth_desc"}

MatchesBucket(amount, bucket) ==
    \/ bucket = "any"
    \/ /\ amount # None
       /\ CASE bucket = "lo" -> amount <= 40
            [] bucket = "mid" -> 40 < amount /\ amount <= 80
            [] bucket = "hi" -> 80 < amount

FilterViews(countries, bucket) ==
    Filter(Catalog, {s \in Dataset :
        /\ countries = << >> \/ Country[s] \in Members(countries)
        /\ MatchesBucket(Price[s], bucket)})

(* What a resort is sorted by.                                             *)
SortKey(s, sort) ==
    CASE sort = "name" -> NameRank[s]
      [] sort \in {"price_asc", "price_desc"} -> Price[s]
      [] sort = "snow_depth_desc" -> Snow[s]

(* Missing keys go last in either direction.                               *)
CompareNumeric(a, b, direction) ==
    IF a = None /\ b = None THEN 0
    ELSE IF a = None THEN 1
    ELSE IF b = None THEN -1
    ELSE IF direction = "asc" THEN a - b ELSE b - a

Compare(s, t, sort) ==
    CompareNumeric(SortKey(s, sort), SortKey(t, sort),
                   IF sort \in {"name", "price_asc"} THEN "asc" ELSE "desc")

(* Array.prototype.sort, which is stable: each element goes behind those   *)
(* that compare less, and those before it that compare equal.              *)
SortViews(list, sort) ==
    LET before(i) == {j \in DOMAIN list :
                        LET c == Compare(list[j], list[i], sort)
                        IN  c < 0 \/ (c = 0 /\ j < i)}
    IN  [n \in DOMAIN list |->
            list[CHOOSE i \in DOMAIN list : Cardinality(before(i)) = n - 1]]

(* The chips: none for a dataset of one country.  A chip rewrites the list *)
(* of the address as a set that keeps the order of insertion.              *)
UniqueCountries == {Country[s] : s \in Dataset}
ShowCountryChips == Cardinality(UniqueCountries) > 1

ToggleCountry(selected, c) ==
    IF c \in Members(selected)
    THEN Without(Distinct(selected), c)
    ELSE Append(Distinct(selected), c)
=============================================================================
