----------------------------- MODULE ResortViews ----------------------------
(***************************************************************************)
(* What the readers of a resort compute from it.  Five places decide on    *)
(* their own whether a metric is present, fresh or attributed: the editor's*)
(* projection (resortView.ts), the list's count (listResorts.ts), the      *)
(* health page (health.ts), the validator (validatePublishedDataset.ts)    *)
(* and the public loader (loadResortDatasetFromObject.ts).                 *)
(*                                                                         *)
(* A resort's durable values are required, so only their sources vary; a   *)
(* live signal holds any subset of the live values.  A source is reduced   *)
(* to the age in days of what it observed.                                 *)
(***************************************************************************)
EXTENDS Naturals, FiniteSets

CONSTANTS
    DurablePaths,   \* the seven durable metric paths
    LivePaths,      \* the five live metric paths
    AgedBy,         \* path -> the path whose source the loader looks at: for
                    \* lifts_open.total, altitude_m.max and season.end_month
                    \* their sibling, else the path itself
    NoLive,         \* live_signal: null
    TTL_DEFAULT,    \* FRESHNESS_TTL_DAYS.default, 14
    TTL_MAX_STALE   \* FRESHNESS_TTL_DAYS.max_stale, 30

ASSUME ViewsAssumption ==
    /\ DurablePaths \cap LivePaths = {}
    /\ AgedBy \in [DurablePaths \cup LivePaths -> DurablePaths \cup LivePaths]
    /\ \A path \in DurablePaths \cup LivePaths : path \in LivePaths <=> AgedBy[path] \in LivePaths
    /\ TTL_DEFAULT \in Nat /\ TTL_MAX_STALE \in Nat /\ TTL_DEFAULT < TTL_MAX_STALE

(* An entry is [rev, srcs, live]: which edit of the resort it is, its      *)
(* field_sources (path -> age) and its live signal, which is NoLive or     *)
(* [vals, srcs, at, fx]: the populated paths, their sources, observed_at,  *)
(* and whether every fx block multiplies out.  lifts_open is an object of  *)
(* the signal's: its two paths are populated together.                     *)

PopulatedLivePaths(live) == IF live = NoLive THEN {} ELSE live.vals

LiveSources(live) == IF live = NoLive THEN << >> ELSE live.srcs

(* No merge: a durable path reads the resort, a live path the signal.      *)
SourcesFor(entry, path) ==
    IF path \in DurablePaths THEN entry.srcs ELSE LiveSources(entry.live)

HasValue(entry, path) ==
    path \in DurablePaths \/ path \in PopulatedLivePaths(entry.live)

Attributed(entry, path) == path \in DOMAIN SourcesFor(entry, path)

(* projectFieldStates.  `manual` is the set of paths in manual mode.       *)
ProjectField(entry, manual, path) ==
    LET age == SourcesFor(entry, path)[path]
    IN  IF ~Attributed(entry, path) \/ ~HasValue(entry, path) THEN "failed"
        ELSE IF path \in manual THEN "manual"
        ELSE IF path \in DurablePaths THEN "live"
        ELSE IF age > TTL_MAX_STALE THEN "failed"
        ELSE IF age > TTL_DEFAULT THEN "stale"
        ELSE "live"

ToFieldValue(state) ==
    CASE state = "live" -> "fresh"
      [] state = "manual" -> "fresh"
      [] state = "stale" -> "stale"
      [] state = "failed" -> "never_fetched"

(* Mutant: a value is stale from the day it reaches the limit.             *)
LoaderFieldEarly(entry, path) ==
    IF path \in DurablePaths THEN "fresh"
    ELSE IF path \notin PopulatedLivePaths(entry.live) THEN "never_fetched"
    ELSE IF entry.live.srcs[AgedBy[path]] > TTL_MAX_STALE THEN "never_fetched"
    ELSE IF entry.live.srcs[AgedBy[path]] >= TTL_DEFAULT THEN "stale"
    ELSE "fresh"

(* durableField and liveField of the loader, which ages both leaves of     *)
(* lifts_open by the source of its count, and relies on the validator for  *)
(* the source being there.                                                 *)
LoaderField(entry, path) ==
    IF path \in DurablePaths THEN "fresh"
    ELSE IF path \notin PopulatedLivePaths(entry.live) THEN "never_fetched"
    ELSE IF entry.live.srcs[AgedBy[path]] > TTL_MAX_STALE THEN "never_fetched"
    ELSE IF entry.live.srcs[AgedBy[path]] > TTL_DEFAULT THEN "stale"
    ELSE "fresh"

(* countStaleFields and the health page's hasStaleField: populated live    *)
(* paths only, but a source is looked up in both maps, the signal's first. *)
StaleFields(entry) ==
    LET own == LiveSources(entry.live)
        age(path) == IF path \in DOMAIN own THEN own[path] ELSE entry.srcs[path]
    IN  {path \in PopulatedLivePaths(entry.live) :
            /\ path \in DOMAIN own \cup DOMAIN entry.srcs
            /\ TTL_DEFAULT < age(path) /\ age(path) <= TTL_MAX_STALE}

(* Mutant: the live paths are not looked at.                               *)
LacksDurable(entry) == ~(DurablePaths \subseteq DOMAIN entry.srcs)

(* The health page's hasMissingProvenance.                                 *)
LacksProvenance(entry) ==
    \/ ~(DurablePaths \subseteq DOMAIN entry.srcs)
    \/ ~(PopulatedLivePaths(entry.live) \subseteq DOMAIN LiveSources(entry.live))

(* The validator's checks of one resort: each populated path has a source, *)
(* every fx block multiplies out, and nothing was observed after           *)
(* published_at.                                                           *)
EntryIssues(entry, publishedAt) ==
    {<<"metric_field_missing_source", path>> :
        path \in {p \in DurablePaths \cup LivePaths :
                    HasValue(entry, p) /\ ~Attributed(entry, p)}}
    \cup (IF entry.live # NoLive /\ ~entry.live.fx
          THEN {<<"fx_provenance_invalid">>} ELSE {})
    \cup (IF entry.live # NoLive /\ entry.live.at > publishedAt
          THEN {<<"envelope_published_at_before_signal">>} ELSE {})

(* validatePublishedDataset of entries (slug -> entry).  The manifest's    *)
(* count is the list's own length and cannot differ.                       *)
Issues(entries, publishedAt) ==
    (UNION {EntryIssues(entries[s], publishedAt) : s \in DOMAIN entries})
    \cup (IF DOMAIN entries = {} THEN {<<"dataset_empty">>} ELSE {})
=============================================================================
