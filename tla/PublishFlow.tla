----------------------------- MODULE PublishFlow ----------------------------
(***************************************************************************)
(* The admin server around publishDataset: POST /api/resorts/__all__/      *)
(* publish reads the workspace file by file, reads the served dataset,     *)
(* merges, stamps and validates, and hands the result to publishDataset,   *)
(* while PUTs and a shell change the files and other publishes run.        *)
(* GET /api/health, /api/publishes and /api/resorts read the same files.   *)
(*                                                                         *)
(* publishDataset is reduced to what PublishDataset establishes of it: a   *)
(* call replaces the served dataset by its own in one step, or fails.      *)
(***************************************************************************)
EXTENDS ResortViews, Integers, Sequences

CONSTANTS
    Calls,       \* publish requests
    Slugs,       \* a resort's file is named after its slug
    Absent,      \* no file; nothing known of a slug
    Corrupt,     \* a file WorkspaceFile.parse refuses
    InitFiles,   \* the workspaces to start from
    InitDocs,    \* the served datasets to start from
    Edits,       \* the entries that PUTs and a shell write
    MaxClock,    \* bound: instants
    MaxEdits     \* bound: changes of the workspace

(* The entries of ResortViews.  A signal may be observed in the future: the *)
(* server takes observed_at as the client, or a shell, wrote it.           *)
Signal(live) ==
    /\ live = [vals |-> live.vals, srcs |-> live.srcs, at |-> live.at, fx |-> live.fx]
    /\ live.vals \subseteq LivePaths /\ DOMAIN live.srcs \subseteq LivePaths
    /\ \A path \in LivePaths : path \in live.vals <=> AgedBy[path] \in live.vals
    /\ \A path \in DOMAIN live.srcs : live.srcs[path] \in Int
    /\ live.at \in Int

Entry(e) ==
    /\ e = [rev |-> e.rev, srcs |-> e.srcs, live |-> e.live]
    /\ DOMAIN e.srcs \subseteq DurablePaths \cup LivePaths
    /\ e.live = NoLive \/ Signal(e.live)

EntryMap(entries) ==
    DOMAIN entries \subseteq Slugs /\ \A s \in DOMAIN entries : Entry(entries[s])

(* A workspace file is [slug, entry], the slug being the one inside; a     *)
(* served dataset is [at, entries], entries a map from slugs to entries.   *)
(* current.v1.json that is missing or unreadable reads as no resorts.      *)
NoDoc == [at |-> 0, entries |-> << >>]

Parsed(f) == f \notin {Absent, Corrupt}

ASSUME FlowAssumption ==
    /\ Absent # Corrupt /\ MaxClock \in Nat /\ MaxEdits \in Nat
    /\ IsFiniteSet(Slugs) /\ IsFiniteSet(LivePaths)
    /\ \A e \in Edits : Entry(e)
    /\ \A fs \in InitFiles :
         /\ DOMAIN fs = Slugs
         /\ \A n \in Slugs : Parsed(fs[n]) => fs[n].slug \in Slugs /\ Entry(fs[n].entry)
    /\ \A d \in InitDocs : EntryMap(d.entries) /\ d.at \in Int /\ d.at <= 0

VARIABLES
    files,      \* data/admin-workspace: slug of the name -> file
    served,     \* data/published/current.v1.json
    clock,      \* the host's clock
    pc,         \* where each call is
    left,       \* the directory entries it has still to read
    read,       \* the entries it has read, by the slug inside
    base,       \* the served dataset as it read it
    input,      \* the dataset it hands to publishDataset
    edits,      \* changes of the workspace so far
    began,      \* history: when it started
    seen,       \* history: what the admin held of each slug since then, or
                \* another call served
    overtaken   \* history: the calls that had read base when another served

disk == <<files, served, edits>>
locals == <<left, read, base, input>>
history == <<began, seen, overtaken>>
vars == <<disk, clock, pc, locals, history>>

ParsedNames == {n \in Slugs : Parsed(files[n])}
Drifted(n) == Parsed(files[n]) /\ files[n].slug # n

ServedEntries == served.entries

ServedEntry(s) ==
    IF s \in DOMAIN ServedEntries THEN ServedEntries[s] ELSE Absent

Holding(s) == {n \in ParsedNames : files[n].slug = s}

(* What the admin holds of slug s: a file's entry, or else what is served; *)
(* Corrupt stands for a file under another name.                           *)
Contents(s) ==
    IF Holding(s) = {} THEN {ServedEntry(s)}
    ELSE {IF n = s THEN files[n].entry ELSE Corrupt : n \in Holding(s)}

Running(c) == pc[c] \in {"reading", "merging", "waiting"}

Init ==
    /\ files \in InitFiles
    /\ served \in InitDocs
    /\ edits = 0
    /\ clock = 0
    /\ pc = [c \in Calls |-> "idle"]
    /\ left = [c \in Calls |-> {}]
    /\ read = [c \in Calls |-> << >>]
    /\ base = [c \in Calls |-> NoDoc]
    /\ input = [c \in Calls |-> NoDoc]
    /\ began = [c \in Calls |-> 0]
    /\ seen = [c \in Calls |-> [s \in Slugs |-> {}]]
    /\ overtaken = {}

(* The history variable after a step: running calls have now seen this too.*)
Witness ==
    seen' = [c \in Calls |-> [s \in Slugs |->
                IF Running(c) THEN seen[c][s] \cup Contents(s)' ELSE seen[c][s]]]

-----------------------------------------------------------------------------
(* The workspace changes under the handlers.                               *)

Edited == edits < MaxEdits /\ edits' = edits + 1

Base(s) == IF Parsed(files[s]) THEN files[s].entry ELSE ServedEntries[s]

(* A PUT of the resort or of a note, which replaces the file atomically.   *)
(* It refuses a file that does not parse or that holds another slug, and a *)
(* slug that is neither in the workspace nor served (404).  What the patch *)
(* does not name stays as the base has it: the whole resort under a note,  *)
(* the live signal with its observed_at under a patch of durable values.   *)
Put(s) ==
    /\ files[s] # Corrupt /\ ~Drifted(s)
    /\ Parsed(files[s]) \/ s \in DOMAIN ServedEntries
    /\ \E e \in Edits \cup {Base(s)} : \E live \in {e.live, Base(s).live} :
        files' = [files EXCEPT ![s] = [slug |-> s, entry |-> [e EXCEPT !.live = live]]]
    /\ Edited
    /\ UNCHANGED <<served, clock, pc, locals, began, overtaken>>
    /\ Witness

(* An analyst writes the file of a new resort in a shell, the documented   *)
(* and only way to add one (spec 10.9); it may be corrupt until it is      *)
(* whole.                                                                  *)
Author(s) ==
    /\ files[s] \in {Absent, Corrupt}
    /\ \E f \in {Corrupt} \cup {[slug |-> s, entry |-> e] : e \in Edits} :
            files' = [files EXCEPT ![s] = f]
    /\ Edited
    /\ UNCHANGED <<served, clock, pc, locals, began, overtaken>>
    /\ Witness

(* rm, the documented way to drop a draft or a corrupt file.               *)
Remove(n) ==
    /\ files[n] # Absent
    /\ files' = [files EXCEPT ![n] = Absent]
    /\ Edited
    /\ UNCHANGED <<served, clock, pc, locals, began, overtaken>>
    /\ Witness

Tick ==
    /\ clock < MaxClock
    /\ clock' = clock + 1
    /\ UNCHANGED <<disk, pc, locals, history>>

-----------------------------------------------------------------------------
(* POST /api/resorts/__all__/publish.                                      *)

(* composePublishInput lists the directory.                                *)
Begin(c) ==
    /\ pc[c] = "idle"
    /\ pc' = [pc EXCEPT ![c] = "reading"]
    /\ left' = [left EXCEPT ![c] = {n \in Slugs : files[n] # Absent}]
    /\ began' = [began EXCEPT ![c] = clock]
    /\ seen' = [seen EXCEPT ![c] = [s \in Slugs |-> Contents(s)]]
    /\ UNCHANGED <<disk, clock, read, base, input, overtaken>>

Settle(c, outcome) ==
    /\ pc' = [pc EXCEPT ![c] = outcome]
    /\ left' = [left EXCEPT ![c] = {}]
    /\ read' = [read EXCEPT ![c] = << >>]
    /\ base' = [base EXCEPT ![c] = NoDoc]
    /\ input' = [input EXCEPT ![c] = NoDoc]
    /\ seen' = [seen EXCEPT ![c] = [s \in Slugs |-> {}]]
    /\ overtaken' = overtaken \ {c}

(* One file, in directory order.  A later file with the same slug inside   *)
(* replaces an earlier one.                                                *)
ReadFile(c, n) ==
    /\ pc[c] = "reading" /\ n \in left[c] /\ Parsed(files[n])
    /\ left' = [left EXCEPT ![c] = @ \ {n}]
    /\ read' = [read EXCEPT ![c] =
            [s \in DOMAIN @ \cup {files[n].slug} |->
                IF s = files[n].slug THEN files[n].entry ELSE @[s]]]
    /\ UNCHANGED <<disk, clock, pc, base, input, history>>

(* A corrupt file refuses the whole publish, a vanished one fails it.      *)
ReadRefused(c, n) ==
    /\ pc[c] = "reading" /\ n \in left[c] /\ ~Parsed(files[n])
    /\ Settle(c, IF files[n] = Corrupt THEN "workspace-corrupt" ELSE "internal")
    /\ UNCHANGED <<disk, clock, began>>

(* Mutant: only a signal that is there counts as the analyst's.            *)
MergedLiveOr(ws, pub, s) ==
    IF s \in DOMAIN ws /\ ws[s].live # NoLive THEN ws[s].live
    ELSE IF s \in DOMAIN pub THEN pub[s].live ELSE NoLive

(* A slug with a workspace entry takes its signal, null included.          *)
MergedLive(ws, pub, s) ==
    IF s \in DOMAIN ws THEN ws[s].live ELSE pub[s].live

(* Mutant: only what the analyst has a file of.                            *)
WorkspaceEntries(ws, pub) == ws

MergedEntries(ws, pub) ==
    [s \in DOMAIN ws \cup DOMAIN pub |->
        [(IF s \in DOMAIN ws THEN ws[s] ELSE pub[s])
            EXCEPT !.live = MergedLive(ws, pub, s)]]

Merged(c) == MergedEntries(read[c], base[c].entries)

(* Mutant: the envelope is stamped when the request comes in.              *)
PublishedAtStart(c) == began[c]

PublishedAt(c) == clock

(* publishDataset's first check.                                           *)
Accepted(doc) == Issues(doc.entries, doc.at) = {}

(* The served dataset is read ...                                          *)
ReadServed(c) ==
    /\ pc[c] = "reading" /\ left[c] = {}
    /\ pc' = [pc EXCEPT ![c] = "merging"]
    /\ base' = [base EXCEPT ![c] = served]
    /\ UNCHANGED <<disk, clock, left, read, input, history>>

(* ... and without another await: merged, stamped and validated.           *)
Compose(c) ==
    /\ pc[c] = "merging"
    /\ LET doc == [at |-> PublishedAt(c), entries |-> Merged(c)]
       IN  IF Accepted(doc)
           THEN /\ pc' = [pc EXCEPT ![c] = "waiting"]
                /\ input' = [input EXCEPT ![c] = doc]
                /\ UNCHANGED <<left, read, base, seen, overtaken>>
           ELSE Settle(c, "publish-validation-failed")
    /\ UNCHANGED <<disk, clock, began>>

(* publishDataset under its lock, as one step.                             *)
Serve(c) ==
    /\ pc[c] = "waiting"
    /\ served' = input[c]
    /\ pc' = [pc EXCEPT ![c] = "ok"]
    /\ left' = [left EXCEPT ![c] = {}]
    /\ read' = [read EXCEPT ![c] = << >>]
    /\ base' = [base EXCEPT ![c] = NoDoc]
    /\ input' = [input EXCEPT ![c] = NoDoc]
    /\ overtaken' = (overtaken \ {c}) \cup
                       {d \in Calls \ {c} : pc[d] \in {"merging", "waiting"}}
    /\ UNCHANGED <<files, edits, clock, began>>
    /\ seen' = [d \in Calls |-> [s \in Slugs |->
                   IF d = c THEN {}
                   ELSE IF Running(d)
                   THEN seen[d][s] \cup Contents(s)' \cup {ServedEntry(s)'}
                   ELSE seen[d][s]]]

(* The lock's timeout, or a write that failed.                             *)
PublishFails(c) ==
    /\ pc[c] = "waiting"
    /\ Settle(c, "internal")
    /\ UNCHANGED <<disk, clock, began>>

Next ==
    \/ \E s \in Slugs : Put(s) \/ Author(s) \/ Remove(s)
    \/ Tick
    \/ \E c \in Calls :
        \/ Begin(c) \/ ReadServed(c) \/ Compose(c) \/ Serve(c) \/ PublishFails(c)
        \/ \E n \in Slugs : ReadFile(c, n) \/ ReadRefused(c, n)

Spec == Init /\ [][Next]_vars

-----------------------------------------------------------------------------
(* What the other readers of the same files answer, each in one reading.   *)

ServedOnly == DOMAIN ServedEntries \ {files[n].slug : n \in ParsedNames}

(* GET /api/health.  resorts_with_failed_fields is the constant 0.         *)
Health ==
    LET Counted(Is(_)) == Cardinality({n \in ParsedNames : Is(files[n].entry)})
                          + Cardinality({s \in ServedOnly : Is(ServedEntries[s])})
        HasStaleField(entry) == StaleFields(entry) # {}
    IN  [resorts_total |->
            Cardinality({files[n].slug : n \in ParsedNames} \cup DOMAIN ServedEntries),
         resorts_with_stale_fields |-> Counted(HasStaleField),
         resorts_with_missing_provenance |-> Counted(LacksProvenance),
         resorts_with_corrupt_workspace |->
            Cardinality({n \in Slugs : files[n] = Corrupt})]

(* GET /api/resorts: the stale_field_count of each resort, a file before   *)
(* what is served.                                                         *)
Summaries(ws) ==
    [s \in DOMAIN ws \cup DOMAIN ServedEntries |->
        Cardinality(StaleFields(IF s \in DOMAIN ws THEN ws[s] ELSE ServedEntries[s]))]

(* Mutant: an entry that was published is read from where it was published.*)
DetailPublishedFirst(s) ==
    IF files[s] = Corrupt \/ Drifted(s) THEN Corrupt
    ELSE IF s \in DOMAIN ServedEntries THEN ServedEntries[s]
    ELSE IF Parsed(files[s]) THEN [files[s].entry EXCEPT !.live = NoLive]
    ELSE Absent

(* GET /api/resorts/:slug: Corrupt for 500 workspace-corrupt, Absent for   *)
(* 404.  A draft's live signal is withheld until the resort is published.  *)
Detail(s) ==
    IF files[s] = Corrupt \/ Drifted(s) THEN Corrupt
    ELSE IF Parsed(files[s])
         THEN [files[s].entry EXCEPT
                  !.live = IF s \in DOMAIN ServedEntries THEN @ ELSE NoLive]
    ELSE IF s \in DOMAIN ServedEntries THEN ServedEntries[s]
    ELSE Absent

(* The dialog's blockers.                                                  *)
Blocked(health) ==
    \/ health.resorts_with_missing_provenance > 0
    \/ health.resorts_with_corrupt_workspace > 0
    \/ health.resorts_total = 0

-----------------------------------------------------------------------------
(* Properties.                                                             *)

(* Types.                                                                  *)
TypeOK ==
    /\ DOMAIN files = Slugs
    /\ \A n \in Slugs : Parsed(files[n]) => files[n].slug \in Slugs /\ Entry(files[n].entry)
    /\ EntryMap(served.entries) /\ served.at \in Int
    /\ clock \in 0..MaxClock /\ edits \in 0..MaxEdits
    /\ pc \in [Calls -> {"idle", "reading", "merging", "waiting", "ok", "internal",
                         "workspace-corrupt", "publish-validation-failed"}]
    /\ left \in [Calls -> SUBSET Slugs]
    /\ DOMAIN read = Calls /\ DOMAIN base = Calls /\ DOMAIN input = Calls
    /\ \A c \in Calls : /\ EntryMap(read[c])
                        /\ EntryMap(base[c].entries) /\ EntryMap(input[c].entries)
                        /\ base[c].at \in Int /\ input[c].at \in Int
    /\ began \in [Calls -> 0..MaxClock]
    /\ DOMAIN seen = Calls /\ \A c \in Calls : DOMAIN seen[c] = Slugs
    /\ overtaken \subseteq Calls

(* publish.ts reads the directory, each file and the served dataset at     *)
(* different moments.  Whatever changes in between, each resort it goes on *)
(* to publish, its cleared live signal included, is what the admin held of *)
(* that resort at some moment of the call, and one left out was nowhere    *)
(* at some moment; unless it was in a file under another name.             *)
VersionsAreRecent ==
    \A c \in Calls : pc[c] = "waiting" =>
        \A s \in {t \in Slugs : Corrupt \notin seen[c][t]} :
            (IF s \in DOMAIN input[c].entries THEN input[c].entries[s] ELSE Absent)
                \in seen[c][s]

(* The workspace as one publish could read it, nothing changing meanwhile. *)
Readings ==
    LET held == {s \in Slugs : Holding(s) # {}}
    IN  {ws \in [held -> {files[n].entry : n \in ParsedNames}] :
            \A s \in held : \E n \in Holding(s) : ws[s] = files[n].entry}

(* The publish dialog decides by the health page's counts, computed by     *)
(* other code than the publish.  Over the same files they agree: nothing   *)
(* blocks the dialog only if the publish reads every file and has no       *)
(* missing source or empty dataset to report, and it blocks only if the    *)
(* publish would be refused (a resort held in two files aside).            *)
GateAgreesWithPublish ==
    LET health == Health
        refusals(ws) == {i \in Issues(MergedEntries(ws, ServedEntries), clock) :
                            i[1] \in {"metric_field_missing_source", "dataset_empty"}}
        corrupt == \E n \in Slugs : files[n] = Corrupt
    IN  \A ws \in Readings :
            /\ health.resorts_total = Cardinality(DOMAIN MergedEntries(ws, ServedEntries))
            /\ ~Blocked(health) => ~corrupt /\ refusals(ws) = {}
            /\ (\A s \in Slugs : Cardinality(Holding(s)) <= 1) /\ Blocked(health)
                  => corrupt \/ refusals(ws) # {}

(* What the editor shows of a resort is what a publish would ship of it,   *)
(* but for a draft's live signal, which the editor withholds, and for a    *)
(* file under another resort's name.                                       *)
EditorShowsWhatPublishes ==
    \A s \in Slugs : \A ws \in Readings :
        LET merged == MergedEntries(ws, ServedEntries)
            shown == Detail(s)
        IN  /\ Holding(s) = {s} \/ (Holding(s) = {} /\ files[s] = Absent)
            => IF s \in DOMAIN ServedEntries THEN shown = merged[s]
               ELSE IF s \in DOMAIN merged
                    THEN shown = [merged[s] EXCEPT !.live = NoLive]
                    ELSE shown = Absent

(* Four pieces of code decide whether a metric is fresh.  Of every resort  *)
(* that has its sources the public loader gives each metric the state that *)
(* the editor's projection gives the path whose source ages it (a path in  *)
(* manual mode is shown as such at any age); the list counts exactly the   *)
(* paths that the projection shows as stale; and the health page counts    *)
(* exactly the resorts of which the list counts any.                       *)
FreshnessAgrees ==
    LET paths == DurablePaths \cup LivePaths
    IN  \A ws \in Readings :
        LET merged == MergedEntries(ws, ServedEntries)
            listed == Summaries(ws)
        IN  /\ \A s \in {t \in DOMAIN merged : ~LacksProvenance(merged[t])} :
                LET shown(path) == ProjectField(merged[s], {}, path)
                IN  /\ \A path \in paths :
                        LoaderField(merged[s], path) = ToFieldValue(shown(AgedBy[path]))
                    /\ listed[s] = Cardinality({p \in paths : shown(p) = "stale"})
            /\ (\A s \in Slugs : Cardinality(Holding(s)) <= 1) =>
                Health.resorts_with_stale_fields =
                    Cardinality({s \in DOMAIN listed : listed[s] > 0})

(* A publish may not drop a published resort the analyst left alone (spec  *)
(* 4.6).  It does not, unless another publish served its own dataset after *)
(* this one had read the one before.                                       *)
PublishKeepsResorts ==
    [][\A c \in Calls : Serve(c) /\ c \notin overtaken =>
            DOMAIN ServedEntries \subseteq DOMAIN ServedEntries']_vars

(* published_at, the dashboard's last_published_at, never runs back: of    *)
(* overlapping publishes the one that read what another had served is      *)
(* stamped no earlier, although it may have begun, and read its files,     *)
(* first.                                                                  *)
StampsAdvance ==
    [][\A c \in Calls : Serve(c) /\ c \notin overtaken => served.at <= served'.at]_vars
=============================================================================
