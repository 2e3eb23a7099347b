----------------------------- MODULE PublicApp -----------------------------
(***************************************************************************)
(* One tab of the public app: the session history, the stored shortlist    *)
(* every tab of the origin shares, the modules' memory that a reload       *)
(* resets (useShortlist's bootstrap, collision and mirror memo,            *)
(* useDataset's cached promise, the lazy chunks) and the error boundary    *)
(* around the content.                                                     *)
(*                                                                         *)
(* Everything but the requests is synchronous: an action is one event      *)
(* handler with the notifications it sends, the mirror's among them.       *)
(***************************************************************************)
EXTENDS CardsGrid

CONSTANTS
    NoList,      \* nothing stored, or text that is not a list of strings
    Links,       \* the queries the tab may be opened on
    StoredLists, \* what the storage may hold then, or another tab may write
    MaxEntries,  \* bound: entries of the session history
    MaxChips,    \* bound: countries selected up to which a click may add one
    Buckets,     \* bound: price buckets a click may choose
    MaxOthers,   \* bound: writes by other tabs
    MayFail      \* bound: the requests that may fail

(* The code that is loaded when it is first rendered.                      *)
Chunks == {"matrix", "detail"}

(* PendingCollision.                                                       *)
PendingCollisions == [urlSlugs : Seq(Slugs), storedSlugs : Seq(Slugs)]

ASSUME AppAssumption ==
    /\ Links \subseteq Queries
    /\ StoredLists \subseteq Seq(Slugs \cup {Junk}) \cup {NoList}
    /\ NoList \notin Seq(Slugs \cup {Junk}) \cup {None}
    /\ None \notin Seq(Slugs)
    /\ None \notin PendingCollisions
    /\ Buckets \subseteq PriceBuckets
    /\ MaxOthers \in Nat
    /\ MayFail \subseteq Chunks \cup {"dataset"}

VARIABLES
    history,    \* [entries, pos]
    stored,     \* localStorage sta-shortlist-last-known
    booted,     \* bootstrapDone: the content has mounted once and the mirror runs
    bucket,     \* CardsView's price bucket, which is not in the address
    collision,  \* bootstrapCollision
    memo,       \* lastWrittenJson
    cached,     \* useDataset's promise
    chunks,     \* chunk -> what React.lazy keeps of its import
    failed,     \* the error boundary shows DatasetUnavailable
    others,     \* history: writes by other tabs so far
    undisturbed,\* history: since this document was loaded nobody else wrote
                \* the storage and the dialog stayed on the entry it was for
    stacked     \* history: a drawer or a view was opened by a click that
                \* landed while another drawer was still up

shortlistVars == <<stored, booted, collision, memo, undisturbed>>
loadVars == <<cached, chunks, failed>>
vars == <<history, bucket, shortlistVars, loadVars, others, stacked>>

URL(h) == ParseURL(Here(h))
Shortlist == URL(history).shortlist
OnCards == URL(history).view = "cards"

(* AppContent mounts the drawer only for a slug of the dataset.            *)
Overlay(h) == IF URL(h).detail \in Dataset THEN URL(h).detail ELSE None

(* readStored.                                                             *)
ReadStored(list) == IF list = NoList THEN NoList ELSE ValidSlugs(list)

SomeStored(list) == list # NoList /\ list # << >>

Init ==
    /\ \E q \in Links : history = [entries |-> <<q>>, pos |-> 1]
    /\ stored \in StoredLists
    /\ booted = FALSE
    /\ bucket = "any"
    /\ collision = None
    /\ memo = NoList
    /\ cached = "none"
    /\ chunks = [c \in Chunks |-> "none"]
    /\ failed = FALSE
    /\ others = 0
    /\ undisturbed = TRUE
    /\ stacked = FALSE

-----------------------------------------------------------------------------
(* The dataset, a module-level promise, and the lazy chunks, under one     *)
(* Suspense and one error boundary.                                        *)

(* The chunks AppContent renders at the entry shown.                       *)
Needs(h) ==
    {c \in Chunks : \/ c = "matrix" /\ URL(h).view = "matrix"
                    \/ c = "detail" /\ Overlay(h) # None}

Loads(h) == cached = "ready" /\ \A c \in Needs(h) : chunks[c] = "ready"

(* React.lazy keeps a failed import for as long as the document lives.     *)
Pinned == \E c \in Needs(history) : chunks[c] = "rejected"

(* The content renders, and once it has mounted it can be used; while the  *)
(* loading view or the failure is on the screen, there is nothing to click.*)
Renders == ~failed /\ Loads(history)
Shown == booted /\ Renders

(* The bucket is the state of the mounted CardsView and goes with it.      *)
(* Suspense keeps it, hidden, while the matrix is being loaded.            *)
BucketAfter(h) ==
    bucket' = IF Loads(h) /\ URL(h).view = "matrix" THEN "any" ELSE bucket

(* useDataset: the first render starts the fetch, later ones share it.     *)
LoadOnce ==
    /\ ~failed /\ cached = "none"
    /\ cached' = "pending"
    /\ UNCHANGED <<history, bucket, shortlistVars, chunks, failed, others, stacked>>

(* fetchDataset: the network, the status, the JSON or the validator may    *)
(* fail; every failure rejects the promise, which stays rejected.          *)
FetchSettles ==
    /\ cached = "pending"
    /\ \/ cached' = "ready"
       \/ "dataset" \in MayFail /\ cached' = "rejected"
    /\ UNCHANGED <<history, bucket, shortlistVars, chunks, failed, others, stacked>>

(* An import, begun by the first render of the view or of the drawer.  One *)
(* that nobody waits for any more settles when it is next needed.          *)
ChunkSettles(c) ==
    /\ ~failed /\ cached = "ready"
    /\ c \in Needs(history) /\ chunks[c] = "none"
    /\ \/ chunks' = [chunks EXCEPT ![c] = "ready"]
       \/ c \in MayFail /\ chunks' = [chunks EXCEPT ![c] = "rejected"]
    /\ UNCHANGED <<history, shortlistVars, cached, failed, others, stacked>>
    /\ bucket' = IF Loads(history)' /\ ~OnCards THEN "any" ELSE bucket

(* use() and React.lazy throw the rejection into ShellErrorBoundary, which *)
(* unmounts the content.                                                   *)
ShowUnavailable ==
    /\ ~failed
    /\ \/ cached = "rejected"
       \/ cached = "ready" /\ Pinned
    /\ failed' = TRUE
    /\ bucket' = "any"
    /\ UNCHANGED <<history, shortlistVars, cached, chunks, others, stacked>>

(* Mutant: Retry remounts without dropping the promise.                    *)
KeepPromise == cached

InvalidateDataset == "none"

(* The boundary's retry: drop the promise and remount the subtree.  The    *)
(* chunks stay as they are, and so does what useShortlist found out.       *)
Retry ==
    /\ failed
    /\ cached' = InvalidateDataset
    /\ failed' = FALSE
    /\ UNCHANGED <<history, bucket, shortlistVars, chunks, others, stacked>>

-----------------------------------------------------------------------------
(* The shortlist: one bootstrap, then the mirror on every change.          *)

(* mirror: what the storage holds after the history becomes h.             *)
MirrorTo(h) ==
    LET list == URL(h).shortlist
    IN  IF list = memo THEN UNCHANGED <<stored, memo>>
        ELSE stored' = list /\ memo' = list

(* A setURLState of the mounted app, and the notification it ends in.      *)
Commit(h) ==
    /\ Len(h.entries) <= MaxEntries
    /\ history' = h
    /\ MirrorTo(h)

Collides(urlList, list) ==
    /\ urlList # << >> /\ SomeStored(list) /\ ~SetEqual(urlList, list)

Hydrates(urlList, list) == urlList = << >> /\ SomeStored(list)

(* The first mounting subscribes, which normalizes the address, and then   *)
(* bootstraps; a later one, after Retry, finds bootstrapDone.              *)
(* Hydration primes the memo with what was stored: the mirror then writes  *)
(* only if the URL could not take all of it.                               *)
Mount ==
    /\ ~booted /\ Renders
    /\ booted' = TRUE
    /\ LET h == NormalizeIfNeeded(history)
           mine == URL(h).shortlist
           list == ReadStored(stored)
           hydrated == SetURLState(h, [shortlist |-> list])
       IN  /\ collision' = IF Collides(mine, list)
                           THEN [urlSlugs |-> mine, storedSlugs |-> list]
                           ELSE None
           /\ IF Hydrates(mine, list)
              THEN /\ history' = hydrated
                   /\ memo' = IF URL(hydrated).shortlist = list
                              THEN list ELSE URL(hydrated).shortlist
                   /\ stored' = IF URL(hydrated).shortlist = list
                                THEN stored ELSE URL(hydrated).shortlist
              ELSE history' = h /\ UNCHANGED <<stored, memo>>
    /\ UNCHANGED <<bucket, loadVars, others, undisturbed, stacked>>

(* The conflict dialog is modal: while it is up the page behind it takes   *)
(* no input.                                                               *)
Interactive == Shown /\ collision = None

(* The drawer is not modal: what is behind it can be clicked, and Radix    *)
(* dismisses the drawer for it.  It does so before the handler of a click  *)
(* made with a mouse or the keyboard, after that of a tap, and not at all  *)
(* for a click without a pointer, such as a screen reader's.               *)
Dismissals ==
    IF Overlay(history) = None THEN {"never"} ELSE {"before", "after", "never"}

CloseDrawer(h) == SetURLState(h, [detail |-> None])

Clicked(dismissal, partial) ==
    CASE dismissal = "before" -> SetURLState(CloseDrawer(history), partial)
      [] dismissal = "after" -> CloseDrawer(SetURLState(history, partial))
      [] dismissal = "never" -> SetURLState(history, partial)

(* Whichever way the cards are sorted.                                     *)
Filtered == FilterViews(URL(history).country, bucket)
Cards == Members(Filtered)

ToggleSlug(s) ==
    /\ Interactive /\ OnCards /\ s \in Cards
    /\ \E d \in Dismissals :
           Commit(Clicked(d, [shortlist |-> Toggled(Shortlist, s)]))
    /\ UNCHANGED <<bucket, booted, collision, undisturbed, loadVars, others, stacked>>

Stacks(dismissal) ==
    stacked' = (stacked \/ (Overlay(history) # None /\ dismissal # "before"))

OpenDetail(s) ==
    /\ Interactive /\ OnCards /\ s \in Cards
    /\ \E d \in Dismissals : Commit(Clicked(d, [detail |-> s])) /\ Stacks(d)
    /\ UNCHANGED <<bucket, booted, collision, undisturbed, loadVars, others>>

(* Escape and the close button.                                            *)
CloseDetail ==
    /\ Shown /\ Overlay(history) # None
    /\ Commit(CloseDrawer(history))
    /\ UNCHANGED <<bucket, booted, collision, undisturbed, loadVars, others, stacked>>

SwitchView(v) ==
    /\ Interactive
    /\ \E d \in Dismissals :
           LET h == Clicked(d, [view |-> v])
           IN  Commit(h) /\ BucketAfter(h) /\ Stacks(d)
    /\ UNCHANGED <<booted, collision, undisturbed, loadVars, others>>

(* The filter strip: country chips, whose selection is in the address ...  *)
ToggleChip(c) ==
    /\ Interactive /\ OnCards /\ ShowCountryChips
    /\ LET countries == ToggleCountry(URL(history).country, c)
       IN  /\ c \in Members(URL(history).country) \/ Len(countries) <= MaxChips
           /\ \E d \in Dismissals : Commit(Clicked(d, [country |-> countries]))
    /\ UNCHANGED <<bucket, booted, collision, undisturbed, loadVars, others, stacked>>

(* ... and a price bucket, which is not.                                   *)
ChoosePrice(b) ==
    /\ Interactive /\ OnCards
    /\ bucket' = b
    /\ \/ UNCHANGED <<history, stored, memo>>
       \/ Overlay(history) # None /\ Commit(CloseDrawer(history))
    /\ UNCHANGED <<booted, collision, undisturbed, loadVars, others, stacked>>

(* An empty grid comes with a button if a filter is set.                   *)
HasActiveFilters == URL(history).country # << >> \/ bucket # "any"
OffersClear == Interactive /\ OnCards /\ Cards = {} /\ HasActiveFilters

(* Mutant: the price bucket is left as it is.                              *)
ClearCountries ==
    /\ OffersClear
    /\ \E d \in Dismissals : Commit(Clicked(d, [country |-> << >>]))
    /\ UNCHANGED <<bucket, booted, collision, undisturbed, loadVars, others, stacked>>

ClearFilters ==
    /\ OffersClear
    /\ \E d \in Dismissals : Commit(Clicked(d, [country |-> << >>]))
    /\ bucket' = "any"
    /\ UNCHANGED <<booted, collision, undisturbed, loadVars, others, stacked>>

-----------------------------------------------------------------------------
(* The three ways out of the conflict dialog.                              *)
Asked == Shown /\ collision # None

(* Mutant: Replace keeps the address and forgets the storage.              *)
WriteNothing(list) == UNCHANGED <<stored, memo>>

WriteStored(list) == stored' = list /\ memo' = list

(* Replace, Escape and a click outside: the address stays as it is.        *)
AcceptUrl ==
    /\ Asked
    /\ WriteStored(collision.urlSlugs)
    /\ collision' = None
    /\ UNCHANGED <<history, bucket, booted, undisturbed, loadVars, others, stacked>>

Choose(list) ==
    /\ Commit(SetURLState(history, [shortlist |-> list]))
    /\ collision' = None
    /\ UNCHANGED <<bucket, booted, undisturbed, loadVars, others, stacked>>

KeepStored == Asked /\ Choose(collision.storedSlugs)

(* The button fires it twice; the second call finds no collision.          *)
MergeLists ==
    /\ Asked
    /\ Choose(MergedList(collision.urlSlugs, collision.storedSlugs))

-----------------------------------------------------------------------------
(* The browser.                                                            *)

(* Back and Forward between entries of this document: popstate.  Before    *)
(* the content has mounted nobody listens; from then on the mirror does,   *)
(* behind the failure as well.                                             *)
Travel(to) ==
    LET h == [history EXCEPT !.pos = to]
        seen == NormalizeIfNeeded(h)
    IN  /\ IF booted THEN history' = seen /\ MirrorTo(seen)
           ELSE history' = h /\ UNCHANGED <<stored, memo>>
        /\ BucketAfter(h)
        /\ undisturbed' = (undisturbed /\ collision = None)
        /\ UNCHANGED <<booted, collision, loadVars, others, stacked>>

Back == history.pos > 1 /\ Travel(history.pos - 1)
Forward == history.pos < Len(history.entries) /\ Travel(history.pos + 1)

(* A reload keeps the entries and the storage, and nothing else.           *)
Reload ==
    /\ booted' = FALSE
    /\ bucket' = "any"
    /\ collision' = None
    /\ memo' = NoList
    /\ cached' = "none"
    /\ chunks' = [c \in Chunks |-> "none"]
    /\ failed' = FALSE
    /\ undisturbed' = TRUE
    /\ UNCHANGED <<history, stored, others, stacked>>

(* Another tab of the app leaves its shortlist in the shared storage; no   *)
(* storage event is listened to.                                           *)
OtherTab(list) ==
    /\ others < MaxOthers
    /\ others' = others + 1
    /\ stored' = list
    /\ undisturbed' = FALSE
    /\ UNCHANGED <<history, bucket, booted, collision, memo, loadVars, stacked>>

Loading ==
    \/ LoadOnce \/ FetchSettles \/ ShowUnavailable
    \/ \E c \in Chunks : ChunkSettles(c)

Next ==
    \/ Loading \/ Retry \/ Mount
    \/ \E s \in Dataset : ToggleSlug(s) \/ OpenDetail(s)
    \/ CloseDetail
    \/ \E v \in Views : SwitchView(v)
    \/ \E c \in UniqueCountries : ToggleChip(c)
    \/ \E b \in Buckets : ChoosePrice(b)
    \/ ClearFilters
    \/ AcceptUrl \/ KeepStored \/ MergeLists
    \/ Back \/ Forward \/ Reload
    \/ \E list \in StoredLists \ {NoList} : OtherTab(list)

Spec == Init /\ [][Next]_vars

(* Requests end, and React renders what they end in.                       *)
LiveSpec == Spec /\ WF_vars(Loading)

-----------------------------------------------------------------------------

(* The type of the state, the lists' contents included: only the storage   *)
(* may hold what SLUG_REGEX refuses.                                       *)
TypeOK ==
    /\ history \in [entries : Seq(Queries), pos : Nat]
    /\ history.pos \in DOMAIN history.entries
    /\ stored \in Seq(Slugs \cup {Junk}) \cup {NoList}
    /\ memo \in Seq(Slugs) \cup {NoList}
    /\ collision \in PendingCollisions \cup {None}
    /\ booted \in BOOLEAN /\ bucket \in PriceBuckets
    /\ cached \in {"none", "pending", "ready", "rejected"}
    /\ chunks \in [Chunks -> {"none", "ready", "rejected"}]
    /\ failed \in BOOLEAN
    /\ others \in 0..MaxOthers
    /\ undisturbed \in BOOLEAN /\ stacked \in BOOLEAN

(* Once the app is up and no conflict is pending, reloading the page where *)
(* it stands asks nothing: what the mirror, the hydration and the three    *)
(* dialog buttons left in the storage never collides with the address.     *)
(* useShortlist.ts says it of Replace ("a reload of the same shared link   *)
(* doesn't re-trigger the collision dialog"); here it is every path.       *)
ReloadIsQuiet ==
    booted /\ collision = None /\ undisturbed =>
        ~Collides(Shortlist, ReadStored(stored))

(* The address bar always shows a link that reads back as it is, without   *)
(* junk, defaults or more slugs than the limit, as long as the app runs    *)
(* (useURLState.ts normalizeIfNeeded).                                     *)
AddressIsShareable == booted => Here(history) = Canonical(Here(history))

(* A user who presses Retry as often as the failure is shown, and stays    *)
(* where he is, gets the content back once the dataset can be fetched       *)
(* again, although a rejected promise is pinned on purpose (ADR 0010) --   *)
(* unless the address asks for a chunk whose import failed: that one Retry *)
(* cannot clear, only a reload or leaving the address can.                 *)
RetryRecovers ==
    /\ <>[][/\ history'.pos = history.pos /\ ~Reload
            /\ FetchSettles => cached' = "ready"]_vars
    /\ []<>~failed
    => []<>(Renders \/ Pinned)

(* Cards in the order the sort asks for: those that have no value for it   *)
(* last, in either direction, and ties in the order of the dataset.        *)
InOrder(grid, sort) ==
    LET place(s) == CHOOSE i \in DOMAIN Catalog : Catalog[i] = s
        key(i) == SortKey(grid[i], sort)
        precedes(i, j) ==
            CASE sort \in {"name", "price_asc"} -> key(i) < key(j)
              [] OTHER -> key(i) > key(j)
    IN  \A i, j \in DOMAIN grid : i < j =>
            \/ key(i) # None /\ key(j) = None
            \/ key(i) = key(j) /\ place(grid[i]) < place(grid[j])
            \/ key(i) # None /\ key(j) # None /\ precedes(i, j)

(* No filter is a dead end: whatever the address asked for, a country the  *)
(* dataset lacks and a dataset without chips included, an empty grid comes *)
(* with a button that brings every resort back in one click ("any          *)
(* combination of active filters resolves in one click"), keeps the        *)
(* shortlist and adds nothing to what Back returns to.  And the grid is in *)
(* order under any sort.                                                   *)
FiltersNeverStrand ==
    /\ [](Interactive /\ OnCards =>
            /\ Cards = {} => OffersClear
            /\ \A sort \in SortValues : InOrder(SortViews(Filtered, sort), sort))
    /\ [][ClearFilters =>
            /\ Cards' = Dataset
            /\ Shortlist' = Shortlist
            /\ history'.pos = history.pos]_vars

(* Back never brings a dismissed detail drawer back up (useURLState.ts     *)
(* inferTransition: "if that pushed, browser-back from the closed state    *)
(* would reopen the overlay instead of dismissing it").                    *)
ClosedStaysClosed ==
    [][Back /\ booted /\ Overlay(history) = None => Overlay(history') = None]_vars

(* It does not as long as nothing was opened over a drawer that was still  *)
(* up: however drawers were opened and closed, links followed and entries  *)
(* travelled, a closed one covers no open one.                             *)
BackNeverReopens ==
    [][Back /\ booted /\ ~stacked /\ Overlay(history) = None =>
            Overlay(history') = None]_vars

(* Starring a resort at the limit drops the oldest one and never the star  *)
(* just given, although the address keeps only the first SHORTLIST_MAX of  *)
(* any list; and the storage follows, whenever the drawer is dismissed.    *)
NewestStarSurvives ==
    [][\A s \in Dataset \ Members(Shortlist) : ToggleSlug(s) =>
        LET now == URL(history').shortlist
        IN  /\ now[Len(now)] = s
            /\ Len(now) <= SHORTLIST_MAX
            /\ undisturbed => stored' = now]_vars
=============================================================================
