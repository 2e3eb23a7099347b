------------------------------ MODULE AdminApp ------------------------------
(***************************************************************************)
(* One tab of the admin app outside the editor's drafts: the route in the  *)
(* address, the views it mounts, the fetch hooks those views share (health,*)
(* the resorts table, the publish history and the editor's detail cache),  *)
(* the publish dialog, and the toast that tells how a publish ended.       *)
(*                                                                         *)
(* A commit of React and the effects it runs are one step with the event   *)
(* that caused them, and so are the handlers of a settled promise.         *)
(***************************************************************************)
EXTENDS AdminApi, FiniteSets

CONSTANTS
    Filters,
    Junk,
    Loading,        \* what a view shows that waits for its answer
    Links,          \* the addresses the tab is opened at
    PAGE_SIZE,      \* PUBLISHES_PAGE_SIZE
    MAX_PAGE,       \* MAX_SAFE_PUBLISHES_PAGE
    Duration,       \* DEFAULT_DISMISS_MS: variant -> time units
    InitVersions,   \* the archive's length at first
    MaxCalls,       \* bound: requests under way
    MaxActs         \* bound: events of the user and of other writers

VARIABLES
    address,        \* window.location.search
    trail,          \* the addresses Back returns to
    calls,          \* requests under way
    cache,          \* key -> what a new mount of a hook finds there: a ticket
                    \* for the request to join or, in the editor's cache, the
                    \* outcome of the last one
    generation,     \* publishes key -> how often it was invalidated
    view,           \* consumer -> the key it is mounted for and what it shows
    open,           \* the publish dialog is mounted
    status,         \* usePublish's state
    toast,          \* ToastProvider's slot
    versions,       \* server: published versions
    blocked,        \* server: the workspace cannot be published
    confirmed,      \* history: the newest version this tab knows published
    acts            \* bound

fetching == <<calls, cache, view>>
server == <<versions, blocked>>
vars == <<address, trail, fetching, generation, open, status, toast, server,
          confirmed, acts>>

(* A request is [id, key, answer, waiters]; a waiter is the handler a      *)
(* mounted hook attached, with the generation it captured.                 *)
HealthKey == <<"health", None>>
PublishKey == <<"publish", None>>
TableKeys == {"resorts"} \X (Filters \cup {None})
HistoryKeys == {"publishes"} \X (0..MAX_PAGE)
DetailKeys == {"detail"} \X Slugs
Keys == {HealthKey} \cup TableKeys \cup HistoryKeys \cup DetailKeys
Consumers == {"dashboard", "table", "history", "editor", "dialog"}

Unmounted == [key |-> None, shows |-> None]

Pending(key) == {r \in calls : r.key = key}

(* apiClient: the method and path a key is fetched with; filters and pages *)
(* go into the query string.                                               *)
PathOf(key) ==
    CASE key = HealthKey -> <<"GET", <<"health">>>>
      [] key = PublishKey -> <<"POST", <<"resorts", "__all__", "publish">>>>
      [] key \in TableKeys -> <<"GET", <<"resorts">>>>
      [] key \in HistoryKeys -> <<"GET", <<"publishes">>>>
      [] key \in DetailKeys -> <<"GET", <<"resorts", key[2]>>>>

HandlerOf(key) == Dispatched(PathOf(key)[1], PathOf(key)[2])

Error(codes) == [error : codes]
IsError(what) == what \in Error(STATUS_FOR_CODE)

-----------------------------------------------------------------------------
(* urlState.ts.  A query is [route, arg]: what follows ?route=, and the one*)
(* parameter that route has.                                               *)

At(route, arg) == [route |-> route, arg |-> arg]

Routes ==
    [route : {"resorts"}, arg : Filters \cup {None}]
        \cup [route : {"publishes"}, arg : 0..MAX_PAGE]
        \cup [route : {"editor"}, arg : Slugs]
        \cup [route : {"gallery", "dashboard"}, arg : {None}]

ParseURL(q) ==
    CASE q.route = "resorts" -> At("resorts", IF q.arg \in Filters THEN q.arg ELSE None)
      [] q.route = "publishes" -> At("publishes", IF q.arg \in 1..MAX_PAGE THEN q.arg ELSE 0)
      [] q.route = "editor" /\ q.arg \in Slugs -> At("editor", q.arg)
      [] q.route = "gallery" -> At("gallery", None)
      [] OTHER -> At("dashboard", None)

SerializeURL(route) ==
    IF route.route = "publishes" /\ route.arg = 0 THEN At("publishes", None) ELSE route

(* The addresses the tab can be at.                                        *)
Addresses == Links \cup {SerializeURL(route) : route \in Routes}

ASSUME AppAssumption ==
    /\ MaxCalls \in Nat \ {0} /\ MaxActs \in Nat
    /\ MAX_PAGE \in Nat /\ PAGE_SIZE \in Nat /\ InitVersions \in Nat
    /\ Duration \in [{"info", "success", "error"} -> Nat]
    /\ None \notin Filters \cup 0..MAX_PAGE \cup Keys \cup {PublishKey, Loading}
    /\ \A i \in 1..MaxCalls : None # [id |-> i]
    /\ \A what \in {None, Loading} :
        what \notin Error(STATUS_FOR_CODE) \cup [from : {"listResorts", "resortDetail"}]
                     \cup [blocked : BOOLEAN] \cup [version : Nat]
                     \cup [page : 0..MAX_PAGE, total : Nat]

Route == ParseURL(address)

(* What App mounts for a route, and for which key it fetches.              *)
Mounts(route) ==
    CASE route.route = "dashboard" -> {<<"dashboard", HealthKey>>}
      [] route.route = "resorts" -> {<<"table", <<"resorts", route.arg>>>>}
      [] route.route = "publishes" -> {<<"history", <<"publishes", route.arg>>>>}
      [] route.route = "editor" -> {<<"editor", <<"detail", route.arg>>>>}
      [] OTHER -> {}

-----------------------------------------------------------------------------
(* The fetch hooks.                                                        *)

Room == Cardinality(calls) < MaxCalls
NewId(rs) == CHOOSE i \in 1..MaxCalls : \A r \in rs : r.id # i

Request(rs, key, waiters) ==
    rs \cup {[id |-> NewId(rs), key |-> key, answer |-> None, waiters |-> waiters]}

Ticket(id) == [id |-> id]

GenerationOf(gen, key) == IF key \in HistoryKeys THEN gen[key] ELSE 0

(* startFetch, and its counterparts in useHealth, useResortList and        *)
(* useResortDetail: join the request under way for the key, or send one;   *)
(* an outcome in the editor's cache is shown at once.                      *)
Fetched(rs, ch, gen, vw, consumer, key) ==
    LET w == [consumer |-> consumer, generation |-> GenerationOf(gen, key)]
        joins(r) == ch[key] = Ticket(r.id)
        showing(what) == [vw EXCEPT ![consumer] = [key |-> key, shows |-> what]]
    IN  IF ch[key] = None
        THEN [calls |-> Request(rs, key, {w}), cache |-> [ch EXCEPT ![key] = Ticket(NewId(rs))],
              view |-> showing(Loading)]
        ELSE IF ~\E r \in rs : joins(r)
        THEN [calls |-> rs, cache |-> ch, view |-> showing(ch[key])]
        ELSE [calls |-> {IF joins(r) THEN [r EXCEPT !.waiters = @ \cup {w}] ELSE r :
                            r \in rs},
              cache |-> ch, view |-> showing(Loading)]

Becomes(f) == calls' = f.calls /\ cache' = f.cache /\ view' = f.view

(* Mutant: the cleanup does not set cancelled.                             *)
CancelledNone(rs, gone) == rs

(* Mutant: the cleanup aborts the request it waits for.                    *)
CancelledAborts(rs, gone) ==
    {r \in rs : \A w \in r.waiters : w.consumer \notin gone}

(* The cleanup of an effect: its handlers no longer set state.             *)
Cancelled(rs, gone) ==
    {[r EXCEPT !.waiters = {w \in @ : w.consumer \notin gone}] : r \in rs}

(* The address changes and App renders: the hooks of a view that goes, or  *)
(* whose key changes, are cleaned up; a new one starts from loading.       *)
Navigate(q, ch) ==
    LET wanted == Mounts(ParseURL(q))
        kept == {c \in Consumers : <<c, view[c].key>> \in wanted}
        gone == Consumers \ (kept \cup {"dialog"})
        rs == Cancelled(calls, gone)
        vw == [c \in Consumers |-> IF c \in gone THEN Unmounted ELSE view[c]]
    IN  /\ address' = q
        /\ Room
        /\ IF wanted = {} \/ kept # {}
           THEN Becomes([calls |-> rs, cache |-> ch, view |-> vw])
           ELSE \E m \in wanted : Becomes(Fetched(rs, ch, generation, vw, m[1], m[2]))

Act == acts < MaxActs /\ acts' = acts + 1

(* setRoute: pushes, and notifies.                                         *)
SetRoute(route, ch) ==
    /\ Act
    /\ trail' = Append(trail, address)
    /\ Navigate(SerializeURL(route), ch)
    /\ UNCHANGED <<generation, open, status, toast, server, confirmed>>

Back ==
    /\ Act
    /\ trail # << >>
    /\ trail' = SubSeq(trail, 1, Len(trail) - 1)
    /\ Navigate(trail[Len(trail)], cache)
    /\ UNCHANGED <<generation, open, status, toast, server, confirmed>>

(* The moves the views offer; none with a modal in front of them.          *)
Rows(c) == ~open /\ view[c].shows \notin {None, Loading} /\ ~IsError(view[c].shows)

(* g r.                                                                    *)
GoResorts == ~open /\ SetRoute(At("resorts", None), cache)

FilterTable ==
    Rows("table") /\ \E f \in Filters \cup {None} : SetRoute(At("resorts", f), cache)

OpenEditor == Rows("table") /\ \E s \in Slugs : SetRoute(At("editor", s), cache)

(* Previous, Next, and the way back from a page past the end.              *)
TurnPage ==
    /\ Rows("history")
    /\ LET page == Route.arg
           total == view["history"].shows.total
           empty == total <= page * PAGE_SIZE
       IN  \E to \in 0..MAX_PAGE :
            /\ \/ ~empty /\ to = page - 1
               \/ ~empty /\ to = page + 1 /\ to * PAGE_SIZE < total
               \/ empty /\ page > 0 /\ to = 0
            /\ SetRoute(At("publishes", to), cache)

(* The editor's boundary shows a rejection, which stays in the cache until *)
(* one of its buttons invalidates it: Retry, which remounts ...            *)
EditorFailed(codes) == ~open /\ view["editor"].shows \in Error(codes)
Invalidated(key) == [cache EXCEPT ![key] = None]

Retry ==
    LET key == view["editor"].key
    IN  /\ Act
        /\ EditorFailed(STATUS_FOR_CODE \ {"not-found"}) /\ Room
        /\ Becomes(Fetched(calls, Invalidated(key), generation, view, "editor", key))
        /\ UNCHANGED <<address, trail, generation, open, status, toast, server, confirmed>>

(* ... and Back to resorts.                                                *)
BackToResorts ==
    /\ EditorFailed({"not-found", "workspace-corrupt"})
    /\ SetRoute(At("resorts", None), Invalidated(view["editor"].key))

-----------------------------------------------------------------------------
(* The publish dialog.                                                     *)

OpenDialog ==
    /\ Act
    /\ ~open /\ Room
    /\ open' = TRUE
    /\ status' = "idle"
    /\ Becomes(Fetched(calls, cache, generation, view, "dialog", HealthKey))
    /\ UNCHANGED <<address, trail, generation, toast, server, confirmed>>

(* Mutant: Escape closes the dialog at any time.                           *)
MayCloseAlways == open

(* handleOpenChange, and the Cancel button.                                *)
MayClose == open /\ status # "submitting"

CloseDialog ==
    /\ MayClose
    /\ open' = FALSE
    /\ calls' = Cancelled(calls, {"dialog"})
    /\ view' = [view EXCEPT !["dialog"] = Unmounted]
    /\ UNCHANGED <<address, trail, cache, generation, status, toast, server, confirmed, acts>>

Known(what) == what # Loading /\ ~IsError(what)

(* Confirm is enabled once health is known and names no blocker.           *)
MayConfirm == /\ open /\ status # "submitting"
              /\ Known(view["dialog"].shows) /\ ~view["dialog"].shows.blocked

(* A second click before React commits the first is stopped by inFlightRef.*)
Confirm ==
    /\ Act
    /\ MayConfirm /\ Room
    /\ status' = "submitting"
    /\ calls' = Request(calls, PublishKey, {})
    /\ UNCHANGED <<address, trail, cache, generation, view, open, toast, server, confirmed>>

-----------------------------------------------------------------------------
(* The toast: a slot, and a timer that hovering or focus suspends.         *)

Shown(variant) ==
    [variant |-> variant, remaining |-> Duration[variant], since |-> 0,
     running |-> TRUE, hovered |-> FALSE, focused |-> FALSE,
     seen |-> 0]  \* history: time units it was up and not attended to

Paused(t) ==
    IF t.running THEN [t EXCEPT !.running = FALSE, !.remaining = @ - t.since, !.since = 0]
    ELSE t

(* Mutant: the timer starts over.                                          *)
ResumedAnyway(t) == [t EXCEPT !.running = TRUE, !.since = 0]

(* handleMouseLeave and handleBlur: only when neither flag is set.         *)
Resumed(t) ==
    IF t.hovered \/ t.focused \/ t.running THEN t
    ELSE [t EXCEPT !.running = TRUE, !.since = 0]

Attend ==
    /\ Act
    /\ toast # None /\ ~open
    /\ \/ ~toast.hovered /\ toast' = Paused([toast EXCEPT !.hovered = TRUE])
       \/ ~toast.focused /\ toast' = Paused([toast EXCEPT !.focused = TRUE])
    /\ UNCHANGED <<address, trail, fetching, generation, open, status, server, confirmed>>

Leave ==
    /\ toast # None
    /\ \/ toast.hovered /\ toast' = Resumed([toast EXCEPT !.hovered = FALSE])
       \/ toast.focused /\ toast' = Resumed([toast EXCEPT !.focused = FALSE])
    /\ UNCHANGED <<address, trail, fetching, generation, open, status, server, confirmed, acts>>

Due == toast # None /\ toast.running /\ toast.since = toast.remaining

Tick ==
    /\ toast # None /\ toast.running /\ ~Due
    /\ toast' = [toast EXCEPT !.since = @ + 1,
                              !.seen = IF toast.hovered \/ toast.focused THEN @ ELSE @ + 1]
    /\ UNCHANGED <<address, trail, fetching, generation, open, status, server, confirmed, acts>>

(* The timer, or the user's click.                                         *)
Expire ==
    /\ Due
    /\ toast' = None
    /\ UNCHANGED <<address, trail, fetching, generation, open, status, server, confirmed, acts>>

Dismiss ==
    /\ Act
    /\ toast # None /\ ~open
    /\ toast' = None
    /\ UNCHANGED <<address, trail, fetching, generation, open, status, server, confirmed>>

(* g i.                                                                    *)
GoIntegrations ==
    /\ Act
    /\ ~open
    /\ toast' = Shown("info")
    /\ UNCHANGED <<address, trail, fetching, generation, open, status, server, confirmed>>

-----------------------------------------------------------------------------
(* The server, and the network.                                            *)

(* An edit elsewhere that adds or clears a blocker.                        *)
WorkspaceChanges ==
    /\ Act
    /\ blocked' = ~blocked
    /\ UNCHANGED <<address, trail, fetching, generation, open, status, toast, versions,
                   confirmed>>

(* GET /api/publishes: a page of the archive, and how long it is.          *)
Listed(page) == [page |-> page, total |-> versions]

Publishes(key) == HandlerOf(key) = "publish" /\ ~blocked

AnswerTo(key) ==
    CASE HandlerOf(key) = "health" -> [blocked |-> blocked]
      [] Publishes(key) -> [version |-> versions + 1]
      [] HandlerOf(key) = "publish" /\ blocked ->
            [error |-> ErrorEnvelope("publish-validation-failed")]
      [] HandlerOf(key) = "listPublishes" -> Listed(key[2])
      [] HandlerOf(key) \in {"listResorts", "resortDetail"} -> [from |-> HandlerOf(key)]
      [] OTHER -> [error |-> HandlerOf(key)]

Serve(r) ==
    /\ r.answer = None
    /\ calls' = (calls \ {r}) \cup {[r EXCEPT !.answer = AnswerTo(r.key)]}
    /\ versions' = IF Publishes(r.key) THEN versions + 1 ELSE versions
    /\ UNCHANGED <<address, trail, cache, generation, view, open, status, toast, blocked,
                   confirmed, acts>>

(* An error of the handler, or of the network, before or after it.         *)
Fails(r) ==
    /\ Act
    /\ ~IsError(r.answer)
    /\ \E code \in ErrorsOf(HandlerOf(r.key)) :
        calls' = (calls \ {r}) \cup {[r EXCEPT !.answer = [error |-> code]]}
    /\ UNCHANGED <<address, trail, cache, generation, view, open, status, toast, server,
                   confirmed>>

Accepts(w, key) == w.generation = GenerationOf(generation, key)

(* A GET settles.  The shared promise leaves inFlight, for the history     *)
(* only if it is the one still there; the editor's stays, with its outcome.*)
Settle(r) ==
    /\ r.answer # None /\ r.key # PublishKey
    /\ calls' = calls \ {r}
    /\ cache' = [cache EXCEPT ![r.key] =
            IF @ # Ticket(r.id) THEN @
            ELSE IF r.key \in DetailKeys THEN r.answer
            ELSE None]
    /\ LET told == {w.consumer : w \in {v \in r.waiters : Accepts(v, r.key)}}
       IN  view' = [c \in Consumers |->
                        IF c \in told THEN [view[c] EXCEPT !.shows = r.answer] ELSE view[c]]
    /\ UNCHANGED <<address, trail, generation, open, status, toast, server, confirmed, acts>>

(* Mutant: the requests under way are left for others to join.             *)
ForgottenNone(ch) == ch

(* inFlight.clear().                                                       *)
Forgotten(ch) == [k \in Keys |-> IF k \in HistoryKeys THEN None ELSE ch[k]]

(* The effects of the dialog: a toast tells how the publish ended, and the *)
(* dialog closes if it succeeded.                                          *)
Reported(variant) ==
    /\ toast' = Shown(variant)
    /\ status' = "idle"
    /\ open' = (open /\ variant = "error")

(* The subscription of a mounted history: it loads again.                  *)
Refetched(rs, ch, gen, vw) ==
    IF vw["history"].key = None THEN [calls |-> rs, cache |-> ch, view |-> vw]
    ELSE Fetched(rs, ch, gen, vw, "history", vw["history"].key)

(* The publish is answered: the history is invalidated.                    *)
PublishSucceeds(r) ==
    /\ r.key = PublishKey /\ r.answer # None /\ ~IsError(r.answer)
    /\ confirmed' = r.answer.version
    /\ Reported("success")
    /\ generation' = [k \in HistoryKeys |-> generation[k] + 1]
    /\ Becomes(Refetched(Cancelled(calls \ {r}, {"dialog"}), Forgotten(cache),
                         generation', [view EXCEPT !["dialog"] = Unmounted]))
    /\ UNCHANGED <<address, trail, server, acts>>

PublishRefused(r) ==
    /\ r.key = PublishKey /\ IsError(r.answer)
    /\ calls' = calls \ {r}
    /\ Reported("error")
    /\ UNCHANGED <<address, trail, cache, generation, view, server, confirmed, acts>>

-----------------------------------------------------------------------------
Init ==
    /\ address \in Links
    /\ trail = << >>
    /\ generation = [k \in HistoryKeys |-> 0]
    /\ LET vw == [c \in Consumers |-> Unmounted]
           ch == [k \in Keys |-> None]
           first == {Fetched({}, ch, [k \in HistoryKeys |-> 0], vw, m[1], m[2]) :
                        m \in Mounts(ParseURL(address))}
       IN  \E g \in (IF first = {} THEN {[calls |-> {}, cache |-> ch, view |-> vw]} ELSE first) :
            calls = g.calls /\ cache = g.cache /\ view = g.view
    /\ open = FALSE
    /\ status = "idle"
    /\ toast = None
    /\ versions = InitVersions
    /\ blocked \in BOOLEAN
    /\ confirmed = 0
    /\ acts = 0

User ==
    \/ Back \/ GoResorts \/ FilterTable \/ OpenEditor \/ TurnPage
    \/ Retry \/ BackToResorts
    \/ OpenDialog \/ CloseDialog \/ Confirm
    \/ Attend \/ Leave \/ Dismiss \/ GoIntegrations

Replies(r) == Serve(r) \/ Settle(r) \/ PublishSucceeds(r) \/ PublishRefused(r)

Next ==
    \/ User
    \/ Tick \/ Expire \/ WorkspaceChanges
    \/ \E r \in calls : Replies(r) \/ Fails(r)

Spec == Init /\ [][Next]_vars

-----------------------------------------------------------------------------
(* Properties.                                                             *)

(* What a view shows for a key, or a request for it is answered with.      *)
AnswerOf(key, a) ==
    \/ IsError(a)
    \/ key = HealthKey /\ a \in [blocked : BOOLEAN]
    \/ key = PublishKey /\ a \in [version : Nat]
    \/ key \in TableKeys /\ a = [from |-> "listResorts"]
    \/ key \in HistoryKeys /\ a \in [page : {key[2]}, total : Nat]
    \/ key \in DetailKeys /\ a = [from |-> "resortDetail"]

CallOK(r) ==
    /\ r = [id |-> r.id, key |-> r.key, answer |-> r.answer, waiters |-> r.waiters]
    /\ r.id \in 1..MaxCalls /\ r.key \in Keys \cup {PublishKey}
    /\ r.answer = None \/ AnswerOf(r.key, r.answer)
    /\ r.waiters \subseteq [consumer : Consumers, generation : Nat]

(* Types.                                                                  *)
TypeOK ==
    /\ address \in Addresses /\ trail \in Seq(Addresses)
    /\ \A r \in calls : CallOK(r)
    /\ DOMAIN cache = Keys
    /\ \A k \in Keys :
        \/ cache[k] = None
        \/ \E r \in Pending(k) : cache[k] = Ticket(r.id)
        \/ k \in DetailKeys /\ AnswerOf(k, cache[k])
    /\ generation \in [HistoryKeys -> Nat]
    /\ DOMAIN view = Consumers
    /\ \A c \in Consumers : \/ view[c] = Unmounted
                            \/ /\ view[c].key \in Keys
                               /\ view[c].shows = Loading \/ AnswerOf(view[c].key, view[c].shows)
    /\ status \in {"idle", "submitting"} /\ open \in BOOLEAN
    /\ toast # None => toast \in [variant : DOMAIN Duration, remaining : Nat, since : Nat,
                                  running : BOOLEAN, hovered : BOOLEAN, focused : BOOLEAN,
                                  seen : Nat]
    /\ versions \in Nat /\ blocked \in BOOLEAN /\ confirmed \in Nat /\ acts \in 0..MaxActs

(* A view that shows loading has a request under way whose answer it will  *)
(* take: a navigation, a request that was shared or an invalidation never  *)
(* leaves it loading for good.                                             *)
NoStuckLoading ==
    \A c \in Consumers : view[c].shows = Loading =>
        \E r \in Pending(view[c].key) : \E w \in r.waiters :
            w.consumer = c /\ Accepts(w, r.key)

(* Whatever the order of navigations and answers, the mounted views are    *)
(* those of the address, each shows what its own endpoint answered, and    *)
(* the history never another page.  Every route a view can go to reads     *)
(* back from the address it writes.                                        *)
ViewsFollowAddress ==
    /\ \A c \in Consumers \ {"dialog"} :
        view[c].key # None <=> <<c, view[c].key>> \in Mounts(Route)
    /\ Rows("history") => view["history"].shows.page = Route.arg
    /\ Rows("table") => view["table"].shows.from = "listResorts"
    /\ Rows("editor") => view["editor"].shows.from = "resortDetail"
    /\ \A route \in Routes : ParseURL(SerializeURL(route)) = route

(* Once a publish is confirmed to the tab, no history it shows from then   *)
(* on, on any page, lacks it.                                              *)
HistoryHasConfirmed ==
    Rows("history") => view["history"].shows.total >= confirmed

(* A publish under way is the only one, and its dialog waits for it: the   *)
(* code that tells how it ended is mounted.                                *)
PublishIsWatched ==
    /\ Cardinality(Pending(PublishKey)) <= 1
    /\ Pending(PublishKey) # {} <=> open /\ status = "submitting"

(* The toast's timer runs exactly while nobody attends to the toast, and   *)
(* over all suspensions it is up for its duration, no less and no more.    *)
ToastKeepsTime ==
    toast # None =>
        /\ toast.running <=> ~toast.hovered /\ ~toast.focused
        /\ toast.remaining + toast.seen = Duration[toast.variant] + toast.since
=============================================================================
