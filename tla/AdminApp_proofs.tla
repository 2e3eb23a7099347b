--------------------------- MODULE AdminApp_proofs --------------------------
(***************************************************************************)
(* Theorems about AdminApp, for any resorts, filters, addresses to start   *)
(* at, pages, number of requests and number of events.                     *)
(***************************************************************************)
EXTENDS AdminApp, FiniteSetTheorems, SequenceTheorems, TLAPS

(* What holds between requests rs, cache ch, views vw and generations gen, *)
(* the newest version the tab knows of being conf.                         *)

(* A consumer fetches the kind of key its view is for.                     *)
KindOf(c) ==
    CASE c = "dashboard" -> {HealthKey}
      [] c = "dialog" -> {HealthKey}
      [] c = "table" -> TableKeys
      [] c = "history" -> HistoryKeys
      [] c = "editor" -> DetailKeys

Requests(rs) ==
    /\ \A r \in rs : CallOK(r)
    /\ \A q, r \in rs : q.id = r.id => q = r

Tickets(rs, ch) ==
    /\ DOMAIN ch = Keys
    /\ \A k \in Keys : \/ ch[k] = None
                       \/ \E r \in rs : r.key = k /\ ch[k] = Ticket(r.id)
                       \/ k \in DetailKeys /\ AnswerOf(k, ch[k])

Views(vw) ==
    /\ DOMAIN vw = Consumers
    /\ \A c \in Consumers :
        \/ vw[c] = Unmounted
        \/ /\ vw[c] = [key |-> vw[c].key, shows |-> vw[c].shows]
           /\ vw[c].key \in Keys \cap KindOf(c)
           /\ vw[c].shows = Loading \/ AnswerOf(vw[c].key, vw[c].shows)

(* A waiter is attached for the key its consumer is mounted for.           *)
Waiters(rs, gen, vw) ==
    \A r \in rs : \A w \in r.waiters :
        /\ vw[w.consumer].key = r.key
        /\ w.generation <= GenerationOf(gen, r.key)

(* An answer that is not behind what the tab knows.                        *)
UpToDate(key, a, conf) == key \in HistoryKeys /\ ~IsError(a) => a.total >= conf

(* A request that can still be joined, or whose answer will be taken, has  *)
(* not been answered with less than the tab knows.                         *)
Fresh(rs, ch, gen, conf) ==
    \A r \in rs :
        \/ r.answer = None
        \/ r.key \in HistoryKeys
              /\ ch[r.key] # Ticket(r.id)
              /\ \A w \in r.waiters : w.generation # gen[r.key]
        \/ UpToDate(r.key, r.answer, conf)

Sane(rs, ch, gen, vw, conf) ==
    /\ Requests(rs) /\ Tickets(rs, ch) /\ Views(vw)
    /\ Waiters(rs, gen, vw) /\ Fresh(rs, ch, gen, conf)

(* What c shows is up to date, or a request under way will tell it.        *)
Told(c, rs, gen, vw, conf) ==
    /\ vw[c].shows = Loading =>
        \E r \in rs : /\ r.key = vw[c].key
                      /\ \E w \in r.waiters : /\ w.consumer = c
                                              /\ w.generation = GenerationOf(gen, r.key)
    /\ vw[c].shows \notin {None, Loading} => UpToDate(vw[c].key, vw[c].shows, conf)

(* At most one publish is under way, and one only if `there`; its answer is*)
(* one of the server's n versions.                                         *)
Publishing(rs, there, n) ==
    /\ \A q, r \in rs : q.key = PublishKey /\ r.key = PublishKey => q = r
    /\ (\E r \in rs : r.key = PublishKey) <=> there
    /\ \A r \in rs : r.key = PublishKey /\ r.answer # None /\ ~IsError(r.answer)
                         => r.answer.version <= n

Fetches ==
    /\ Sane(calls, cache, generation, view, confirmed)
    /\ \A c \in Consumers : Told(c, calls, generation, view, confirmed)

(* The views are those of the address, and the dialog's.                   *)
Mounted ==
    /\ \A c \in Consumers \ {"dialog"} :
        view[c].key # None <=> <<c, view[c].key>> \in Mounts(Route)
    /\ view["dialog"].key = IF open THEN HealthKey ELSE None

(* The rest of the types.                                                  *)
Typed ==
    /\ address \in Addresses /\ trail \in Seq(Addresses)
    /\ generation \in [HistoryKeys -> Nat]
    /\ status \in {"idle", "submitting"} /\ open \in BOOLEAN
    /\ toast # None => toast \in [variant : DOMAIN Duration, remaining : Nat, since : Nat,
                                  running : BOOLEAN, hovered : BOOLEAN, focused : BOOLEAN,
                                  seen : Nat]
    /\ versions \in Nat /\ confirmed \in Nat /\ confirmed <= versions
    /\ blocked \in BOOLEAN /\ acts \in 0..MaxActs

Timed ==
    toast # None =>
        /\ toast.running <=> ~toast.hovered /\ ~toast.focused
        /\ toast.since <= toast.remaining
        /\ ~toast.running => toast.since = 0
        /\ toast.remaining + toast.seen = Duration[toast.variant] + toast.since

IInv ==
    /\ Typed /\ Fetches /\ Mounted /\ Timed
    /\ Publishing(calls, open /\ status = "submitting", versions)
-----------------------------------------------------------------------------
(* Every query is one of the routes, and App mounts at most one view.      *)
LEMMA ParsesToRoute ==
  ASSUME NEW q
  PROVE  ParseURL(q) \in Routes
<1>1. CASE q.route = "resorts"
  BY <1>1 DEF ParseURL, Routes, At
<1>2. CASE q.route = "publishes"
  BY <1>2, AppAssumption DEF ParseURL, Routes, At
<1>3. CASE q.route = "editor" /\ q.arg \in Slugs
  BY <1>3 DEF ParseURL, Routes, At
<1>4. CASE q.route = "gallery"
  BY <1>4 DEF ParseURL, Routes, At
<1>5. CASE q.route \notin {"resorts", "publishes", "gallery"}
           /\ ~(q.route = "editor" /\ q.arg \in Slugs)
  BY <1>5 DEF ParseURL, Routes, At
<1>. QED  BY <1>1, <1>2, <1>3, <1>4, <1>5

LEMMA MountsOne ==
  ASSUME NEW route \in Routes
  PROVE  \/ Mounts(route) = {}
         \/ \E c \in Consumers \ {"dialog"} : \E k \in Keys \cap KindOf(c) :
              Mounts(route) = {<<c, k>>}
<1>1. CASE route.route = "dashboard"
  BY <1>1 DEF Mounts, Consumers, Keys, KindOf
<1>2. CASE route.route = "resorts"
  <2>1. <<"resorts", route.arg>> \in TableKeys
    BY <1>2 DEF Routes, TableKeys
  <2>2. Mounts(route) = {<<"table", <<"resorts", route.arg>>>>}
    BY <1>2 DEF Mounts
  <2>3. KindOf("table") = TableKeys /\ "table" \in Consumers \ {"dialog"}
    BY DEF KindOf, Consumers
  <2>. QED  BY <2>1, <2>2, <2>3 DEF Keys
<1>3. CASE route.route = "publishes"
  <2>1. <<"publishes", route.arg>> \in HistoryKeys
    BY <1>3 DEF Routes, HistoryKeys
  <2>2. Mounts(route) = {<<"history", <<"publishes", route.arg>>>>}
    BY <1>3 DEF Mounts
  <2>3. KindOf("history") = HistoryKeys /\ "history" \in Consumers \ {"dialog"}
    BY DEF KindOf, Consumers
  <2>. QED  BY <2>1, <2>2, <2>3 DEF Keys
<1>4. CASE route.route = "editor"
  <2>1. <<"detail", route.arg>> \in DetailKeys
    BY <1>4 DEF Routes, DetailKeys
  <2>2. Mounts(route) = {<<"editor", <<"detail", route.arg>>>>}
    BY <1>4 DEF Mounts
  <2>3. KindOf("editor") = DetailKeys /\ "editor" \in Consumers \ {"dialog"}
    BY DEF KindOf, Consumers
  <2>. QED  BY <2>1, <2>2, <2>3 DEF Keys
<1>5. CASE route.route = "gallery"
  BY <1>5 DEF Mounts
<1>. QED  BY <1>1, <1>2, <1>3, <1>4, <1>5 DEF Routes

(* Keys of different kinds differ.                                         *)
LEMMA KeyKinds ==
  /\ HealthKey \notin TableKeys \cup HistoryKeys \cup DetailKeys \cup {PublishKey}
  /\ PublishKey \notin Keys /\ None \notin Keys
  /\ TableKeys \cap HistoryKeys = {} /\ TableKeys \cap DetailKeys = {}
  /\ HistoryKeys \cap DetailKeys = {}
BY AppAssumption DEF HealthKey, PublishKey, TableKeys, HistoryKeys, DetailKeys, Keys

(* The handler of each kind of request (dispatch.ts).                      *)
LEMMA RoutesAre ==
  /\ DOMAIN ROUTES = 1..8
  /\ ROUTES[1] = Endpoint("GET", <<"resorts">>, {}, "listResorts")
  /\ ROUTES[2] = Endpoint("GET", <<"resorts", Param>>, Slugs, "resortDetail")
  /\ ROUTES[3] = Endpoint("PUT", <<"resorts", Param>>, Slugs, "resortUpsert")
  /\ ROUTES[4] = Endpoint("GET", <<"analyst-notes", Param>>, Slugs, "analystNotesGet")
  /\ ROUTES[5] = Endpoint("PUT", <<"analyst-notes", Param>>, Slugs, "analystNotesPut")
  /\ ROUTES[6] = Endpoint("POST", <<"resorts", Param, "publish">>, Slugs \cup {"__all__"},
                          "publish")
  /\ ROUTES[7] = Endpoint("GET", <<"publishes">>, {}, "listPublishes")
  /\ ROUTES[8] = Endpoint("GET", <<"health">>, {}, "health")
BY DEF ROUTES

LEMMA OneMatch ==
  ASSUME NEW method, NEW path, NEW n \in DOMAIN ROUTES,
         \A i \in DOMAIN ROUTES : Matches(ROUTES[i], method, path) <=> i = n
  PROVE  MatchRoute(method, path) = ROUTES[n]
<1> DEFINE matching == {i \in DOMAIN ROUTES : Matches(ROUTES[i], method, path)}
<1>1. matching = {n}
  OBVIOUS
<1>2. n <= n
  BY RoutesAre
<1>3. (CHOOSE i \in matching : \A j \in matching : i <= j) = n
  BY <1>1, <1>2
<1>. QED  BY <1>1, <1>3 DEF MatchRoute

LEMMA HandlerTable ==
  ASSUME NEW key \in TableKeys
  PROVE  HandlerOf(key) = "listResorts"
<1> DEFINE path == <<"resorts">>
<1>1. PathOf(key) = <<"GET", path>>
  BY KeyKinds DEF PathOf, Keys
<1>2. \A i \in DOMAIN ROUTES : Matches(ROUTES[i], "GET", path) <=> i = 1
  BY RoutesAre, ApiAssumption DEF Matches, Endpoint
<1>3. MatchRoute("GET", path) = ROUTES[1]
  BY <1>2, OneMatch, RoutesAre
<1>4. ParamsAccepted(ROUTES[1], path)
  BY RoutesAre, ApiAssumption DEF ParamsAccepted, Endpoint
<1>5. ROUTES[1].handler = "listResorts" /\ ROUTES[1] # None
  BY RoutesAre, ApiAssumption DEF Endpoint
<1>. QED  BY <1>1, <1>3, <1>4, <1>5 DEF HandlerOf, Dispatched
LEMMA HandlerHistory ==
  ASSUME NEW key \in HistoryKeys
  PROVE  HandlerOf(key) = "listPublishes"
<1> DEFINE path == <<"publishes">>
<1>1. PathOf(key) = <<"GET", path>>
  BY KeyKinds DEF PathOf, Keys
<1>2. \A i \in DOMAIN ROUTES : Matches(ROUTES[i], "GET", path) <=> i = 7
  BY RoutesAre, ApiAssumption DEF Matches, Endpoint
<1>3. MatchRoute("GET", path) = ROUTES[7]
  BY <1>2, OneMatch, RoutesAre
<1>4. ParamsAccepted(ROUTES[7], path)
  BY RoutesAre, ApiAssumption DEF ParamsAccepted, Endpoint
<1>5. ROUTES[7].handler = "listPublishes" /\ ROUTES[7] # None
  BY RoutesAre, ApiAssumption DEF Endpoint
<1>. QED  BY <1>1, <1>3, <1>4, <1>5 DEF HandlerOf, Dispatched

LEMMA HandlerDetail ==
  ASSUME NEW key \in DetailKeys
  PROVE  HandlerOf(key) = "resortDetail"
<1> DEFINE path == <<"resorts", key[2]>>
<1>1. PathOf(key) = <<"GET", path>>
  BY KeyKinds DEF PathOf, Keys, DetailKeys
<1>2. \A i \in DOMAIN ROUTES : Matches(ROUTES[i], "GET", path) <=> i = 2
  BY RoutesAre, ApiAssumption DEF Matches, Endpoint, DetailKeys
<1>3. MatchRoute("GET", path) = ROUTES[2]
  BY <1>2, OneMatch, RoutesAre
<1>4. ParamsAccepted(ROUTES[2], path)
  BY RoutesAre, ApiAssumption DEF ParamsAccepted, Endpoint, DetailKeys
<1>5. ROUTES[2].handler = "resortDetail" /\ ROUTES[2] # None
  BY RoutesAre, ApiAssumption DEF Endpoint
<1>. QED  BY <1>1, <1>3, <1>4, <1>5 DEF HandlerOf, Dispatched

LEMMA HandlerHealth ==
  HandlerOf(HealthKey) = "health"
<1> DEFINE path == <<"health">>
<1>1. PathOf(HealthKey) = <<"GET", path>>
  BY KeyKinds DEF PathOf, Keys
<1>2. \A i \in DOMAIN ROUTES : Matches(ROUTES[i], "GET", path) <=> i = 8
  BY RoutesAre, ApiAssumption DEF Matches, Endpoint
<1>3. MatchRoute("GET", path) = ROUTES[8]
  BY <1>2, OneMatch, RoutesAre
<1>4. ParamsAccepted(ROUTES[8], path)
  BY RoutesAre, ApiAssumption DEF ParamsAccepted, Endpoint
<1>5. ROUTES[8].handler = "health" /\ ROUTES[8] # None
  BY RoutesAre, ApiAssumption DEF Endpoint
<1>. QED  BY <1>1, <1>3, <1>4, <1>5 DEF HandlerOf, Dispatched

LEMMA HandlerPublish ==
  HandlerOf(PublishKey) = "publish"
<1> DEFINE path == <<"resorts", "__all__", "publish">>
<1>1. PathOf(PublishKey) = <<"POST", path>>
  BY KeyKinds DEF PathOf, Keys
<1>2. \A i \in DOMAIN ROUTES : Matches(ROUTES[i], "POST", path) <=> i = 6
  BY RoutesAre, ApiAssumption DEF Matches, Endpoint
<1>3. MatchRoute("POST", path) = ROUTES[6]
  BY <1>2, OneMatch, RoutesAre
<1>4. ParamsAccepted(ROUTES[6], path)
  BY RoutesAre, ApiAssumption DEF ParamsAccepted, Endpoint
<1>5. ROUTES[6].handler = "publish" /\ ROUTES[6] # None
  BY RoutesAre, ApiAssumption DEF Endpoint
<1>. QED  BY <1>1, <1>3, <1>4, <1>5 DEF HandlerOf, Dispatched

(* What the server answers is what the view expects, and no refusal is one *)
(* the client has no code for.                                             *)
LEMMA AnswersFit ==
  ASSUME TypeOK, NEW key \in Keys \cup {PublishKey}
  PROVE  /\ AnswerOf(key, AnswerTo(key))
         /\ key \in HistoryKeys => AnswerTo(key).total = versions
         /\ Publishes(key) <=> key = PublishKey /\ ~blocked
         /\ Publishes(key) => AnswerTo(key) = [version |-> versions + 1]
<1>1. ErrorEnvelope("publish-validation-failed") \in STATUS_FOR_CODE
  BY DEF ErrorEnvelope, STATUS_FOR_CODE
<1>2. CASE key = HealthKey
  <2>1. HandlerOf(key) = "health"
    BY <1>2, HandlerHealth
  <2>2. AnswerTo(key) = [blocked |-> blocked] /\ ~Publishes(key)
    BY <2>1 DEF AnswerTo, Publishes
  <2>. QED  BY <1>2, <2>2, KeyKinds DEF AnswerOf, TypeOK
<1>3. CASE key = PublishKey /\ ~blocked
  <2>1. HandlerOf(key) = "publish"
    BY <1>3, HandlerPublish
  <2>2. Publishes(key)
    BY <1>3, <2>1 DEF Publishes
  <2>3. AnswerTo(key) = [version |-> versions + 1]
    BY <1>3, <2>1, <2>2 DEF AnswerTo
  <2>. QED  BY <1>3, <2>2, <2>3, KeyKinds DEF AnswerOf, Keys, TypeOK
<1>4. CASE key = PublishKey /\ blocked
  <2>1. /\ AnswerTo(key) = [error |-> ErrorEnvelope("publish-validation-failed")]
        /\ ~Publishes(key)
    BY <1>4, HandlerPublish DEF AnswerTo, Publishes
  <2>2. IsError(AnswerTo(key))
    BY <2>1, <1>1 DEF IsError, Error
  <2>. QED  BY <1>4, <2>1, <2>2, KeyKinds DEF AnswerOf, Keys
<1>5. CASE key \in TableKeys
  <2>1. AnswerTo(key) = [from |-> "listResorts"] /\ ~Publishes(key)
    BY <1>5, HandlerTable DEF AnswerTo, Publishes
  <2>. QED  BY <1>5, <2>1, KeyKinds DEF AnswerOf, Keys
<1>6. CASE key \in HistoryKeys
  <2>1. AnswerTo(key) = [page |-> key[2], total |-> versions] /\ ~Publishes(key)
    BY <1>6, HandlerHistory DEF AnswerTo, Publishes, Listed
  <2>. QED  BY <1>6, <2>1, KeyKinds DEF AnswerOf, Keys, TypeOK
<1>7. CASE key \in DetailKeys
  <2>1. AnswerTo(key) = [from |-> "resortDetail"] /\ ~Publishes(key)
    BY <1>7, HandlerDetail DEF AnswerTo, Publishes
  <2>. QED  BY <1>7, <2>1, KeyKinds DEF AnswerOf, Keys
<1>. QED  BY <1>2, <1>3, <1>4, <1>5, <1>6, <1>7 DEF Keys

(* No answer reads as nothing, as loading or as a ticket.                  *)
LEMMA AnswersStandOut ==
  ASSUME NEW key \in Keys \cup {PublishKey}, NEW a, AnswerOf(key, a)
  PROVE  a \notin {None, Loading} /\ \A i : a # Ticket(i)
<1>1. /\ a \in Error(STATUS_FOR_CODE) \/ a \in [from : {"listResorts", "resortDetail"}]
            \/ a \in [blocked : BOOLEAN] \/ a \in [version : Nat]
            \/ a \in [page : 0..MAX_PAGE, total : Nat]
  <2>1. ASSUME key \in HistoryKeys, a \in [page : {key[2]}, total : Nat]
        PROVE  a \in [page : 0..MAX_PAGE, total : Nat]
    BY <2>1 DEF HistoryKeys
  <2>. QED  BY <2>1 DEF AnswerOf, IsError
<1>2. a \notin {None, Loading}
  BY <1>1, AppAssumption
<1>3. \A i : a # Ticket(i)
  BY <1>1 DEF Error, Ticket
<1>. QED  BY <1>2, <1>3-----------------------------------------------------------------------------
LEMMA Bounds == MaxCalls \in Nat /\ MaxCalls > 0
BY AppAssumption

LEMMA Interval == IsFiniteSet(1..MaxCalls) /\ Cardinality(1..MaxCalls) = MaxCalls
<1>1. 1 \in Int /\ MaxCalls \in Int /\ ~(1 > MaxCalls)
  BY Bounds
<1>2. MaxCalls - 1 + 1 = MaxCalls
  BY Bounds
<1>. QED  BY <1>1, <1>2, FS_Interval

(* Requests with ids of their own are no more than MaxCalls, and with room *)
(* for one more there is an id left.                                       *)
LEMMA Finite ==
  ASSUME NEW rs, Requests(rs)
  PROVE  IsFiniteSet(rs) /\ Cardinality(rs) \in Nat /\ Cardinality(rs) <= MaxCalls
<1> DEFINE f == [r \in rs |-> r.id]
<1>1. f \in Injection(rs, 1..MaxCalls)
  BY DEF Requests, CallOK, Injection, IsInjective
<1>. QED  BY <1>1, Interval, FS_Injection, FS_CardinalityType

LEMMA NewIdFree ==
  ASSUME NEW rs, Requests(rs), Cardinality(rs) < MaxCalls
  PROVE  NewId(rs) \in 1..MaxCalls /\ \A r \in rs : r.id # NewId(rs)
<1> DEFINE f == [r \in rs |-> r.id]
<1>1. \E i \in 1..MaxCalls : \A r \in rs : r.id # i
  <2> SUFFICES ASSUME \A i \in 1..MaxCalls : \E r \in rs : r.id = i
               PROVE  FALSE
    OBVIOUS
  <2>1. f \in Surjection(rs, 1..MaxCalls)
    BY DEF Requests, CallOK, Surjection
  <2>2. IsFiniteSet(rs) /\ Cardinality(rs) \in Nat
    BY Finite
  <2>3. Cardinality(1..MaxCalls) <= Cardinality(rs)
    BY <2>1, <2>2, FS_Surjection
  <2>. QED  BY <2>2, <2>3, Interval, Bounds
<1>. QED  BY <1>1 DEF NewId

LEMMA RoomAfterRemoval ==
  ASSUME NEW rs, Requests(rs), NEW r \in rs
  PROVE  Cardinality(rs \ {r}) < MaxCalls
<1>1. Cardinality(rs \ {r}) = Cardinality(rs) - 1
  BY Finite, FS_RemoveElement
<1>. QED  BY <1>1, Finite, Bounds

LEMMA CancelledSmaller ==
  ASSUME NEW rs, Requests(rs), NEW gone
  PROVE  Cardinality(Cancelled(rs, gone)) <= Cardinality(rs)
<1> DEFINE f == [r \in rs |-> [r EXCEPT !.waiters = {w \in @ : w.consumer \notin gone}]]
<1>1. f \in Surjection(rs, Cancelled(rs, gone))
  BY DEF Cancelled, Surjection
<1>. QED  BY <1>1, Finite, FS_Surjection

(* What Cancelled makes of a request.                                      *)
LEMMA CancelledIs ==
  ASSUME NEW rs, Requests(rs), NEW gone
  PROVE  /\ \A q \in Cancelled(rs, gone) : \E r \in rs :
              /\ q.id = r.id /\ q.key = r.key /\ q.answer = r.answer
              /\ q.waiters = {w \in r.waiters : w.consumer \notin gone}
              /\ CallOK(q)
         /\ \A r \in rs : \E q \in Cancelled(rs, gone) :
              /\ q.id = r.id /\ q.key = r.key /\ q.answer = r.answer
              /\ q.waiters = {w \in r.waiters : w.consumer \notin gone}
              /\ CallOK(q)
         /\ Requests(Cancelled(rs, gone))
<1> DEFINE cut(r) == [r EXCEPT !.waiters = {w \in @ : w.consumer \notin gone}]
<1>1. \A r \in rs : /\ cut(r).id = r.id /\ cut(r).key = r.key
                    /\ cut(r).answer = r.answer
                    /\ cut(r).waiters = {w \in r.waiters : w.consumer \notin gone}
                    /\ CallOK(cut(r))
  <2> SUFFICES ASSUME NEW r \in rs
               PROVE  /\ cut(r).id = r.id /\ cut(r).key = r.key
                      /\ cut(r).answer = r.answer
                      /\ cut(r).waiters = {w \in r.waiters : w.consumer \notin gone}
                      /\ CallOK(cut(r))
    OBVIOUS
  <2>1. r = [id |-> r.id, key |-> r.key, answer |-> r.answer, waiters |-> r.waiters]
    BY DEF Requests, CallOK
  <2> DEFINE c == [id |-> r.id, key |-> r.key, answer |-> r.answer,
                   waiters |-> {w \in r.waiters : w.consumer \notin gone}]
  <2>2. cut(r) = c
    BY <2>1
  <2>3. CallOK(c)
    BY DEF Requests, CallOK
  <2>. QED  BY <2>2, <2>3
<1>2. Cancelled(rs, gone) = {cut(r) : r \in rs}
  BY DEF Cancelled
<1> HIDE DEF cut
<1>3. Requests(Cancelled(rs, gone))
  BY <1>1, <1>2 DEF Requests
<1>. QED  BY <1>1, <1>2, <1>3
-----------------------------------------------------------------------------
(* The cleanup of consumers that go.                                       *)
LEMMA CancelledSane ==
  ASSUME NEW rs, NEW ch, NEW gen, NEW vw, NEW conf, Sane(rs, ch, gen, vw, conf),
         NEW gone \in SUBSET Consumers, NEW vx,
         vx = [c \in Consumers |-> IF c \in gone THEN Unmounted ELSE vw[c]]
  PROVE  /\ Sane(Cancelled(rs, gone), ch, gen, vx, conf)
         /\ \A c \in gone : Told(c, Cancelled(rs, gone), gen, vx, conf)
         /\ \A c \in Consumers \ gone :
              Told(c, rs, gen, vw, conf) => Told(c, Cancelled(rs, gone), gen, vx, conf)
<1> DEFINE rx == Cancelled(rs, gone)
<1>1. Requests(rs) /\ Requests(rx)
  BY CancelledIs DEF Sane
<1>2. \A q \in rx : \E r \in rs :
        /\ q.id = r.id /\ q.key = r.key /\ q.answer = r.answer
        /\ q.waiters = {w \in r.waiters : w.consumer \notin gone}
  BY <1>1, CancelledIs
<1>3. \A r \in rs : \E q \in rx :
        /\ q.id = r.id /\ q.key = r.key /\ q.answer = r.answer
        /\ q.waiters = {w \in r.waiters : w.consumer \notin gone}
  BY <1>1, CancelledIs
<1> HIDE DEF rx
<1>4. Tickets(rx, ch)
  BY <1>3 DEF Sane, Tickets
<1>5. Views(vx)
  BY DEF Sane, Views
<1>6. Waiters(rx, gen, vx)
  <2> SUFFICES ASSUME NEW q \in rx, NEW w \in q.waiters
               PROVE  vx[w.consumer].key = q.key /\ w.generation <= GenerationOf(gen, q.key)
    BY DEF Waiters
  <2>1. PICK r \in rs : /\ q.key = r.key
                        /\ q.waiters = {v \in r.waiters : v.consumer \notin gone}
    BY <1>2
  <2>2. w \in r.waiters /\ w.consumer \notin gone /\ w.consumer \in Consumers
    BY <1>1, <2>1 DEF Requests, CallOK
  <2>. QED  BY <2>1, <2>2 DEF Sane, Waiters
<1>7. Fresh(rx, ch, gen, conf)
  BY <1>2 DEF Sane, Fresh
<1>8. \A c \in gone : Told(c, rx, gen, vx, conf)
  BY AppAssumption DEF Told, Unmounted
<1>9. \A c \in Consumers \ gone :
        Told(c, rs, gen, vw, conf) => Told(c, rx, gen, vx, conf)
  <2> SUFFICES ASSUME NEW c \in Consumers \ gone, Told(c, rs, gen, vw, conf)
               PROVE  Told(c, rx, gen, vx, conf)
    OBVIOUS
  <2>1. vx[c] = vw[c]
    OBVIOUS
  <2>2. ASSUME vw[c].shows = Loading
        PROVE  \E q \in rx : /\ q.key = vw[c].key
                             /\ \E w \in q.waiters : /\ w.consumer = c
                                                     /\ w.generation = GenerationOf(gen, q.key)
    BY <2>2, <1>3 DEF Told
  <2>. QED  BY <2>1, <2>2 DEF Told
<1>. QED  BY <1>1, <1>4, <1>5, <1>6, <1>7, <1>8, <1>9 DEF Sane, rx

LEMMA CancelledPublishing ==
  ASSUME NEW rs, Requests(rs), NEW gone, NEW there, NEW n,
         Publishing(rs, there, n)
  PROVE  Publishing(Cancelled(rs, gone), there, n)
<1>1. \A q \in Cancelled(rs, gone) : \E r \in rs :
        q.id = r.id /\ q.key = r.key /\ q.answer = r.answer
  BY CancelledIs
<1>2. \A r \in rs : \E q \in Cancelled(rs, gone) : q.key = r.key
  BY CancelledIs
<1>3. Requests(Cancelled(rs, gone))
  BY CancelledIs
<1>. QED  BY <1>1, <1>2, <1>3 DEF Publishing, Requests

-----------------------------------------------------------------------------
LEMMA TicketsDiffer == \A i, k : Ticket(i) = Ticket(k) => i = k
<1> SUFFICES ASSUME NEW i, NEW k, Ticket(i) = Ticket(k)
             PROVE  i = k
  OBVIOUS
<1>1. [id |-> i].id = [id |-> k].id
  BY DEF Ticket
<1>. QED  BY <1>1

(* The parts of what Fetched returns.                                      *)
WaiterOf(gen, consumer, key) ==
    [consumer |-> consumer, generation |-> GenerationOf(gen, key)]

Joined(rs, ch, gen, consumer, key) ==
    {IF ch[key] = Ticket(r.id)
     THEN [r EXCEPT !.waiters = @ \cup {WaiterOf(gen, consumer, key)}] ELSE r : r \in rs}

Ticketed(rs, ch, key) == [ch EXCEPT ![key] = Ticket(NewId(rs))]

Showing(vw, consumer, key, what) ==
    [vw EXCEPT ![consumer] = [key |-> key, shows |-> what]]

(* Fetched, by cases: a request is sent ...                                *)
LEMMA FetchSends ==
  ASSUME NEW rs, NEW ch, NEW gen, NEW vw, NEW conf, Sane(rs, ch, gen, vw, conf),
         NEW consumer \in Consumers, NEW key \in Keys \cap KindOf(consumer),
         Cardinality(rs) < MaxCalls, vw[consumer].key \in {None, key},
         gen \in [HistoryKeys -> Nat],
         NEW rx, NEW cx, NEW vx,
         rx = Request(rs, key, {WaiterOf(gen, consumer, key)}),
         cx = Ticketed(rs, ch, key), vx = Showing(vw, consumer, key, Loading)
  PROVE  /\ Sane(rx, cx, gen, vx, conf)
         /\ Told(consumer, rx, gen, vx, conf)
         /\ \A c \in Consumers \ {consumer} :
              Told(c, rs, gen, vw, conf) => Told(c, rx, gen, vx, conf)
         /\ \A there, m : Publishing(rs, there, m) => Publishing(rx, there, m)
<1> DEFINE n == NewId(rs)
           w == WaiterOf(gen, consumer, key)
           new == [id |-> n, key |-> key, answer |-> None, waiters |-> {w}]
<1>1. n \in 1..MaxCalls /\ \A r \in rs : r.id # n
  BY NewIdFree DEF Sane
<1>2. rx = rs \cup {new}
  BY DEF Request
<1>3. w.consumer = consumer /\ w.generation = GenerationOf(gen, key)
      /\ w \in [consumer : Consumers, generation : Nat]
  BY DEF GenerationOf, WaiterOf
<1>4. /\ new.id = n /\ new.key = key /\ new.answer = None /\ new.waiters = {w}
      /\ CallOK(new)
  BY <1>1, <1>3 DEF CallOK
<1>5. DOMAIN ch = Keys /\ DOMAIN vw = Consumers
  BY DEF Sane, Tickets, Views
<1> HIDE DEF n, w, new
<1>6. Requests(rx)
  BY <1>1, <1>2, <1>4 DEF Sane, Requests
<1>7. /\ cx[key] = Ticket(n) /\ \A k \in Keys \ {key} : cx[k] = ch[k]
      /\ DOMAIN cx = Keys
  BY <1>5 DEF n, Ticketed
<1>8. Tickets(rx, cx)
  BY <1>2, <1>4, <1>7 DEF Sane, Tickets
<1>9. /\ vx[consumer] = [key |-> key, shows |-> Loading]
      /\ \A c \in Consumers \ {consumer} : vx[c] = vw[c]
      /\ DOMAIN vx = Consumers
  BY <1>5 DEF Showing
<1>10. Views(vx)
  BY <1>9 DEF Sane, Views
<1>11. Waiters(rx, gen, vx)
  <2>1. ASSUME NEW r \in rs, NEW v \in r.waiters
        PROVE  vx[v.consumer].key = r.key /\ v.generation <= GenerationOf(gen, r.key)
    <3>1. v.consumer \in Consumers /\ r.key \in Keys \cup {PublishKey}
      BY DEF Sane, Requests, CallOK
    <3>2. vw[v.consumer].key = r.key /\ v.generation <= GenerationOf(gen, r.key)
      BY DEF Sane, Waiters
    <3>3. r.key # None
      BY <3>1, AppAssumption
    <3>. QED  BY <3>1, <3>2, <3>3, <1>9
  <2>2. GenerationOf(gen, key) <= GenerationOf(gen, key)
    BY DEF GenerationOf
  <2>3. ASSUME NEW v \in new.waiters
        PROVE  vx[v.consumer].key = new.key /\ v.generation <= GenerationOf(gen, new.key)
    <3>1. v = w
      BY <1>4
    <3>2. vx[w.consumer].key = key
      BY <1>3, <1>9
    <3>. QED  BY <3>1, <3>2, <2>2, <1>3, <1>4
  <2>. QED  BY <2>1, <2>3, <1>2 DEF Waiters
<1>12. Fresh(rx, cx, gen, conf)
  <2>1. ASSUME NEW r \in rs PROVE cx[r.key] = Ticket(r.id) /\ r.key \in Keys => ch[r.key] = Ticket(r.id)
    BY <1>1, <1>7 DEF Ticket
  <2>. QED  BY <2>1, <1>2, <1>4 DEF Sane, Fresh, Keys
<1>13. Told(consumer, rx, gen, vx, conf)
  <2>1. new \in rx /\ w \in new.waiters
    BY <1>2, <1>4
  <2>2. vx[consumer].key = key /\ vx[consumer].shows = Loading
    BY <1>9
  <2>. QED  BY <2>1, <2>2, <1>3, <1>4 DEF Told
<1>14. \A c \in Consumers \ {consumer} :
         Told(c, rs, gen, vw, conf) => Told(c, rx, gen, vx, conf)
  BY <1>2, <1>9 DEF Told
<1>15. \A there, m : Publishing(rs, there, m) => Publishing(rx, there, m)
  BY <1>2, <1>4, KeyKinds DEF Publishing
<1>. QED  BY <1>6, <1>8, <1>10, <1>11, <1>12, <1>13, <1>14, <1>15 DEF Sane
(* ... or what the editor's cache holds is shown ...                       *)
LEMMA FetchShows ==
  ASSUME NEW rs, NEW ch, NEW gen, NEW vw, NEW conf, Sane(rs, ch, gen, vw, conf),
         NEW consumer \in Consumers, NEW key \in Keys \cap KindOf(consumer),
         vw[consumer].key \in {None, key},
         ch[key] # None, ~\E r \in rs : ch[key] = Ticket(r.id),
         NEW vx, vx = Showing(vw, consumer, key, ch[key])
  PROVE  /\ Sane(rs, ch, gen, vx, conf)
         /\ Told(consumer, rs, gen, vx, conf)
         /\ \A c \in Consumers \ {consumer} :
              Told(c, rs, gen, vw, conf) => Told(c, rs, gen, vx, conf)
<1>1. key \in DetailKeys /\ AnswerOf(key, ch[key])
  BY DEF Sane, Tickets
<1>2. DOMAIN vw = Consumers
  BY DEF Sane, Views
<1>3. /\ vx[consumer] = [key |-> key, shows |-> ch[key]]
      /\ \A c \in Consumers \ {consumer} : vx[c] = vw[c]
      /\ DOMAIN vx = Consumers
  BY <1>2 DEF Showing
<1>4. Views(vx)
  BY <1>1, <1>3 DEF Sane, Views
<1>5. Waiters(rs, gen, vx)
  <2> SUFFICES ASSUME NEW r \in rs, NEW v \in r.waiters
               PROVE  vx[v.consumer].key = r.key /\ v.generation <= GenerationOf(gen, r.key)
    BY DEF Waiters
  <2>1. v.consumer \in Consumers /\ r.key \in Keys \cup {PublishKey}
    BY DEF Sane, Requests, CallOK
  <2>2. vw[v.consumer].key = r.key /\ v.generation <= GenerationOf(gen, r.key)
    BY DEF Sane, Waiters
  <2>3. r.key # None
    BY <2>1, AppAssumption
  <2>. QED  BY <2>1, <2>2, <2>3, <1>3
<1>6. Told(consumer, rs, gen, vx, conf)
  <2>1. ch[key] # Loading
    BY <1>1, AnswersStandOut
  <2>. QED  BY <2>1, <1>1, <1>3, KeyKinds DEF Told, UpToDate
<1>7. \A c \in Consumers \ {consumer} :
        Told(c, rs, gen, vw, conf) => Told(c, rs, gen, vx, conf)
  BY <1>3 DEF Told
<1>. QED  BY <1>4, <1>5, <1>6, <1>7 DEF Sane

(* ... or the request under way is joined.                                 *)
LEMMA FetchJoins ==
  ASSUME NEW rs, NEW ch, NEW gen, NEW vw, NEW conf, Sane(rs, ch, gen, vw, conf),
         NEW consumer \in Consumers, NEW key \in Keys \cap KindOf(consumer),
         vw[consumer].key \in {None, key}, gen \in [HistoryKeys -> Nat],
         NEW j \in rs, ch[key] = Ticket(j.id), ch[key] # None,
         NEW rx, NEW vx,
         rx = Joined(rs, ch, gen, consumer, key), vx = Showing(vw, consumer, key, Loading)
  PROVE  /\ Sane(rx, ch, gen, vx, conf)
         /\ Told(consumer, rx, gen, vx, conf)
         /\ \A c \in Consumers \ {consumer} :
              Told(c, rs, gen, vw, conf) => Told(c, rx, gen, vx, conf)
         /\ \A there, n : Publishing(rs, there, n) => Publishing(rx, there, n)
<1> DEFINE w == WaiterOf(gen, consumer, key)
           new == [id |-> j.id, key |-> j.key, answer |-> j.answer,
                   waiters |-> j.waiters \cup {w}]
<1>1. CallOK(j) /\ \A r \in rs : r.id = j.id => r = j
  BY DEF Sane, Requests
<1>2. \A r \in rs : ch[key] = Ticket(r.id) => r = j
  BY <1>1, TicketsDiffer
<1>3. rx = (rs \ {j}) \cup {new}
  <2>1. j = [id |-> j.id, key |-> j.key, answer |-> j.answer, waiters |-> j.waiters]
    BY <1>1 DEF CallOK
  <2>2. [j EXCEPT !.waiters = @ \cup {w}] = new
    BY <2>1
  <2> HIDE DEF new
  <2>3. rx = {IF r = j THEN new ELSE r : r \in rs}
    BY <2>2, <1>2 DEF Joined
  <2>. QED  BY <2>3
<1>4. j.key = key
  <2>1. ~AnswerOf(key, ch[key])
    BY AnswersStandOut
  <2>2. \E r \in rs : r.key = key /\ ch[key] = Ticket(r.id)
    BY <2>1 DEF Sane, Tickets
  <2>. QED  BY <2>2, <1>2
<1>5. w.consumer = consumer /\ w.generation = GenerationOf(gen, key)
      /\ w \in [consumer : Consumers, generation : Nat]
  BY DEF GenerationOf, WaiterOf
<1>6. /\ new.id = j.id /\ new.key = key /\ new.answer = j.answer
      /\ new.waiters = j.waiters \cup {w}
      /\ CallOK(new)
  BY <1>1, <1>4, <1>5 DEF CallOK
<1>7. DOMAIN vw = Consumers
  BY DEF Sane, Views
<1> HIDE DEF w, new
<1>8. Requests(rx)
  BY <1>1, <1>3, <1>6 DEF Sane, Requests
<1>9. Tickets(rx, ch)
  BY <1>3, <1>4, <1>6 DEF Sane, Tickets
<1>10. /\ vx[consumer] = [key |-> key, shows |-> Loading]
       /\ \A c \in Consumers \ {consumer} : vx[c] = vw[c]
       /\ DOMAIN vx = Consumers
  BY <1>7 DEF Showing
<1>11. Views(vx)
  BY <1>10 DEF Sane, Views
<1>12. Waiters(rx, gen, vx)
  <2>1. ASSUME NEW r \in rs, NEW v \in r.waiters
        PROVE  vx[v.consumer].key = r.key /\ v.generation <= GenerationOf(gen, r.key)
    <3>1. v.consumer \in Consumers /\ r.key \in Keys \cup {PublishKey}
      BY DEF Sane, Requests, CallOK
    <3>2. vw[v.consumer].key = r.key /\ v.generation <= GenerationOf(gen, r.key)
      BY DEF Sane, Waiters
    <3>3. r.key # None
      BY <3>1, AppAssumption
    <3>. QED  BY <3>1, <3>2, <3>3, <1>10
  <2>2. GenerationOf(gen, key) <= GenerationOf(gen, key)
    BY DEF GenerationOf
  <2>3. vx[w.consumer].key = key /\ w.generation <= GenerationOf(gen, key)
    BY <2>2, <1>5, <1>10
  <2>4. \A v \in new.waiters : v = w \/ v \in j.waiters
    BY <1>6
  <2>5. ASSUME NEW v \in new.waiters
        PROVE  vx[v.consumer].key = new.key /\ v.generation <= GenerationOf(gen, new.key)
    BY <2>1, <2>3, <2>4, <1>4, <1>6
  <2>. QED  BY <2>1, <2>5, <1>3 DEF Waiters
<1>13. Fresh(rx, ch, gen, conf)
  <2>1. j.answer = None \/ UpToDate(key, j.answer, conf)
    BY <1>4 DEF Sane, Fresh
  <2>. QED  BY <2>1, <1>3, <1>6 DEF Sane, Fresh
<1>14. Told(consumer, rx, gen, vx, conf)
  BY <1>3, <1>5, <1>6, <1>10 DEF Told
<1>15. ASSUME NEW c \in Consumers \ {consumer}, Told(c, rs, gen, vw, conf)
       PROVE  Told(c, rx, gen, vx, conf)
  <2>1. ASSUME NEW r \in rs, NEW v \in r.waiters
        PROVE  \E q \in rx : q.key = r.key /\ v \in q.waiters
    BY <1>3, <1>4, <1>6
  <2>2. ASSUME vw[c].shows = Loading
        PROVE  \E q \in rx : /\ q.key = vw[c].key
                             /\ \E v \in q.waiters : /\ v.consumer = c
                                                     /\ v.generation = GenerationOf(gen, q.key)
    <3>1. PICK r \in rs : /\ r.key = vw[c].key
                          /\ \E v \in r.waiters : /\ v.consumer = c
                                                  /\ v.generation = GenerationOf(gen, r.key)
      BY <2>2, <1>15 DEF Told
    <3>2. PICK v \in r.waiters : v.consumer = c /\ v.generation = GenerationOf(gen, r.key)
      BY <3>1
    <3>3. PICK q \in rx : q.key = r.key /\ v \in q.waiters
      BY <2>1
    <3>. QED  BY <3>1, <3>2, <3>3
  <2>. QED  BY <2>2, <1>10, <1>15 DEF Told
<1>16. \A there, n : Publishing(rs, there, n) => Publishing(rx, there, n)
  BY <1>3, <1>4, <1>6 DEF Publishing
<1>. QED  BY <1>8, <1>9, <1>11, <1>12, <1>13, <1>14, <1>15, <1>16 DEF Sane

LEMMA FetchedSane ==
  ASSUME NEW rs, NEW ch, NEW gen, NEW vw, NEW conf, Sane(rs, ch, gen, vw, conf),
         NEW consumer \in Consumers, NEW key \in Keys \cap KindOf(consumer),
         Cardinality(rs) < MaxCalls, vw[consumer].key \in {None, key},
         gen \in [HistoryKeys -> Nat],
         NEW f, f = Fetched(rs, ch, gen, vw, consumer, key)
  PROVE  /\ Sane(f.calls, f.cache, gen, f.view, conf)
         /\ f.view[consumer].key = key
         /\ \A c \in Consumers \ {consumer} : f.view[c] = vw[c]
         /\ Told(consumer, f.calls, gen, f.view, conf)
         /\ \A c \in Consumers \ {consumer} :
              Told(c, rs, gen, vw, conf) => Told(c, f.calls, gen, f.view, conf)
         /\ \A there, n : Publishing(rs, there, n) => Publishing(f.calls, there, n)
<1>1. DOMAIN vw = Consumers
  BY DEF Sane, Views
<1>2. CASE ch[key] = None
  <2>1. /\ f.calls = Request(rs, key, {WaiterOf(gen, consumer, key)})
        /\ f.cache = Ticketed(rs, ch, key)
        /\ f.view = Showing(vw, consumer, key, Loading)
    BY <1>2 DEF Fetched, WaiterOf, Ticketed, Showing
  <2>2. /\ f.view[consumer].key = key
        /\ \A c \in Consumers \ {consumer} : f.view[c] = vw[c]
    BY <1>1, <2>1 DEF Showing
  <2>. QED  BY <2>1, <2>2, FetchSends
<1>3. CASE ch[key] # None /\ ~\E r \in rs : ch[key] = Ticket(r.id)
  <2>1. /\ f.calls = rs /\ f.cache = ch
        /\ f.view = Showing(vw, consumer, key, ch[key])
    BY <1>3 DEF Fetched, Showing
  <2>2. /\ f.view[consumer].key = key
        /\ \A c \in Consumers \ {consumer} : f.view[c] = vw[c]
    BY <1>1, <2>1 DEF Showing
  <2>. QED  BY <2>1, <2>2, <1>3, FetchShows
<1>4. ASSUME ch[key] # None, NEW j \in rs, ch[key] = Ticket(j.id)
      PROVE  /\ Sane(f.calls, f.cache, gen, f.view, conf)
             /\ f.view[consumer].key = key
             /\ \A c \in Consumers \ {consumer} : f.view[c] = vw[c]
             /\ Told(consumer, f.calls, gen, f.view, conf)
             /\ \A c \in Consumers \ {consumer} :
                  Told(c, rs, gen, vw, conf) => Told(c, f.calls, gen, f.view, conf)
             /\ \A there, n : Publishing(rs, there, n) => Publishing(f.calls, there, n)
  <2>1. /\ f.calls = Joined(rs, ch, gen, consumer, key)
        /\ f.cache = ch
        /\ f.view = Showing(vw, consumer, key, Loading)
    BY <1>4 DEF Fetched, WaiterOf, Joined, Showing
  <2>2. /\ f.view[consumer].key = key
        /\ \A c \in Consumers \ {consumer} : f.view[c] = vw[c]
    BY <1>1, <2>1 DEF Showing
  <2>. QED  BY <2>1, <2>2, <1>4, FetchJoins
<1>. QED  BY <1>2, <1>3, <1>4
-----------------------------------------------------------------------------
(* A request is answered.                                                  *)
Answered(rs, r, a) == (rs \ {r}) \cup {[r EXCEPT !.answer = a]}

LEMMA AnsweredSane ==
  ASSUME NEW rs, NEW ch, NEW gen, NEW vw, NEW conf, Sane(rs, ch, gen, vw, conf),
         NEW r \in rs, NEW a, AnswerOf(r.key, a), UpToDate(r.key, a, conf),
         NEW rx, rx = Answered(rs, r, a)
  PROVE  /\ Sane(rx, ch, gen, vw, conf)
         /\ \A c \in Consumers :
              Told(c, rs, gen, vw, conf) => Told(c, rx, gen, vw, conf)
         /\ \A there, n :
              /\ Publishing(rs, there, n)
              /\ r.key = PublishKey /\ ~IsError(a) => a.version <= n
              => Publishing(rx, there, n)
<1> DEFINE new == [id |-> r.id, key |-> r.key, answer |-> a, waiters |-> r.waiters]
<1>1. CallOK(r) /\ \A q \in rs : q.id = r.id => q = r
  BY DEF Sane, Requests
<1>2. rx = (rs \ {r}) \cup {new}
  <2>1. r = [id |-> r.id, key |-> r.key, answer |-> r.answer, waiters |-> r.waiters]
    BY <1>1 DEF CallOK
  <2>2. [r EXCEPT !.answer = a] = new
    BY <2>1
  <2>. QED  BY <2>2 DEF Answered
<1>3. /\ new.id = r.id /\ new.key = r.key /\ new.answer = a /\ new.waiters = r.waiters
      /\ CallOK(new)
  BY <1>1 DEF CallOK
<1> HIDE DEF new
<1>4. Requests(rx)
  BY <1>1, <1>2, <1>3 DEF Sane, Requests
<1>5. Tickets(rx, ch)
  BY <1>2, <1>3 DEF Sane, Tickets
<1>6. Waiters(rx, gen, vw)
  BY <1>2, <1>3 DEF Sane, Waiters
<1>7. Fresh(rx, ch, gen, conf)
  BY <1>2, <1>3 DEF Sane, Fresh
<1>8. ASSUME NEW c \in Consumers, Told(c, rs, gen, vw, conf)
      PROVE  Told(c, rx, gen, vw, conf)
  <2>1. \A q \in rs : \E p \in rx : p.key = q.key /\ p.waiters = q.waiters
    BY <1>2, <1>3
  <2>. QED  BY <2>1, <1>8 DEF Told
<1>9. ASSUME NEW there, NEW n, Publishing(rs, there, n),
             r.key = PublishKey /\ ~IsError(a) => a.version <= n
      PROVE  Publishing(rx, there, n)
  BY <1>2, <1>3, <1>9 DEF Publishing
<1>. QED  BY <1>4, <1>5, <1>6, <1>7, <1>8, <1>9 DEF Sane

-----------------------------------------------------------------------------
(* The address changes.                                                    *)
LEMMA NavigateFetches ==
  ASSUME IInv, NEW q, NEW ch, Sane(calls, ch, generation, view, confirmed),
         Navigate(q, ch), UNCHANGED <<generation, open, status, confirmed, versions>>
  PROVE  /\ Fetches' /\ Mounted'
         /\ Publishing(calls, open /\ status = "submitting", versions)'
<1> DEFINE wanted == Mounts(ParseURL(q))
           kept == {c \in Consumers : <<c, view[c].key>> \in wanted}
           gone == Consumers \ (kept \cup {"dialog"})
           rs == Cancelled(calls, gone)
           vw == [c \in Consumers |-> IF c \in gone THEN Unmounted ELSE view[c]]
           there == open /\ status = "submitting"
<1>1. /\ address' = q /\ Cardinality(calls) < MaxCalls
      /\ IF wanted = {} \/ kept # {}
         THEN calls' = rs /\ cache' = ch /\ view' = vw
         ELSE \E m \in wanted : Becomes(Fetched(rs, ch, generation, vw, m[1], m[2]))
  BY DEF Navigate, Room, Becomes
<1>2. \/ wanted = {}
      \/ \E c \in Consumers \ {"dialog"} : \E k \in Keys \cap KindOf(c) : wanted = {<<c, k>>}
  BY ParsesToRoute, MountsOne
<1>3. /\ Route' = ParseURL(q)
      /\ Mounts(Route)' = wanted
  BY <1>1 DEF Route
<1>4. /\ \A c \in Consumers : Told(c, calls, generation, view, confirmed)
      /\ Publishing(calls, there, versions)
      /\ generation \in [HistoryKeys -> Nat]
      /\ Requests(calls) /\ DOMAIN view = Consumers
      /\ view["dialog"].key = IF open THEN HealthKey ELSE None
  BY DEF IInv, Fetches, Typed, Sane, Views, Mounted
<1>5. gone \in SUBSET Consumers
  OBVIOUS
<1>6. /\ Sane(rs, ch, generation, vw, confirmed)
      /\ \A c \in Consumers : Told(c, rs, generation, vw, confirmed)
  BY <1>4, <1>5, CancelledSane
<1>7. Publishing(rs, there, versions)
  BY <1>4, CancelledPublishing
<1>8. Cardinality(rs) < MaxCalls
  <2>1. Cardinality(rs) <= Cardinality(calls)
    BY <1>4, CancelledSmaller
  <2>2. Requests(rs)
    BY <1>6 DEF Sane
  <2>. QED  BY <1>1, <1>4, <2>1, <2>2, Finite, Bounds
<1>9. /\ "dialog" \notin gone /\ vw["dialog"] = view["dialog"]
      /\ \A c \in gone : vw[c].key = None
      /\ \A c \in kept \ {"dialog"} : vw[c] = view[c]
  BY DEF Unmounted, Consumers
<1> HIDE DEF rs, vw
<1>10. CASE wanted = {} \/ kept # {}
  <2>1. calls' = rs /\ cache' = ch /\ view' = vw
    BY <1>1, <1>10
  <2>2. Fetches'
    BY <2>1, <1>6 DEF Fetches
  <2>3. ASSUME NEW c \in Consumers \ {"dialog"}
        PROVE  view'[c].key # None <=> <<c, view'[c].key>> \in wanted
    <3>1. None \notin Keys
      BY AppAssumption
    <3>2. CASE c \in kept
      BY <2>1, <3>1, <3>2, <1>2, <1>9
    <3>3. CASE c \notin kept
      <4>1. c \in gone
        BY <3>3
      <4>2. view'[c].key = None
        BY <4>1, <2>1, <1>9
      <4>. QED  BY <4>2, <3>1, <1>2
    <3>. QED  BY <3>2, <3>3
  <2>4. Mounted'
    BY <2>1, <2>3, <1>3, <1>4, <1>9 DEF Mounted
  <2>. QED  BY <2>1, <2>2, <2>4, <1>7
<1>11. CASE wanted # {} /\ kept = {}
  <2>0. PICK c \in Consumers \ {"dialog"} :
          \E k \in Keys \cap KindOf(c) : wanted = {<<c, k>>}
    BY <1>2, <1>11
  <2>1. PICK k \in Keys \cap KindOf(c) : wanted = {<<c, k>>}
    BY <2>0
  <2> DEFINE f == Fetched(rs, ch, generation, vw, c, k)
  <2>2. Becomes(f)
    <3>1. PICK m \in wanted : Becomes(Fetched(rs, ch, generation, vw, m[1], m[2]))
      BY <1>1, <1>11
    <3>2. m[1] = c /\ m[2] = k
      BY <2>1
    <3>. QED  BY <3>1, <3>2
  <2>3. c \in gone
    BY <1>11
  <2>4. vw[c].key = None
    BY <2>3, <1>9
  <2> HIDE DEF f, wanted, kept, gone
  <2>5. /\ Sane(f.calls, f.cache, generation, f.view, confirmed)
        /\ f.view[c].key = k
        /\ \A d \in Consumers \ {c} : f.view[d] = vw[d]
        /\ Told(c, f.calls, generation, f.view, confirmed)
        /\ \A d \in Consumers \ {c} : Told(d, f.calls, generation, f.view, confirmed)
        /\ Publishing(f.calls, there, versions)
    BY <2>4, <1>4, <1>6, <1>7, <1>8, FetchedSane DEF f
  <2>6. calls' = f.calls /\ cache' = f.cache /\ view' = f.view
    BY <2>2 DEF Becomes
  <2>7. Fetches'
    BY <2>5, <2>6 DEF Fetches
  <2>8. ASSUME NEW d \in Consumers \ {"dialog"}
        PROVE  view'[d].key # None <=> <<d, view'[d].key>> \in wanted
    <3>1. None \notin Keys
      BY AppAssumption
    <3>2. CASE d = c
      BY <3>1, <3>2, <2>1, <2>5, <2>6
    <3>3. CASE d # c
      <4>1. d \in gone
        BY <1>11 DEF gone
      <4>2. view'[d].key = None
        BY <4>1, <3>3, <2>5, <2>6, <1>9
      <4>. QED  BY <4>2, <3>1, <2>1
    <3>. QED  BY <3>2, <3>3
  <2>9. Mounted'
    <3>1. view'["dialog"] = view["dialog"]
      BY <2>1, <2>5, <2>6, <1>9 DEF Consumers
    <3>. QED  BY <3>1, <2>8, <1>3, <1>4 DEF Mounted
  <2>. QED  BY <2>5, <2>6, <2>7, <2>9
<1>. QED  BY <1>10, <1>11
LEMMA TimedKept == ASSUME Timed, UNCHANGED toast PROVE Timed'
BY DEF Timed

LEMMA ActTyped == ASSUME Typed, Act PROVE acts' \in 0..MaxActs
BY AppAssumption DEF Typed, Act

LEMMA SetRouteIInv ==
  ASSUME IInv, NEW route \in Routes, NEW ch, SetRoute(route, ch),
         Sane(calls, ch, generation, view, confirmed)
  PROVE  IInv'
<1>1. /\ Navigate(SerializeURL(route), ch) /\ trail' = Append(trail, address) /\ Act
      /\ UNCHANGED <<generation, open, status, toast, versions, blocked, confirmed>>
  BY DEF SetRoute, server
<1>2. /\ Fetches' /\ Mounted'
      /\ Publishing(calls, open /\ status = "submitting", versions)'
  BY <1>1, NavigateFetches
<1>3. address' \in Addresses /\ trail' \in Seq(Addresses)
  <2>1. address' = SerializeURL(route)
    BY <1>1 DEF Navigate
  <2>2. address \in Addresses /\ trail \in Seq(Addresses)
    BY DEF IInv, Typed
  <2>. QED  BY <2>1, <2>2, <1>1 DEF Addresses
<1>4. Typed'
  BY <1>1, <1>3, ActTyped DEF IInv, Typed
<1>5. Timed'
  BY <1>1, TimedKept DEF IInv
<1>. QED  BY <1>2, <1>4, <1>5 DEF IInv

LEMMA CacheSane == IInv => Sane(calls, cache, generation, view, confirmed)
BY DEF IInv, Fetches

LEMMA BackIInv == ASSUME IInv, Back PROVE IInv'
<1>1. /\ Navigate(trail[Len(trail)], cache) /\ trail # << >>
      /\ trail' = SubSeq(trail, 1, Len(trail) - 1) /\ Act
      /\ UNCHANGED <<generation, open, status, toast, versions, blocked, confirmed>>
  BY DEF Back, server
<1>2. /\ Fetches' /\ Mounted'
      /\ Publishing(calls, open /\ status = "submitting", versions)'
  BY <1>1, NavigateFetches, CacheSane
<1>3. address' \in Addresses /\ trail' \in Seq(Addresses)
  <2>1. address' = trail[Len(trail)]
    BY <1>1 DEF Navigate
  <2>2. trail \in Seq(Addresses)
    BY DEF IInv, Typed
  <2>3. Len(trail) \in 1..Len(trail) /\ Len(trail) \in Nat
    BY <2>2, <1>1, EmptySeq
  <2>4. trail[Len(trail)] \in Addresses
    BY <2>2, <2>3, ElementOfSeq
  <2>5. SubSeq(trail, 1, Len(trail) - 1) \in Seq(Addresses)
    BY <2>2, <2>3, SubSeqProperties
  <2>. QED  BY <2>1, <2>4, <2>5, <1>1
<1>4. Typed'
  BY <1>1, <1>3, ActTyped DEF IInv, Typed
<1>5. Timed'
  BY <1>1, TimedKept DEF IInv
<1>. QED  BY <1>2, <1>4, <1>5 DEF IInv

LEMMA MovesIInv ==
  ASSUME IInv, GoResorts \/ FilterTable \/ OpenEditor \/ TurnPage
  PROVE  IInv'
<1>1. ASSUME GoResorts PROVE IInv'
  <2>1. At("resorts", None) \in Routes
    BY DEF Routes, At
  <2>. QED  BY <1>1, <2>1, SetRouteIInv, CacheSane DEF GoResorts
<1>2. ASSUME FilterTable PROVE IInv'
  <2>1. PICK g \in Filters \cup {None} : SetRoute(At("resorts", g), cache)
    BY <1>2 DEF FilterTable
  <2>2. At("resorts", g) \in Routes
    BY DEF Routes, At
  <2>. QED  BY <2>1, <2>2, SetRouteIInv, CacheSane
<1>3. ASSUME OpenEditor PROVE IInv'
  <2>1. PICK s \in Slugs : SetRoute(At("editor", s), cache)
    BY <1>3 DEF OpenEditor
  <2>2. At("editor", s) \in Routes
    BY DEF Routes, At
  <2>. QED  BY <2>1, <2>2, SetRouteIInv, CacheSane
<1>4. ASSUME TurnPage PROVE IInv'
  <2>1. PICK to \in 0..MAX_PAGE : SetRoute(At("publishes", to), cache)
    BY <1>4 DEF TurnPage
  <2>2. At("publishes", to) \in Routes
    BY DEF Routes, At
  <2>. QED  BY <2>1, <2>2, SetRouteIInv, CacheSane
<1>. QED  BY <1>1, <1>2, <1>3, <1>4

(* A rejection is dropped from the editor's cache.                         *)
LEMMA InvalidatedSane ==
  ASSUME IInv, NEW codes \in SUBSET STATUS_FOR_CODE, EditorFailed(codes)
  PROVE  /\ view["editor"].key \in DetailKeys
         /\ Sane(calls, Invalidated(view["editor"].key), generation, view, confirmed)
<1> DEFINE key == view["editor"].key
           ch == Invalidated(key)
<1>1. key \in DetailKeys
  <2>1. "editor" \in Consumers /\ KindOf("editor") = DetailKeys
    BY DEF Consumers, KindOf
  <2>2. None \notin Error(STATUS_FOR_CODE)
    BY AppAssumption
  <2>3. view["editor"].shows \in Error(STATUS_FOR_CODE)
    BY DEF EditorFailed, Error
  <2>4. view["editor"] # Unmounted
    BY <2>2, <2>3 DEF Unmounted
  <2>5. Views(view)
    BY CacheSane DEF Sane
  <2>. QED  BY <2>1, <2>4, <2>5 DEF Views
<1>2. Sane(calls, cache, generation, view, confirmed)
  BY CacheSane
<1>3. /\ DOMAIN ch = Keys /\ ch[key] = None
      /\ \A k \in Keys \ {key} : ch[k] = cache[k]
  BY <1>1, <1>2 DEF Invalidated, Sane, Tickets, Keys
<1> HIDE DEF ch, key
<1>4. Tickets(calls, ch)
  BY <1>2, <1>3 DEF Sane, Tickets
<1>5. Fresh(calls, ch, generation, confirmed)
  <2>1. \A r \in calls : r.key \in HistoryKeys => ch[r.key] = cache[r.key]
    BY <1>1, <1>3, KeyKinds DEF Keys
  <2>. QED  BY <1>2, <2>1 DEF Sane, Fresh
<1>. QED  BY <1>1, <1>2, <1>4, <1>5 DEF Sane, key, ch

LEMMA BackToResortsIInv == ASSUME IInv, BackToResorts PROVE IInv'
<1>1. At("resorts", None) \in Routes
  BY DEF Routes, At
<1>2. {"not-found", "workspace-corrupt"} \in SUBSET STATUS_FOR_CODE
  BY DEF STATUS_FOR_CODE
<1>3. /\ EditorFailed({"not-found", "workspace-corrupt"})
      /\ SetRoute(At("resorts", None), Invalidated(view["editor"].key))
  BY DEF BackToResorts
<1>4. Sane(calls, Invalidated(view["editor"].key), generation, view, confirmed)
  BY <1>2, <1>3, InvalidatedSane
<1>. QED  BY <1>1, <1>3, <1>4, SetRouteIInv

LEMMA RetryIInv == ASSUME IInv, Retry PROVE IInv'
<1> DEFINE key == view["editor"].key
           ch == Invalidated(key)
           f == Fetched(calls, ch, generation, view, "editor", key)
           there == open /\ status = "submitting"
<1>1. /\ EditorFailed(STATUS_FOR_CODE \ {"not-found"}) /\ Room /\ Becomes(f) /\ Act
      /\ UNCHANGED <<address, trail, generation, open, status, toast, versions, blocked,
                     confirmed>>
  BY DEF Retry, server
<1>2. /\ key \in Keys \cap KindOf("editor") /\ "editor" \in Consumers
      /\ Sane(calls, ch, generation, view, confirmed)
  BY <1>1, InvalidatedSane DEF KindOf, Keys, Consumers
<1>3. /\ \A c \in Consumers : Told(c, calls, generation, view, confirmed)
      /\ Publishing(calls, there, versions)
      /\ generation \in [HistoryKeys -> Nat] /\ Cardinality(calls) < MaxCalls
  BY <1>1 DEF IInv, Fetches, Typed, Room
<1> HIDE DEF f, ch
<1>4. /\ Sane(f.calls, f.cache, generation, f.view, confirmed)
      /\ f.view["editor"].key = key
      /\ \A d \in Consumers \ {"editor"} : f.view[d] = view[d]
      /\ Told("editor", f.calls, generation, f.view, confirmed)
      /\ \A d \in Consumers \ {"editor"} : Told(d, f.calls, generation, f.view, confirmed)
      /\ Publishing(f.calls, there, versions)
  BY <1>2, <1>3, FetchedSane DEF f
<1>5. calls' = f.calls /\ cache' = f.cache /\ view' = f.view
  BY <1>1 DEF Becomes
<1>6. Fetches'
  BY <1>1, <1>4, <1>5 DEF Fetches
<1>7. Mounted'
  <2>1. \A c \in Consumers : view'[c].key = view[c].key
    BY <1>4, <1>5
  <2>2. Route' = Route
    BY <1>1 DEF Route
  <2>. QED  BY <2>1, <2>2, <1>1 DEF IInv, Mounted, Consumers
<1>8. Typed'
  BY <1>1, ActTyped DEF IInv, Typed
<1>. QED  BY <1>1, <1>4, <1>5, <1>6, <1>7, <1>8, TimedKept DEF IInv
-----------------------------------------------------------------------------
(* The dialog.                                                             *)
LEMMA OpenDialogIInv == ASSUME IInv, OpenDialog PROVE IInv'
<1> DEFINE f == Fetched(calls, cache, generation, view, "dialog", HealthKey)
           there == open /\ status = "submitting"
<1>1. /\ ~open /\ open' = TRUE /\ status' = "idle" /\ Room /\ Becomes(f) /\ Act
      /\ UNCHANGED <<address, trail, generation, toast, versions, blocked, confirmed>>
  BY DEF OpenDialog, server
<1>2. HealthKey \in Keys \cap KindOf("dialog") /\ "dialog" \in Consumers
  BY DEF KindOf, Keys, Consumers
<1>3. /\ Sane(calls, cache, generation, view, confirmed)
      /\ \A c \in Consumers : Told(c, calls, generation, view, confirmed)
      /\ Publishing(calls, there, versions)
      /\ view["dialog"].key = None
      /\ generation \in [HistoryKeys -> Nat] /\ Cardinality(calls) < MaxCalls
  BY <1>1 DEF IInv, Fetches, Typed, Room, Mounted
<1> HIDE DEF f, there
<1>4. /\ Sane(f.calls, f.cache, generation, f.view, confirmed)
      /\ f.view["dialog"].key = HealthKey
      /\ \A d \in Consumers \ {"dialog"} : f.view[d] = view[d]
      /\ Told("dialog", f.calls, generation, f.view, confirmed)
      /\ \A d \in Consumers \ {"dialog"} : Told(d, f.calls, generation, f.view, confirmed)
      /\ Publishing(f.calls, there, versions)
  BY <1>2, <1>3, FetchedSane DEF f
<1>5. calls' = f.calls /\ cache' = f.cache /\ view' = f.view
  BY <1>1 DEF Becomes
<1>6. Fetches'
  BY <1>1, <1>4, <1>5 DEF Fetches
<1>7. Mounted'
  <2>1. \A c \in Consumers \ {"dialog"} : view'[c].key = view[c].key
    BY <1>4, <1>5
  <2>2. Route' = Route
    BY <1>1 DEF Route
  <2>. QED  BY <2>1, <2>2, <1>1, <1>4, <1>5 DEF IInv, Mounted
<1>8. Typed'
  BY <1>1, ActTyped DEF IInv, Typed
<1>9. Publishing(calls, open /\ status = "submitting", versions)'
  BY <1>1, <1>4, <1>5 DEF Publishing, there
<1>. QED  BY <1>1, <1>6, <1>7, <1>8, <1>9, TimedKept DEF IInv

LEMMA CloseDialogIInv == ASSUME IInv, CloseDialog PROVE IInv'
<1> DEFINE gone == {"dialog"}
           vx == [c \in Consumers |-> IF c \in gone THEN Unmounted ELSE view[c]]
<1>1. /\ status # "submitting" /\ open' = FALSE /\ calls' = Cancelled(calls, gone)
      /\ view' = [view EXCEPT !["dialog"] = Unmounted]
      /\ UNCHANGED <<address, trail, cache, generation, status, toast, versions, blocked,
                     confirmed, acts>>
  BY DEF CloseDialog, MayClose, server
<1>2. /\ Sane(calls, cache, generation, view, confirmed)
      /\ \A c \in Consumers : Told(c, calls, generation, view, confirmed)
      /\ Publishing(calls, FALSE, versions)
      /\ Requests(calls) /\ DOMAIN view = Consumers
  BY <1>1 DEF IInv, Fetches, Sane, Views, Publishing
<1>3. gone \in SUBSET Consumers
  BY DEF Consumers
<1>4. view' = vx
  BY <1>1, <1>2
<1>5. /\ Sane(calls', cache, generation, vx, confirmed)
      /\ \A c \in Consumers : Told(c, calls', generation, vx, confirmed)
  BY <1>1, <1>2, <1>3, CancelledSane
<1>6. Publishing(calls', FALSE, versions)
  BY <1>1, <1>2, CancelledPublishing
<1>7. Fetches'
  BY <1>1, <1>4, <1>5 DEF Fetches
<1>8. Mounted'
  <2>1. /\ \A c \in Consumers \ {"dialog"} : view'[c].key = view[c].key
        /\ view'["dialog"].key = None
    BY <1>3, <1>4 DEF Unmounted
  <2>2. Route' = Route
    BY <1>1 DEF Route
  <2>. QED  BY <2>1, <2>2, <1>1 DEF IInv, Mounted
<1>9. Typed'
  BY <1>1 DEF IInv, Typed
<1>10. Publishing(calls, open /\ status = "submitting", versions)'
  BY <1>1, <1>6 DEF Publishing
<1>. QED  BY <1>1, <1>7, <1>8, <1>9, <1>10, TimedKept DEF IInv

LEMMA ConfirmIInv == ASSUME IInv, Confirm PROVE IInv'
<1> DEFINE n == NewId(calls)
           new == [id |-> n, key |-> PublishKey, answer |-> None, waiters |-> {}]
<1>1. /\ open /\ status # "submitting" /\ Cardinality(calls) < MaxCalls
      /\ status' = "submitting" /\ calls' = calls \cup {new} /\ Act
      /\ UNCHANGED <<address, trail, cache, generation, view, open, toast, versions, blocked,
                     confirmed>>
  BY DEF Confirm, MayConfirm, Room, Request, server
<1>2. /\ Sane(calls, cache, generation, view, confirmed)
      /\ \A c \in Consumers : Told(c, calls, generation, view, confirmed)
      /\ Publishing(calls, FALSE, versions)
  BY <1>1 DEF IInv, Fetches, Publishing
<1>3. n \in 1..MaxCalls /\ \A r \in calls : r.id # n
  BY <1>1, <1>2, NewIdFree DEF Sane
<1>4. /\ new.id = n /\ new.key = PublishKey /\ new.answer = None /\ new.waiters = {}
      /\ CallOK(new)
  BY <1>3 DEF CallOK
<1> HIDE DEF n, new
<1>5. Sane(calls', cache, generation, view, confirmed)
  <2>1. Requests(calls')
    BY <1>1, <1>2, <1>3, <1>4 DEF Sane, Requests
  <2>2. Tickets(calls', cache)
    BY <1>1, <1>2 DEF Sane, Tickets
  <2>3. Waiters(calls', generation, view)
    BY <1>1, <1>2, <1>4 DEF Sane, Waiters
  <2>4. Fresh(calls', cache, generation, confirmed)
    BY <1>1, <1>2, <1>4 DEF Sane, Fresh
  <2>. QED  BY <1>2, <2>1, <2>2, <2>3, <2>4 DEF Sane
<1>6. \A c \in Consumers : Told(c, calls', generation, view, confirmed)
  BY <1>1, <1>2 DEF Told
<1>7. Publishing(calls', TRUE, versions)
  BY <1>1, <1>2, <1>4 DEF Publishing
<1>8. Fetches'
  BY <1>1, <1>5, <1>6 DEF Fetches
<1>9. Mounted'
  BY <1>1 DEF IInv, Mounted, Route
<1>10. Typed'
  BY <1>1, ActTyped DEF IInv, Typed
<1>11. Publishing(calls, open /\ status = "submitting", versions)'
  BY <1>1, <1>7 DEF Publishing
<1>. QED  BY <1>1, <1>8, <1>9, <1>10, <1>11, TimedKept DEF IInv

-----------------------------------------------------------------------------
(* The toast.                                                              *)
ToastOK(t) ==
    /\ t \in [variant : DOMAIN Duration, remaining : Nat, since : Nat,
              running : BOOLEAN, hovered : BOOLEAN, focused : BOOLEAN, seen : Nat]
    /\ t.running <=> ~t.hovered /\ ~t.focused
    /\ t.since <= t.remaining
    /\ ~t.running => t.since = 0
    /\ t.remaining + t.seen = Duration[t.variant] + t.since

LEMMA ToastHeld == IInv /\ toast # None => ToastOK(toast)
BY DEF IInv, Typed, Timed, ToastOK

LEMMA ShownOK ==
  ASSUME NEW variant \in {"info", "success", "error"}
  PROVE  ToastOK(Shown(variant))
BY AppAssumption DEF ToastOK, Shown

(* Nothing but the toast changes.                                          *)
LEMMA ToastIInv ==
  ASSUME IInv, toast' = None \/ ToastOK(toast'), acts' \in 0..MaxActs,
         UNCHANGED <<address, trail, fetching, generation, open, status, server, confirmed>>
  PROVE  IInv'
<1>1. UNCHANGED <<address, trail, calls, cache, view, generation, open, status, versions,
                  blocked, confirmed>>
  BY DEF fetching, server
<1>2. Typed' /\ Timed'
  BY <1>1 DEF IInv, Typed, Timed, ToastOK
<1>3. Fetches'
  BY <1>1 DEF IInv, Fetches
<1>4. Mounted'
  BY <1>1 DEF IInv, Mounted, Route
<1>5. Publishing(calls, open /\ status = "submitting", versions)'
  BY <1>1 DEF IInv
<1>. QED  BY <1>2, <1>3, <1>4, <1>5 DEF IInv

(* A pause and a resumption keep what has passed.                          *)
LEMMA PausedOK ==
  ASSUME NEW t, NEW u, ToastOK(t), u \in {[t EXCEPT !.hovered = TRUE], [t EXCEPT !.focused = TRUE]}
  PROVE  ToastOK(Paused(u))
<1>1. /\ t \in [variant : DOMAIN Duration, remaining : Nat, since : Nat, running : BOOLEAN,
                hovered : BOOLEAN, focused : BOOLEAN, seen : Nat]
      /\ Duration[t.variant] \in Nat
  BY AppAssumption DEF ToastOK
<1>2. /\ u.variant = t.variant /\ u.remaining = t.remaining /\ u.since = t.since
      /\ u.running = t.running /\ u.seen = t.seen
      /\ u.hovered \/ u.focused
      /\ u \in [variant : DOMAIN Duration, remaining : Nat, since : Nat, running : BOOLEAN,
                hovered : BOOLEAN, focused : BOOLEAN, seen : Nat]
  BY <1>1
<1>3. CASE u.running
  <2> DEFINE v == [u EXCEPT !.running = FALSE, !.remaining = u.remaining - u.since,
                            !.since = 0]
  <2>1. Paused(u) = v
    BY <1>3 DEF Paused
  <2>2. u.remaining - u.since \in Nat
    BY <1>1, <1>2 DEF ToastOK
  <2>3. /\ v.variant = u.variant /\ v.remaining = u.remaining - u.since /\ v.since = 0
        /\ v.running = FALSE /\ v.seen = u.seen /\ v.hovered = u.hovered
        /\ v.focused = u.focused
        /\ v \in [variant : DOMAIN Duration, remaining : Nat, since : Nat, running : BOOLEAN,
                  hovered : BOOLEAN, focused : BOOLEAN, seen : Nat]
    BY <1>2, <2>2
  <2> HIDE DEF v
  <2>4. v.remaining + v.seen = Duration[v.variant] + v.since
    BY <1>1, <1>2, <2>3 DEF ToastOK
  <2>. QED  BY <1>2, <2>1, <2>3, <2>4 DEF ToastOK
<1>4. CASE ~u.running
  <2>1. Paused(u) = u
    BY <1>4 DEF Paused
  <2>. QED  BY <1>1, <1>2, <1>4, <2>1 DEF ToastOK
<1>. QED  BY <1>3, <1>4

LEMMA ResumedOK ==
  ASSUME NEW t, NEW u, ToastOK(t),
         \/ t.hovered /\ u = [t EXCEPT !.hovered = FALSE]
         \/ t.focused /\ u = [t EXCEPT !.focused = FALSE]
  PROVE  ToastOK(Resumed(u))
<1>1. /\ t \in [variant : DOMAIN Duration, remaining : Nat, since : Nat, running : BOOLEAN,
                hovered : BOOLEAN, focused : BOOLEAN, seen : Nat]
      /\ ~t.running /\ t.since = 0
  BY DEF ToastOK
<1>2. /\ u.variant = t.variant /\ u.remaining = t.remaining /\ u.since = t.since
      /\ u.running = t.running /\ u.seen = t.seen
      /\ u \in [variant : DOMAIN Duration, remaining : Nat, since : Nat, running : BOOLEAN,
                hovered : BOOLEAN, focused : BOOLEAN, seen : Nat]
  BY <1>1
<1>3. CASE u.hovered \/ u.focused
  <2>1. Resumed(u) = u
    BY <1>3 DEF Resumed
  <2>. QED  BY <1>1, <1>2, <1>3, <2>1 DEF ToastOK
<1>4. CASE ~u.hovered /\ ~u.focused
  <2> DEFINE v == [u EXCEPT !.running = TRUE, !.since = 0]
  <2>1. Resumed(u) = v
    BY <1>1, <1>2, <1>4 DEF Resumed
  <2>2. /\ v.variant = u.variant /\ v.remaining = u.remaining /\ v.since = 0
        /\ v.running = TRUE /\ v.seen = u.seen /\ v.hovered = u.hovered
        /\ v.focused = u.focused
        /\ v \in [variant : DOMAIN Duration, remaining : Nat, since : Nat, running : BOOLEAN,
                  hovered : BOOLEAN, focused : BOOLEAN, seen : Nat]
    BY <1>2
  <2> HIDE DEF v
  <2>. QED  BY <1>1, <1>2, <1>4, <2>1, <2>2 DEF ToastOK
<1>. QED  BY <1>3, <1>4

LEMMA ToastActionsIInv ==
  ASSUME IInv, Attend \/ Leave \/ Tick \/ Expire \/ Dismiss \/ GoIntegrations
  PROVE  IInv'
<1>0. Typed /\ acts \in 0..MaxActs
  BY DEF IInv, Typed
<1>1. ASSUME Attend PROVE IInv'
  <2>1. ToastOK(toast')
    BY <1>1, ToastHeld, PausedOK DEF Attend
  <2>2. acts' \in 0..MaxActs
    BY <1>0, <1>1, ActTyped DEF Attend
  <2>. QED  BY <1>1, <2>1, <2>2, ToastIInv DEF Attend
<1>2. ASSUME Leave PROVE IInv'
  <2>1. ToastOK(toast')
    BY <1>2, ToastHeld, ResumedOK DEF Leave
  <2>. QED  BY <1>0, <1>2, <2>1, ToastIInv DEF Leave
<1>3. ASSUME Tick PROVE IInv'
  <2>1. ToastOK(toast) /\ toast.running /\ toast.since # toast.remaining
    BY <1>3, ToastHeld DEF Tick, Due
  <2>2. ~toast.hovered /\ ~toast.focused
    BY <2>1 DEF ToastOK
  <2>3. /\ toast \in [variant : DOMAIN Duration, remaining : Nat, since : Nat,
                      running : BOOLEAN, hovered : BOOLEAN, focused : BOOLEAN, seen : Nat]
        /\ Duration[toast.variant] \in Nat
    BY <2>1, AppAssumption DEF ToastOK
  <2> DEFINE v == [toast EXCEPT !.since = toast.since + 1, !.seen = toast.seen + 1]
  <2>4. toast' = v
    BY <1>3, <2>2 DEF Tick
  <2>7. toast.since + 1 \in Nat /\ toast.seen + 1 \in Nat
    BY <2>3
  <2>5. /\ v.variant = toast.variant /\ v.remaining = toast.remaining
        /\ v.since = toast.since + 1 /\ v.running = toast.running
        /\ v.seen = toast.seen + 1
        /\ v.hovered = toast.hovered /\ v.focused = toast.focused
        /\ v \in [variant : DOMAIN Duration, remaining : Nat, since : Nat, running : BOOLEAN,
                  hovered : BOOLEAN, focused : BOOLEAN, seen : Nat]
    BY <2>3, <2>7
  <2> HIDE DEF v
  <2>6. ToastOK(v)
    BY <2>1, <2>3, <2>5 DEF ToastOK
  <2>. QED  BY <1>0, <1>3, <2>4, <2>6, ToastIInv DEF Tick
<1>4. ASSUME Expire PROVE IInv'
  BY <1>0, <1>4, ToastIInv DEF Expire
<1>5. ASSUME Dismiss PROVE IInv'
  <2>1. acts' \in 0..MaxActs
    BY <1>0, <1>5, ActTyped DEF Dismiss
  <2>. QED  BY <1>5, <2>1, ToastIInv DEF Dismiss
<1>6. ASSUME GoIntegrations PROVE IInv'
  <2>1. acts' \in 0..MaxActs
    BY <1>0, <1>6, ActTyped DEF GoIntegrations
  <2>2. ToastOK(toast')
    BY <1>6, ShownOK DEF GoIntegrations
  <2>. QED  BY <1>6, <2>1, <2>2, ToastIInv DEF GoIntegrations
<1>. QED  BY <1>1, <1>2, <1>3, <1>4, <1>5, <1>6
-----------------------------------------------------------------------------
(* The server and the network.                                             *)
LEMMA WorkspaceChangesIInv == ASSUME IInv, WorkspaceChanges PROVE IInv'
<1>1. /\ blocked' \in BOOLEAN /\ Act
      /\ UNCHANGED <<address, trail, calls, cache, view, generation, open, status, toast,
                     versions, confirmed>>
  BY DEF WorkspaceChanges, fetching, IInv, Typed
<1>2. Typed'
  BY <1>1, ActTyped DEF IInv, Typed
<1>3. Fetches'
  BY <1>1 DEF IInv, Fetches
<1>4. Mounted'
  BY <1>1 DEF IInv, Mounted, Route
<1>5. Publishing(calls, open /\ status = "submitting", versions)'
  BY <1>1 DEF IInv
<1>. QED  BY <1>1, <1>2, <1>3, <1>4, <1>5, TimedKept DEF IInv

LEMMA FetchesTypes == IInv => TypeOK
<1> SUFFICES ASSUME IInv
             PROVE  TypeOK
  OBVIOUS
<1>1. Requests(calls) /\ Tickets(calls, cache) /\ Views(view)
  BY CacheSane DEF Sane
<1>2. /\ \A r \in calls : CallOK(r)
      /\ DOMAIN cache = Keys /\ DOMAIN view = Consumers
  BY <1>1 DEF Requests, Tickets, Views
<1>3. \A k \in Keys : \/ cache[k] = None
                      \/ \E r \in Pending(k) : cache[k] = Ticket(r.id)
                      \/ k \in DetailKeys /\ AnswerOf(k, cache[k])
  BY <1>1 DEF Tickets, Pending
<1>4. \A c \in Consumers :
        \/ view[c] = Unmounted
        \/ /\ view[c].key \in Keys
           /\ view[c].shows = Loading \/ AnswerOf(view[c].key, view[c].shows)
  BY <1>1 DEF Views
<1>. QED  BY <1>2, <1>3, <1>4 DEF IInv, Typed, TypeOK

(* A request is answered with a, the server having n versions by now.      *)
LEMMA AnsweredIInv ==
  ASSUME IInv, NEW r \in calls, NEW a, AnswerOf(r.key, a), UpToDate(r.key, a, confirmed),
         calls' = Answered(calls, r, a), acts' \in 0..MaxActs,
         versions' \in Nat, versions <= versions',
         r.key = PublishKey /\ ~IsError(a) => a.version <= versions',
         UNCHANGED <<address, trail, cache, generation, view, open, status, toast, blocked,
                     confirmed>>
  PROVE  IInv'
<1> DEFINE there == open /\ status = "submitting"
<1>1. /\ Sane(calls, cache, generation, view, confirmed)
      /\ \A c \in Consumers : Told(c, calls, generation, view, confirmed)
      /\ Publishing(calls, there, versions) /\ versions \in Nat
      /\ Requests(calls)
  BY DEF IInv, Fetches, Sane, Typed
<1> HIDE DEF there
<1>2. Publishing(calls, there, versions')
  <2>1. ASSUME NEW q \in calls, q.key = PublishKey, q.answer # None, ~IsError(q.answer)
        PROVE  q.answer.version <= versions'
    <3>1. q.answer.version <= versions
      BY <1>1, <2>1 DEF Publishing
    <3>2. q.answer.version \in Nat
      BY <1>1, <2>1, KeyKinds DEF Requests, CallOK, AnswerOf, Keys
    <3>. QED  BY <1>1, <3>1, <3>2
  <2>. QED  BY <1>1, <2>1 DEF Publishing
<1>3. /\ Sane(calls', cache, generation, view, confirmed)
      /\ \A c \in Consumers : Told(c, calls', generation, view, confirmed)
      /\ Publishing(calls', there, versions')
  BY <1>1, <1>2, AnsweredSane
<1>4. Fetches'
  BY <1>3 DEF Fetches
<1>5. Mounted'
  BY DEF IInv, Mounted, Route
<1>6. Typed'
  BY DEF IInv, Typed
<1>7. Publishing(calls, open /\ status = "submitting", versions)'
  BY <1>3 DEF there
<1>. QED  BY <1>4, <1>5, <1>6, <1>7, TimedKept DEF IInv

LEMMA ServeIInv == ASSUME IInv, NEW r \in calls, Serve(r) PROVE IInv'
<1>1. /\ calls' = Answered(calls, r, AnswerTo(r.key))
      /\ versions' = IF Publishes(r.key) THEN versions + 1 ELSE versions
      /\ UNCHANGED <<address, trail, cache, generation, view, open, status, toast, blocked,
                     confirmed, acts>>
  BY DEF Serve, Answered
<1>2. TypeOK /\ r.key \in Keys \cup {PublishKey}
  BY FetchesTypes DEF TypeOK, CallOK
<1>3. /\ AnswerOf(r.key, AnswerTo(r.key))
      /\ r.key \in HistoryKeys => AnswerTo(r.key).total = versions
      /\ Publishes(r.key) <=> r.key = PublishKey /\ ~blocked
      /\ Publishes(r.key) => AnswerTo(r.key) = [version |-> versions + 1]
  BY <1>2, AnswersFit
<1>4. versions \in Nat /\ confirmed \in Nat /\ confirmed <= versions /\ acts \in 0..MaxActs
  BY DEF IInv, Typed
<1>5. UpToDate(r.key, AnswerTo(r.key), confirmed)
  BY <1>3, <1>4 DEF UpToDate
<1>6. versions' \in Nat /\ versions <= versions'
  BY <1>1, <1>4
<1>7. ASSUME r.key = PublishKey, ~IsError(AnswerTo(r.key))
      PROVE  AnswerTo(r.key).version <= versions'
  <2>1. CASE blocked
    <3>1. HandlerOf(r.key) = "publish"
      BY <1>7, HandlerPublish
    <3>2. AnswerTo(r.key) = [error |-> ErrorEnvelope("publish-validation-failed")]
      BY <2>1, <3>1 DEF AnswerTo, Publishes
    <3>3. ErrorEnvelope("publish-validation-failed") \in STATUS_FOR_CODE
      BY DEF ErrorEnvelope, STATUS_FOR_CODE
    <3>. QED  BY <1>7, <3>2, <3>3 DEF IsError, Error
  <2>2. CASE ~blocked
    BY <1>1, <1>3, <1>4, <1>7, <2>2
  <2>. QED  BY <2>1, <2>2
<1>. QED  BY <1>1, <1>3, <1>4, <1>5, <1>6, <1>7, AnsweredIInv

LEMMA FailsIInv == ASSUME IInv, NEW r \in calls, Fails(r) PROVE IInv'
<1>1. PICK code \in ErrorsOf(HandlerOf(r.key)) :
        calls' = Answered(calls, r, [error |-> code])
  BY DEF Fails, Answered
<1>2. code \in STATUS_FOR_CODE
  <2>1. \A t : ErrorEnvelope(t) \in STATUS_FOR_CODE
    BY DEF ErrorEnvelope, STATUS_FOR_CODE
  <2>2. BeforeHandler \cup {"internal"} \subseteq STATUS_FOR_CODE
    BY DEF BeforeHandler, STATUS_FOR_CODE
  <2>. QED  BY <2>1, <2>2 DEF ErrorsOf
<1>3. IsError([error |-> code])
  BY <1>2 DEF IsError, Error
<1>4. /\ AnswerOf(r.key, [error |-> code])
      /\ UpToDate(r.key, [error |-> code], confirmed)
  BY <1>3 DEF AnswerOf, UpToDate
<1>5. /\ versions \in Nat /\ versions <= versions
      /\ acts' \in 0..MaxActs
  BY ActTyped DEF IInv, Typed, Fails
<1>6. UNCHANGED <<address, trail, cache, generation, view, open, status, toast, versions,
                  blocked, confirmed>>
  BY DEF Fails, server
<1>. QED  BY <1>1, <1>3, <1>4, <1>5, <1>6, AnsweredIInv

LEMMA SettleIInv == ASSUME IInv, NEW r \in calls, Settle(r) PROVE IInv'
<1> DEFINE rx == calls \ {r}
           told == {w.consumer : w \in {v \in r.waiters : Accepts(v, r.key)}}
           there == open /\ status = "submitting"
<1>1. /\ r.answer # None /\ r.key # PublishKey
      /\ calls' = rx
      /\ cache' = [cache EXCEPT ![r.key] =
                     IF @ # Ticket(r.id) THEN @
                     ELSE IF r.key \in DetailKeys THEN r.answer
                     ELSE None]
      /\ view' = [c \in Consumers |->
                    IF c \in told THEN [view[c] EXCEPT !.shows = r.answer] ELSE view[c]]
      /\ UNCHANGED <<address, trail, generation, open, status, toast, versions, blocked,
                     confirmed, acts>>
  BY DEF Settle, server
<1>2. /\ Requests(calls) /\ Tickets(calls, cache) /\ Views(view)
      /\ Waiters(calls, generation, view) /\ Fresh(calls, cache, generation, confirmed)
      /\ \A c \in Consumers : Told(c, calls, generation, view, confirmed)
      /\ Publishing(calls, there, versions)
  BY DEF IInv, Fetches, Sane
<1>3. r.key \in Keys /\ AnswerOf(r.key, r.answer) /\ r.answer # Loading
  <2>1. r.key \in Keys /\ AnswerOf(r.key, r.answer)
    BY <1>1, <1>2 DEF Requests, CallOK
  <2>. QED  BY <2>1, AnswersStandOut
<1> HIDE DEF rx, told, there
<1>4. Requests(rx)
  BY <1>2 DEF Requests, rx
<1>5. /\ DOMAIN cache' = Keys
      /\ \A k \in Keys \ {r.key} : cache'[k] = cache[k]
      /\ cache[r.key] # Ticket(r.id) => cache'[r.key] = cache[r.key]
      /\ cache[r.key] = Ticket(r.id) =>
           cache'[r.key] = IF r.key \in DetailKeys THEN r.answer ELSE None
  BY <1>1, <1>2, <1>3 DEF Tickets
<1>6. Tickets(rx, cache')
  <2> SUFFICES ASSUME NEW k \in Keys
               PROVE  \/ cache'[k] = None
                      \/ \E q \in rx : q.key = k /\ cache'[k] = Ticket(q.id)
                      \/ k \in DetailKeys /\ AnswerOf(k, cache'[k])
    BY <1>5 DEF Tickets
  <2>1. CASE k = r.key /\ cache[k] = Ticket(r.id)
    BY <2>1, <1>3, <1>5
  <2>2. CASE k # r.key \/ cache[k] # Ticket(r.id)
    <3>1. cache'[k] = cache[k]
      BY <2>2, <1>5
    <3>2. \A q \in calls : q.key = k /\ cache[k] = Ticket(q.id) => q \in rx
      BY <2>2 DEF rx
    <3>. QED  BY <3>1, <3>2, <1>2 DEF Tickets
  <2>. QED  BY <2>1, <2>2
<1>7. \A c \in told : c \in Consumers /\ view[c].key = r.key
  <2> SUFFICES ASSUME NEW w \in r.waiters
               PROVE  w.consumer \in Consumers /\ view[w.consumer].key = r.key
    BY DEF told
  <2>. QED  BY <1>2 DEF Requests, CallOK, Waiters
<1>8. \A c \in told : /\ view[c] # Unmounted
                      /\ view'[c] = [key |-> r.key, shows |-> r.answer]
  <2> SUFFICES ASSUME NEW c \in told
               PROVE  /\ view[c] # Unmounted
                      /\ view'[c] = [key |-> r.key, shows |-> r.answer]
    OBVIOUS
  <2>1. c \in Consumers /\ view[c].key = r.key /\ None \notin Keys
    BY <1>7, AppAssumption
  <2>2. view[c] # Unmounted
    BY <2>1, <1>3 DEF Unmounted
  <2>3. view[c] = [key |-> view[c].key, shows |-> view[c].shows]
    BY <2>1, <2>2, <1>2 DEF Views
  <2>4. view'[c] = [view[c] EXCEPT !.shows = r.answer]
    BY <2>1, <1>1
  <2>. QED  BY <2>1, <2>2, <2>3, <2>4
<1>9. \A c \in Consumers \ told : view'[c] = view[c]
  BY <1>1
<1>10. Views(view')
  <2>1. DOMAIN view' = Consumers
    BY <1>1
  <2>2. ASSUME NEW c \in told
        PROVE  /\ view'[c] = [key |-> view'[c].key, shows |-> view'[c].shows]
               /\ view'[c].key \in Keys \cap KindOf(c)
               /\ AnswerOf(view'[c].key, view'[c].shows)
    <3>1. view[c].key \in Keys \cap KindOf(c)
      BY <1>2, <1>7, <1>8 DEF Views
    <3>. QED  BY <3>1, <1>3, <1>7, <1>8
  <2>. QED  BY <2>1, <2>2, <1>2, <1>9 DEF Views
<1>11. \A c \in Consumers : view'[c].key = view[c].key
  BY <1>7, <1>8, <1>9
<1>12. Waiters(rx, generation, view')
  <2> SUFFICES ASSUME NEW q \in rx, NEW w \in q.waiters
               PROVE  /\ view'[w.consumer].key = q.key
                      /\ w.generation <= GenerationOf(generation, q.key)
    BY DEF Waiters
  <2>1. q \in calls /\ w.consumer \in Consumers
    BY <1>2 DEF rx, Requests, CallOK
  <2>. QED  BY <2>1, <1>2, <1>11 DEF Waiters
<1>13. Fresh(rx, cache', generation, confirmed)
  <2> SUFFICES ASSUME NEW q \in rx
               PROVE  \/ q.answer = None
                      \/ /\ q.key \in HistoryKeys /\ cache'[q.key] # Ticket(q.id)
                         /\ \A w \in q.waiters : w.generation # generation[q.key]
                      \/ UpToDate(q.key, q.answer, confirmed)
    BY DEF Fresh
  <2>1. /\ q \in calls /\ q # r /\ q.id \in 1..MaxCalls /\ q.id # r.id
    BY <1>2 DEF rx, Requests, CallOK
  <2>2. ASSUME q.key \in HistoryKeys, cache[q.key] # Ticket(q.id)
        PROVE  cache'[q.key] # Ticket(q.id)
    <3>1. q.key \in Keys /\ q.key \notin DetailKeys /\ None # Ticket(q.id)
      BY <2>1, <2>2, KeyKinds, AppAssumption DEF Keys, Ticket
    <3>. QED  BY <2>2, <3>1, <1>5
  <2>. QED  BY <2>1, <2>2, <1>2 DEF Fresh
<1>14. ASSUME NEW c \in Consumers PROVE Told(c, rx, generation, view', confirmed)
  <2>1. CASE c \in told
    <3>1. PICK w \in r.waiters : w.consumer = c /\ Accepts(w, r.key)
      BY <2>1 DEF told
    <3>2. ASSUME r.key \in HistoryKeys PROVE w.generation = generation[r.key]
      BY <3>1, <3>2 DEF Accepts, GenerationOf
    <3>3. UpToDate(r.key, r.answer, confirmed)
      BY <1>1, <1>2, <3>2 DEF Fresh, UpToDate
    <3>. QED  BY <2>1, <1>3, <1>8, <3>3 DEF Told
  <2>2. CASE c \notin told
    <3>1. view'[c] = view[c] /\ Told(c, calls, generation, view, confirmed)
      BY <2>2, <1>2, <1>9
    <3>2. ASSUME view[c].shows = Loading
          PROVE  \E q \in rx : /\ q.key = view[c].key
                               /\ \E w \in q.waiters :
                                    /\ w.consumer = c
                                    /\ w.generation = GenerationOf(generation, q.key)
      <4>1. PICK q \in calls : /\ q.key = view[c].key
                               /\ \E w \in q.waiters :
                                    /\ w.consumer = c
                                    /\ w.generation = GenerationOf(generation, q.key)
        BY <3>1, <3>2 DEF Told
      <4>2. q # r
        BY <4>1, <2>2 DEF told, Accepts
      <4>. QED  BY <4>1, <4>2 DEF rx
    <3>. QED  BY <3>1, <3>2 DEF Told
  <2>. QED  BY <2>1, <2>2
<1>15. Publishing(rx, there, versions)
  BY <1>1, <1>2 DEF Publishing, rx
<1>16. Fetches'
  BY <1>1, <1>4, <1>6, <1>10, <1>12, <1>13, <1>14 DEF Fetches, Sane
<1>17. Mounted'
  <2>1. Route' = Route
    BY <1>1 DEF Route
  <2>. QED  BY <2>1, <1>1, <1>11 DEF IInv, Mounted, Consumers
<1>18. Typed'
  BY <1>1 DEF IInv, Typed
<1>19. Publishing(calls, open /\ status = "submitting", versions)'
  BY <1>1, <1>15 DEF there
<1>. QED  BY <1>1, <1>16, <1>17, <1>18, <1>19, TimedKept DEF IInv
-----------------------------------------------------------------------------
(* The publish is answered.                                                *)
LEMMA RemovedSane ==
  ASSUME NEW rs, NEW ch, NEW gen, NEW vw, NEW conf, Sane(rs, ch, gen, vw, conf),
         NEW r \in rs, r.key = PublishKey, NEW there, NEW n, Publishing(rs, there, n)
  PROVE  /\ Sane(rs \ {r}, ch, gen, vw, conf)
         /\ \A c \in Consumers : Told(c, rs, gen, vw, conf) => Told(c, rs \ {r}, gen, vw, conf)
         /\ \A q \in rs \ {r} : q.key # PublishKey
<1> DEFINE rx == rs \ {r}
<1>1. /\ Requests(rs) /\ Tickets(rs, ch) /\ Views(vw) /\ Waiters(rs, gen, vw)
      /\ Fresh(rs, ch, gen, conf)
  BY DEF Sane
<1>2. PublishKey \notin Keys
  BY KeyKinds
<1>3. \A q \in rs : q.key \in Keys => q \in rx
  BY <1>2
<1>4. Requests(rx) /\ Waiters(rx, gen, vw) /\ Fresh(rx, ch, gen, conf)
  BY <1>1 DEF Requests, Waiters, Fresh
<1>5. Tickets(rx, ch)
  BY <1>1, <1>3 DEF Tickets
<1>6. ASSUME NEW c \in Consumers, Told(c, rs, gen, vw, conf)
      PROVE  Told(c, rx, gen, vw, conf)
  <2>1. vw[c].shows = Loading => vw[c].key \in Keys
    BY <1>1, AppAssumption DEF Views, Unmounted
  <2>. QED  BY <1>3, <1>6, <2>1 DEF Told
<1>7. \A q \in rx : q.key # PublishKey
  BY DEF Publishing
<1>. QED  BY <1>1, <1>4, <1>5, <1>6, <1>7 DEF Sane

LEMMA ReportedToast ==
  ASSUME IInv, NEW variant \in {"success", "error"}, Reported(variant)
  PROVE  /\ status' = "idle" /\ open' = (open /\ variant = "error")
         /\ toast' # None => ToastOK(toast')
BY ShownOK DEF Reported

LEMMA PublishRefusedIInv ==
  ASSUME IInv, NEW r \in calls, PublishRefused(r)
  PROVE  IInv'
<1> DEFINE there == open /\ status = "submitting"
<1>1. /\ r.key = PublishKey /\ calls' = calls \ {r} /\ Reported("error")
      /\ UNCHANGED <<address, trail, cache, generation, view, versions, blocked, confirmed,
                     acts>>
  BY DEF PublishRefused, server
<1>2. /\ Sane(calls, cache, generation, view, confirmed)
      /\ \A c \in Consumers : Told(c, calls, generation, view, confirmed)
      /\ Publishing(calls, there, versions)
  BY DEF IInv, Fetches
<1> HIDE DEF there
<1>3. /\ Sane(calls', cache, generation, view, confirmed)
      /\ \A c \in Consumers : Told(c, calls', generation, view, confirmed)
      /\ \A q \in calls' : q.key # PublishKey
  BY <1>1, <1>2, RemovedSane
<1>4. /\ status' = "idle" /\ open' = open /\ (toast' # None => ToastOK(toast'))
  BY <1>1, ReportedToast DEF IInv, Typed
<1>5. Fetches'
  BY <1>1, <1>3 DEF Fetches
<1>6. Mounted'
  BY <1>1, <1>4 DEF IInv, Mounted, Route
<1>7. Typed' /\ Timed'
  BY <1>1, <1>4 DEF IInv, Typed, Timed, ToastOK
<1>8. Publishing(calls, open /\ status = "submitting", versions)'
  BY <1>3, <1>4 DEF Publishing
<1>. QED  BY <1>5, <1>6, <1>7, <1>8 DEF IInv

(* The history is invalidated: nothing under way for it will be taken.     *)
LEMMA InvalidatedHistory ==
  ASSUME NEW rs, NEW ch, NEW gen, NEW vw, NEW conf, Sane(rs, ch, gen, vw, conf),
         gen \in [HistoryKeys -> Nat], NEW new,
         NEW gx, gx = [k \in HistoryKeys |-> gen[k] + 1]
  PROVE  /\ Sane(rs, Forgotten(ch), gx, vw, new)
         /\ \A c \in Consumers \ {"history"} :
              Told(c, rs, gen, vw, conf) => Told(c, rs, gx, vw, new)
         /\ vw["history"] = Unmounted => Told("history", rs, gx, vw, new)
<1>1. /\ Requests(rs) /\ Tickets(rs, ch) /\ Views(vw) /\ Waiters(rs, gen, vw)
  BY DEF Sane
<1>2. /\ \A k \in HistoryKeys : GenerationOf(gx, k) = gen[k] + 1 /\ GenerationOf(gen, k) = gen[k]
      /\ \A k : k \notin HistoryKeys => GenerationOf(gx, k) = GenerationOf(gen, k)
      /\ \A k \in HistoryKeys : gen[k] \in Nat
  BY DEF GenerationOf
<1>3. Tickets(rs, Forgotten(ch))
  BY <1>1 DEF Tickets, Forgotten
<1>4. Waiters(rs, gx, vw)
  <2> SUFFICES ASSUME NEW r \in rs, NEW w \in r.waiters
               PROVE  vw[w.consumer].key = r.key /\ w.generation <= GenerationOf(gx, r.key)
    BY DEF Waiters
  <2>1. vw[w.consumer].key = r.key /\ w.generation <= GenerationOf(gen, r.key)
        /\ w.generation \in Nat
    BY <1>1 DEF Waiters, Requests, CallOK
  <2>. QED  BY <2>1, <1>2
<1>5. Fresh(rs, Forgotten(ch), gx, new)
  <2> SUFFICES ASSUME NEW r \in rs, r.key \in HistoryKeys
               PROVE  /\ Forgotten(ch)[r.key] # Ticket(r.id)
                      /\ \A w \in r.waiters : w.generation # gx[r.key]
    BY DEF Fresh, UpToDate
  <2>1. Forgotten(ch)[r.key] = None /\ r.id \in 1..MaxCalls
    BY <1>1 DEF Forgotten, Keys, Requests, CallOK
  <2>2. None # Ticket(r.id)
    BY <2>1, AppAssumption DEF Ticket
  <2>3. ASSUME NEW w \in r.waiters PROVE w.generation # gx[r.key]
    <3>1. w.generation \in Nat /\ w.generation <= gen[r.key]
      BY <1>1, <1>2 DEF Waiters, Requests, CallOK
    <3>. QED  BY <3>1, <1>2
  <2>. QED  BY <2>1, <2>2, <2>3
<1>6. ASSUME NEW c \in Consumers \ {"history"}, Told(c, rs, gen, vw, conf)
      PROVE  Told(c, rs, gx, vw, new)
  <2>1. vw[c].key \notin HistoryKeys
    <3>1. KindOf(c) \cap HistoryKeys = {}
      BY KeyKinds DEF KindOf, Consumers
    <3>2. None \notin HistoryKeys
      BY KeyKinds DEF Keys
    <3>. QED  BY <3>1, <3>2, <1>1 DEF Views, Unmounted
  <2>2. \A q : q.key = vw[c].key => GenerationOf(gx, q.key) = GenerationOf(gen, q.key)
    BY <2>1, <1>2
  <2>. QED  BY <2>1, <2>2, <1>6 DEF Told, UpToDate
<1>7. vw["history"] = Unmounted => Told("history", rs, gx, vw, new)
  BY AppAssumption DEF Told, Unmounted
<1>. QED  BY <1>1, <1>3, <1>4, <1>5, <1>6, <1>7 DEF Sane

LEMMA PublishSucceedsIInv ==
  ASSUME IInv, NEW r \in calls, PublishSucceeds(r)
  PROVE  IInv'
<1> DEFINE there == open /\ status = "submitting"
           gone == {"dialog"}
           rs == calls \ {r}
           rx == Cancelled(rs, gone)
           vx == [c \in Consumers |-> IF c \in gone THEN Unmounted ELSE view[c]]
           gx == [k \in HistoryKeys |-> generation[k] + 1]
           key == view["history"].key
           f == Fetched(rx, Forgotten(cache), gx, vx, "history", key)
<1>1. /\ r.key = PublishKey /\ r.answer # None /\ ~IsError(r.answer)
      /\ confirmed' = r.answer.version
      /\ Reported("success") /\ generation' = gx
      /\ UNCHANGED <<address, trail, versions, blocked, acts>>
      /\ Becomes(Refetched(rx, Forgotten(cache), gx, [view EXCEPT !["dialog"] = Unmounted]))
  BY DEF PublishSucceeds, server
<1>2. /\ Sane(calls, cache, generation, view, confirmed)
      /\ \A c \in Consumers : Told(c, calls, generation, view, confirmed)
      /\ Publishing(calls, there, versions)
      /\ generation \in [HistoryKeys -> Nat] /\ versions \in Nat
      /\ DOMAIN view = Consumers /\ Requests(calls)
  BY DEF IInv, Fetches, Typed, Sane, Views
<1>3. /\ status' = "idle" /\ open' = FALSE /\ (toast' # None => ToastOK(toast'))
  BY <1>1, ReportedToast
<1>4. confirmed' \in Nat /\ confirmed' <= versions
  <2>1. AnswerOf(PublishKey, r.answer)
    BY <1>1, <1>2 DEF Requests, CallOK
  <2>2. r.answer \in [version : Nat]
    BY <2>1, <1>1, KeyKinds DEF AnswerOf, Keys
  <2>. QED  BY <2>2, <1>1, <1>2 DEF Publishing
<1>5. gone \in SUBSET Consumers /\ "history" \in Consumers /\ "history" \notin gone
  BY DEF Consumers
<1> HIDE DEF there
<1>6. /\ Sane(rs, cache, generation, view, confirmed)
      /\ \A c \in Consumers : Told(c, rs, generation, view, confirmed)
      /\ \A q \in rs : q.key # PublishKey
  BY <1>1, <1>2, RemovedSane
<1>7. /\ Sane(rx, cache, generation, vx, confirmed)
      /\ \A c \in Consumers : Told(c, rx, generation, vx, confirmed)
  BY <1>5, <1>6, CancelledSane
<1>8. /\ Sane(rx, Forgotten(cache), gx, vx, confirmed')
      /\ \A c \in Consumers \ {"history"} : Told(c, rx, gx, vx, confirmed')
      /\ vx["history"] = Unmounted => Told("history", rx, gx, vx, confirmed')
  BY <1>2, <1>7, InvalidatedHistory
<1>9. /\ Requests(rs) /\ Requests(rx)
      /\ \A q \in rx : q.key # PublishKey
  <2>1. Requests(rs) /\ Requests(rx)
    BY <1>6, <1>7 DEF Sane
  <2>2. \A q \in rx : \E p \in rs : q.key = p.key
    BY <2>1, CancelledIs
  <2> HIDE DEF rs, rx
  <2>. QED  BY <2>1, <2>2, <1>6
<1>10. Cardinality(rx) < MaxCalls
  <2>1. Cardinality(rs) < MaxCalls
    BY <1>2, RoomAfterRemoval
  <2>2. Cardinality(rx) <= Cardinality(rs)
    BY <1>9, CancelledSmaller
  <2>. QED  BY <2>1, <2>2, <1>9, Finite, Bounds
<1>11. [view EXCEPT !["dialog"] = Unmounted] = vx
  BY <1>2
<1>12. /\ vx["history"] = view["history"] /\ vx["dialog"].key = None
       /\ \A c \in Consumers \ {"dialog"} : vx[c] = view[c]
  BY <1>5 DEF Unmounted
<1>13. gx \in [HistoryKeys -> Nat]
  BY <1>2
<1>14. view["history"] = Unmounted \/ key \in Keys \cap KindOf("history")
  BY <1>2, <1>5 DEF Sane, Views
<1> HIDE DEF rs, rx, vx, gx, f, key, gone
<1>15. /\ Fetches'
       /\ \A c \in Consumers : view'[c].key = vx[c].key
       /\ \A q \in calls' : q.key # PublishKey
  <2>1. CASE view["history"] = Unmounted
    <3>1. vx["history"].key = None
      BY <2>1, <1>12 DEF Unmounted
    <3>2. calls' = rx /\ cache' = Forgotten(cache) /\ view' = vx
      BY <1>1, <1>11, <3>1 DEF Refetched, Becomes
    <3>. QED  BY <2>1, <3>2, <1>1, <1>8, <1>9, <1>12 DEF Fetches
  <2>2. CASE view["history"] # Unmounted
    <3>1. key \in Keys \cap KindOf("history") /\ vx["history"].key = key /\ key # None
      BY <2>2, <1>12, <1>14, AppAssumption DEF key
    <3>2. Becomes(f)
      BY <1>1, <1>11, <3>1 DEF Refetched, f
    <3>3. calls' = f.calls /\ cache' = f.cache /\ view' = f.view
      BY <3>2 DEF Becomes
    <3>4. Publishing(rx, FALSE, versions)
      BY <1>9 DEF Publishing
    <3> DEFINE none == FALSE
    <3>5. Publishing(rx, none, versions)
      BY <3>4
    <3> HIDE DEF none
    <3>6. /\ Sane(f.calls, f.cache, gx, f.view, confirmed')
          /\ f.view["history"].key = key
          /\ \A d \in Consumers \ {"history"} : f.view[d] = vx[d]
          /\ Told("history", f.calls, gx, f.view, confirmed')
          /\ \A d \in Consumers \ {"history"} : Told(d, f.calls, gx, f.view, confirmed')
          /\ Publishing(f.calls, none, versions)
      BY <3>1, <3>5, <1>5, <1>8, <1>10, <1>13, FetchedSane DEF f
    <3>7. \A q \in calls' : q.key # PublishKey
      BY <3>3, <3>6 DEF Publishing, none
    <3>8. Fetches'
      BY <3>3, <3>6, <1>1 DEF Fetches
    <3>. QED  BY <3>1, <3>3, <3>6, <3>7, <3>8
  <2>. QED  BY <2>1, <2>2
<1>16. Mounted'
  <2>1. Route' = Route
    BY <1>1 DEF Route
  <2>. QED  BY <2>1, <1>3, <1>12, <1>15 DEF IInv, Mounted, Consumers
<1>17. Typed' /\ Timed'
  BY <1>1, <1>3, <1>4, <1>13 DEF IInv, Typed, Timed, ToastOK
<1>18. Publishing(calls, open /\ status = "submitting", versions)'
  BY <1>3, <1>15 DEF Publishing
<1>. QED  BY <1>15, <1>16, <1>17, <1>18 DEF IInv
-----------------------------------------------------------------------------
(* The start, and every step.                                              *)
LEMMA InitIInv == Init => IInv
<1> SUFFICES ASSUME Init
             PROVE  IInv
  OBVIOUS
<1> DEFINE vw == [c \in Consumers |-> Unmounted]
           ch == [k \in Keys |-> None]
           gen == [k \in HistoryKeys |-> 0]
           wanted == Mounts(ParseURL(address))
           first == {Fetched({}, ch, gen, vw, m[1], m[2]) : m \in wanted}
           none == FALSE
<1>1. /\ address \in Links /\ trail = << >> /\ generation = gen
      /\ open = FALSE /\ status = "idle" /\ toast = None
      /\ versions = InitVersions /\ blocked \in BOOLEAN /\ confirmed = 0 /\ acts = 0
  BY DEF Init
<1>2. \E g \in (IF first = {} THEN {[calls |-> {}, cache |-> ch, view |-> vw]} ELSE first) :
        calls = g.calls /\ cache = g.cache /\ view = g.view
  BY DEF Init
<1>3. Typed /\ Timed
  <2>1. address \in Addresses /\ trail \in Seq(Addresses)
    BY <1>1 DEF Addresses
  <2>2. generation \in [HistoryKeys -> Nat]
    BY <1>1
  <2>3. versions \in Nat /\ confirmed \in Nat /\ confirmed <= versions /\ acts \in 0..MaxActs
    BY <1>1, AppAssumption
  <2>. QED  BY <2>1, <2>2, <2>3, <1>1 DEF Typed, Timed
<1>4. Sane({}, ch, gen, vw, confirmed)
  BY DEF Sane, Requests, Tickets, Views, Waiters, Fresh
<1>5. \A c \in Consumers : vw[c].key = None /\ Told(c, {}, gen, vw, confirmed)
  BY AppAssumption DEF Told, Unmounted
<1>6. \A n : Publishing({}, none, n)
  BY DEF Publishing
<1>7. /\ gen \in [HistoryKeys -> Nat] /\ Cardinality({}) < MaxCalls
      /\ None \notin Keys /\ "dialog" \in Consumers
  BY FS_EmptySet, Bounds, AppAssumption DEF Consumers
<1>8. \/ wanted = {}
      \/ \E c \in Consumers \ {"dialog"} : \E k \in Keys \cap KindOf(c) : wanted = {<<c, k>>}
  BY ParsesToRoute, MountsOne
<1> HIDE DEF vw, ch, gen, none
<1>9. /\ Fetches
      /\ \A c \in Consumers : view[c].key # None <=> <<c, view[c].key>> \in wanted
      /\ view["dialog"].key = None
      /\ Publishing(calls, none, versions)
  <2>1. CASE wanted = {}
    <3>1. calls = {} /\ cache = ch /\ view = vw
      BY <1>2, <2>1
    <3>. QED  BY <2>1, <3>1, <1>1, <1>4, <1>5, <1>6, <1>7 DEF Fetches
  <2>2. CASE wanted # {}
    <3>1. PICK c \in Consumers \ {"dialog"} :
            \E k \in Keys \cap KindOf(c) : wanted = {<<c, k>>}
      BY <1>8, <2>2
    <3>2. PICK k \in Keys \cap KindOf(c) : wanted = {<<c, k>>}
      BY <3>1
    <3> DEFINE f == Fetched({}, ch, gen, vw, c, k)
    <3>3. first = {f}
      BY <3>2
    <3> HIDE DEF f, first
    <3>4. calls = f.calls /\ cache = f.cache /\ view = f.view
      BY <1>2, <3>3
    <3>5. /\ Sane(f.calls, f.cache, gen, f.view, confirmed)
          /\ f.view[c].key = k
          /\ \A d \in Consumers \ {c} : f.view[d] = vw[d]
          /\ Told(c, f.calls, gen, f.view, confirmed)
          /\ \A d \in Consumers \ {c} : Told(d, f.calls, gen, f.view, confirmed)
          /\ Publishing(f.calls, none, versions)
      BY <1>4, <1>5, <1>6, <1>7, FetchedSane DEF f
    <3>6. Fetches
      BY <3>4, <3>5, <1>1 DEF Fetches
    <3>7. \A d \in Consumers \ {c} : view[d].key = None
      BY <3>4, <3>5, <1>5
    <3> HIDE DEF wanted
    <3>8. ASSUME NEW d \in Consumers
          PROVE  view[d].key # None <=> <<d, view[d].key>> \in wanted
      <4>1. CASE d = c
        BY <4>1, <3>2, <3>4, <3>5, <1>7
      <4>2. CASE d # c
        BY <4>2, <3>2, <3>7
      <4>. QED  BY <4>1, <4>2
    <3>. QED  BY <3>4, <3>5, <3>6, <3>7, <3>8, <1>7
  <2>. QED  BY <2>1, <2>2
<1>10. Mounted
  BY <1>1, <1>9 DEF Mounted, Route
<1>11. Publishing(calls, open /\ status = "submitting", versions)
  BY <1>1, <1>9 DEF Publishing, none
<1>. QED  BY <1>3, <1>9, <1>10, <1>11 DEF IInv

LEMMA UnchangedIInv == ASSUME IInv, UNCHANGED vars PROVE IInv'
<1>1. UNCHANGED <<address, trail, calls, cache, view, generation, open, status, toast,
                  versions, blocked, confirmed, acts>>
  BY DEF vars, fetching, server
<1>2. Typed' /\ Timed'
  BY <1>1 DEF IInv, Typed, Timed
<1>3. Fetches'
  BY <1>1 DEF IInv, Fetches
<1>4. Mounted'
  BY <1>1 DEF IInv, Mounted, Route
<1>5. Publishing(calls, open /\ status = "submitting", versions)'
  BY <1>1 DEF IInv
<1>. QED  BY <1>2, <1>3, <1>4, <1>5 DEF IInv

LEMMA NextIInv == ASSUME IInv, Next PROVE IInv'
<1>1. ASSUME User PROVE IInv'
  BY <1>1, BackIInv, MovesIInv, RetryIInv, BackToResortsIInv, OpenDialogIInv,
     CloseDialogIInv, ConfirmIInv, ToastActionsIInv DEF User
<1>2. ASSUME Tick \/ Expire PROVE IInv'
  BY <1>2, ToastActionsIInv
<1>3. ASSUME WorkspaceChanges PROVE IInv'
  BY <1>3, WorkspaceChangesIInv
<1>4. ASSUME NEW r \in calls, Replies(r) \/ Fails(r) PROVE IInv'
  BY <1>4, ServeIInv, SettleIInv, PublishSucceedsIInv, PublishRefusedIInv, FailsIInv
     DEF Replies
<1>. QED  BY <1>1, <1>2, <1>3, <1>4 DEF Next

LEMMA Inductive == Spec => []IInv
<1>1. IInv /\ [Next]_vars => IInv'
  BY NextIInv, UnchangedIInv
<1>. QED  BY InitIInv, <1>1, PTL DEF Spec
-----------------------------------------------------------------------------
(* What the reader is told.                                                *)

(* The requests, caches, views and the toast of the tab keep their types.  *)
THEOREM TypeCorrect == Spec => []TypeOK
BY Inductive, FetchesTypes, PTL

(* A view that waits has a request under way that will tell it, whatever   *)
(* was shared, cancelled or invalidated since useHealth, useListPublishes  *)
(* and their like sent it.                                                 *)
THEOREM LoadingEnds == Spec => []NoStuckLoading
<1>1. IInv => NoStuckLoading
  <2> SUFFICES ASSUME IInv, NEW c \in Consumers, view[c].shows = Loading
               PROVE  \E r \in Pending(view[c].key) : \E w \in r.waiters :
                        w.consumer = c /\ Accepts(w, r.key)
    BY DEF NoStuckLoading
  <2>1. Told(c, calls, generation, view, confirmed)
    BY DEF IInv, Fetches
  <2>2. PICK r \in calls : /\ r.key = view[c].key
                           /\ \E w \in r.waiters :
                                /\ w.consumer = c
                                /\ w.generation = GenerationOf(generation, r.key)
    BY <2>1 DEF Told
  <2>. QED  BY <2>2 DEF Pending, Accepts
<1>. QED  BY <1>1, Inductive, PTL

(* What a view that has rows shows, is an answer to the key it is for.     *)
LEMMA RowsAnswer ==
  ASSUME IInv, NEW c \in Consumers, Rows(c)
  PROVE  /\ view[c].key \in Keys \cap KindOf(c)
         /\ AnswerOf(view[c].key, view[c].shows)
         /\ ~IsError(view[c].shows) /\ view[c].shows \notin {None, Loading}
         /\ view[c].key # None
<1>1. Views(view)
  BY CacheSane DEF Sane
<1>2. view[c].shows \notin {None, Loading} /\ ~IsError(view[c].shows)
  BY DEF Rows
<1>3. view[c] # Unmounted
  BY <1>2 DEF Unmounted
<1>4. view[c].key \in Keys \cap KindOf(c) /\ AnswerOf(view[c].key, view[c].shows)
  BY <1>1, <1>2, <1>3 DEF Views
<1>5. None \notin Keys
  BY AppAssumption
<1>. QED  BY <1>2, <1>4, <1>5

(* No route is lost on the way through the address.                        *)
LEMMA AddressKeepsRoute ==
  ASSUME NEW route \in Routes
  PROVE  ParseURL(SerializeURL(route)) = route
<1>0. route = At(route.route, route.arg)
  BY DEF Routes, At
<1>1. CASE route.route = "resorts"
  BY <1>0, <1>1 DEF Routes, ParseURL, SerializeURL, At
<1>2. CASE route.route = "publishes"
  <2>1. route.arg \in 0..MAX_PAGE /\ MAX_PAGE \in Nat /\ None \notin 0..MAX_PAGE
    BY <1>2, AppAssumption DEF Routes
  <2>2. CASE route.arg = 0
    <3>1. SerializeURL(route) = At("publishes", None)
      BY <1>2, <2>2 DEF SerializeURL
    <3>2. None \notin 1..MAX_PAGE
      BY <2>1
    <3>3. ParseURL(At("publishes", None)) = At("publishes", 0)
      BY <3>2 DEF ParseURL, At
    <3>. QED  BY <1>0, <1>2, <2>2, <3>1, <3>3
  <2>3. CASE route.arg # 0
    <3>1. SerializeURL(route) = At("publishes", route.arg)
      BY <1>0, <1>2, <2>3 DEF SerializeURL
    <3>2. route.arg \in 1..MAX_PAGE
      BY <2>1, <2>3
    <3>3. ParseURL(At("publishes", route.arg)) = At("publishes", route.arg)
      BY <3>2 DEF ParseURL, At
    <3>. QED  BY <1>0, <1>2, <3>1, <3>3
  <2>. QED  BY <2>2, <2>3
<1>3. CASE route.route = "editor"
  BY <1>0, <1>3 DEF Routes, ParseURL, SerializeURL, At
<1>4. CASE route.route = "gallery"
  BY <1>0, <1>4 DEF Routes, ParseURL, SerializeURL, At
<1>5. CASE route.route = "dashboard"
  BY <1>0, <1>5 DEF Routes, ParseURL, SerializeURL, At
<1>. QED  BY <1>1, <1>2, <1>3, <1>4, <1>5 DEF Routes

(* The views are those of the address, and show what their own endpoint    *)
(* answered: urlState.ts, App.tsx and the dispatcher's table agree, and a  *)
(* late answer for another page or another view is never shown.            *)
THEOREM ViewsFollow == Spec => []ViewsFollowAddress
<1>1. IInv => ViewsFollowAddress
  <2> SUFFICES ASSUME IInv
               PROVE  ViewsFollowAddress
    OBVIOUS
  <2>1. \A c \in Consumers \ {"dialog"} :
          view[c].key # None <=> <<c, view[c].key>> \in Mounts(Route)
    BY DEF IInv, Mounted
  <2>2. Route \in Routes
    BY ParsesToRoute DEF Route
  <2>3. Rows("history") => view["history"].shows.page = Route.arg
    <3> SUFFICES ASSUME Rows("history")
                 PROVE  view["history"].shows.page = Route.arg
      OBVIOUS
    <3> DEFINE key == view["history"].key
    <3>0. "history" \in Consumers \ {"dialog"} /\ KindOf("history") = HistoryKeys
      BY DEF Consumers, KindOf
    <3>1. key \in HistoryKeys /\ AnswerOf(key, view["history"].shows) /\ key # None
      BY <3>0, RowsAnswer
    <3>2. ~IsError(view["history"].shows)
      BY <3>0, RowsAnswer
    <3>3. view["history"].shows.page = key[2]
      BY <3>1, <3>2, KeyKinds DEF AnswerOf, Keys
    <3>4. <<"history", key>> \in Mounts(Route)
      BY <2>1, <3>0, <3>1
    <3> HIDE DEF key
    <3>5. key = <<"publishes", Route.arg>>
      BY <2>2, <3>4 DEF Mounts, Routes
    <3>. QED  BY <3>3, <3>5
  <2>4. Rows("table") => view["table"].shows.from = "listResorts"
    <3> SUFFICES ASSUME Rows("table")
                 PROVE  view["table"].shows.from = "listResorts"
      OBVIOUS
    <3>0. "table" \in Consumers /\ KindOf("table") = TableKeys
      BY DEF Consumers, KindOf
    <3>1. /\ view["table"].key \in TableKeys
          /\ AnswerOf(view["table"].key, view["table"].shows)
          /\ ~IsError(view["table"].shows)
      BY <3>0, RowsAnswer
    <3>2. view["table"].shows = [from |-> "listResorts"]
      BY <3>1, KeyKinds DEF AnswerOf, Keys
    <3>. QED  BY <3>2
  <2>5. Rows("editor") => view["editor"].shows.from = "resortDetail"
    <3> SUFFICES ASSUME Rows("editor")
                 PROVE  view["editor"].shows.from = "resortDetail"
      OBVIOUS
    <3>0. "editor" \in Consumers /\ KindOf("editor") = DetailKeys
      BY DEF Consumers, KindOf
    <3>1. /\ view["editor"].key \in DetailKeys
          /\ AnswerOf(view["editor"].key, view["editor"].shows)
          /\ ~IsError(view["editor"].shows)
      BY <3>0, RowsAnswer
    <3>2. view["editor"].shows = [from |-> "resortDetail"]
      BY <3>1, KeyKinds DEF AnswerOf, Keys
    <3>. QED  BY <3>2
  <2>. QED  BY <2>1, <2>3, <2>4, <2>5, AddressKeepsRoute DEF ViewsFollowAddress
<1>. QED  BY <1>1, Inductive, PTL

(* useListPublishes: after a publish the tab knows of, an older list is    *)
(* never shown, be it under way at the time or cached.                     *)
THEOREM HistoryCurrent == Spec => []HistoryHasConfirmed
<1>1. IInv => HistoryHasConfirmed
  <2> SUFFICES ASSUME IInv, Rows("history")
               PROVE  view["history"].shows.total >= confirmed
    BY DEF HistoryHasConfirmed
  <2>0. "history" \in Consumers /\ KindOf("history") = HistoryKeys
    BY DEF Consumers, KindOf
  <2>1. /\ view["history"].key \in HistoryKeys
        /\ ~IsError(view["history"].shows) /\ view["history"].shows \notin {None, Loading}
    BY <2>0, RowsAnswer
  <2>2. Told("history", calls, generation, view, confirmed)
    BY <2>0 DEF IInv, Fetches
  <2>. QED  BY <2>1, <2>2 DEF Told, UpToDate
<1>. QED  BY <1>1, Inductive, PTL

(* usePublish and the dialog: no publish without a dialog that waits for   *)
(* it, and never two from one tab.                                         *)
THEOREM PublishWatched == Spec => []PublishIsWatched
<1>1. IInv => PublishIsWatched
  <2> SUFFICES ASSUME IInv
               PROVE  PublishIsWatched
    OBVIOUS
  <2>1. Publishing(calls, open /\ status = "submitting", versions)
    BY DEF IInv
  <2>2. Pending(PublishKey) # {} <=> open /\ status = "submitting"
    BY <2>1 DEF Publishing, Pending
  <2>3. \A q, r \in Pending(PublishKey) : q = r
    BY <2>1 DEF Publishing, Pending
  <2>4. Cardinality(Pending(PublishKey)) <= 1
    <3>1. CASE Pending(PublishKey) = {}
      BY <3>1, FS_EmptySet
    <3>2. CASE Pending(PublishKey) # {}
      <4>1. PICK r : r \in Pending(PublishKey)
        BY <3>2
      <4>2. Pending(PublishKey) = {r}
        BY <4>1, <2>3
      <4>3. Cardinality({r}) = 1
        BY FS_Singleton
      <4>. QED  BY <4>2, <4>3
    <3>. QED  BY <3>1, <3>2
  <2>. QED  BY <2>2, <2>4 DEF PublishIsWatched
<1>. QED  BY <1>1, Inductive, PTL

(* Toast.tsx: suspending and resuming the timer, by mouse and by focus in  *)
(* any order, neither loses nor adds time.                                 *)
THEOREM ToastTimed == Spec => []ToastKeepsTime
<1>1. IInv => ToastKeepsTime
  BY DEF IInv, Timed, ToastKeepsTime
<1>. QED  BY <1>1, Inductive, PTL
=============================================================================
