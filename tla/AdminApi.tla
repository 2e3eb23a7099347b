------------------------------ MODULE AdminApi ------------------------------
(***************************************************************************)
(* The admin API between the browser and the handlers: which handler a     *)
(* request of apiClient.ts reaches (server/dispatch.ts), and which error   *)
(* code the caller sees for what a handler threw, behind the middleware    *)
(* (vite-plugin-admin-api.ts) and the client's own error path.             *)
(***************************************************************************)
EXTENDS Naturals, Sequences

CONSTANTS
    Slugs,      \* strings that are resort slugs
    Param,      \* a :slug segment of a path pattern
    None

Endpoint(method, path, slugs, handler) ==
    [method |-> method, path |-> path, slugs |-> slugs, handler |-> handler]

(* In the order they are tried; slugs is what the parameter's schema takes.*)
ROUTES ==
    LET one == <<"resorts", Param>>
        notes == <<"analyst-notes", Param>>
    IN  <<Endpoint("GET", <<"resorts">>, {}, "listResorts"),
          Endpoint("GET", one, Slugs, "resortDetail"),
          Endpoint("PUT", one, Slugs, "resortUpsert"),
          Endpoint("GET", notes, Slugs, "analystNotesGet"),
          Endpoint("PUT", notes, Slugs, "analystNotesPut"),
          Endpoint("POST", <<"resorts", Param, "publish">>, Slugs \cup {"__all__"}, "publish"),
          Endpoint("GET", <<"publishes">>, {}, "listPublishes"),
          Endpoint("GET", <<"health">>, {}, "health")>>

ASSUME ApiAssumption ==
    /\ ("__all__" \notin Slugs) /\ (Param \notin Slugs) /\ (None \notin Slugs)
    /\ Param \notin {"resorts", "analyst-notes", "__all__", "publish", "publishes", "health"}
    /\ \A i \in DOMAIN ROUTES : ROUTES[i] # None

(* A parameter matches one segment.                                        *)
Matches(route, method, path) ==
    /\ route.method = method
    /\ Len(route.path) = Len(path)
    /\ \A i \in DOMAIN path : route.path[i] \in {Param, path[i]}

MatchRoute(method, path) ==
    LET matching == {i \in DOMAIN ROUTES : Matches(ROUTES[i], method, path)}
    IN  IF matching = {} THEN None
        ELSE ROUTES[CHOOSE i \in matching : \A j \in matching : i <= j]

ParamsAccepted(route, path) ==
    \A i \in DOMAIN path : route.path[i] = Param => path[i] \in route.slugs

(* The codes with a status of their own.                                   *)
STATUS_FOR_CODE ==
    {"invalid-request", "invalid-resort", "not-found", "not-implemented",
     "publish-validation-failed", "workspace-corrupt", "internal"}

(* What dispatch makes of what a handler threw: a ZodError, an error with  *)
(* a code, of which Node's own ("EIO") have no status.                     *)
ErrorEnvelope(thrown) ==
    IF thrown = "ZodError" THEN "invalid-request"
    ELSE IF thrown \in STATUS_FOR_CODE THEN thrown
    ELSE "internal"

(* What may go wrong before a handler runs: the workspace directory cannot *)
(* be made, or the middleware fails.                                       *)
BeforeHandler == {"workspace-corrupt", "internal"}

(* The handler the request is for, or the code it is refused with.         *)
Dispatched(method, path) ==
    LET route == MatchRoute(method, path)
    IN  IF route = None THEN "not-found"
        ELSE IF ~ParamsAccepted(route, path) THEN "invalid-request"
        ELSE route.handler

(* What the handlers that only read throw, other than for a parameter.     *)
Thrown(handler) ==
    CASE handler = "resortDetail" -> {"not-found", "workspace-corrupt", "ZodError", "EIO"}
      [] OTHER -> {"ZodError", "EIO"}

(* The codes a caller may see: dispatch's, and those of an answer that is  *)
(* no envelope or none at all, which the client and the editor's boundary  *)
(* call internal.                                                          *)
ErrorsOf(handler) ==
    {ErrorEnvelope(t) : t \in Thrown(handler)} \cup BeforeHandler \cup {"internal"}
=============================================================================
