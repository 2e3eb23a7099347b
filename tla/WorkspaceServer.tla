-------------------------- MODULE WorkspaceServer --------------------------
(***************************************************************************)
(* The admin server's workspace writes: PUT /api/resorts/:slug and PUT     *)
(* /api/analyst-notes/:slug run as concurrent async functions in one Node  *)
(* process and share one JSON file per resort.  withSlugLock               *)
(* (apps/admin/server/workspace.ts) serializes them: slugLocks maps a slug *)
(* to the promise of the last handler that asked, and a handler runs when  *)
(* the promise it found there has settled.  Inside, the handler reads the  *)
(* workspace file and current.v1.json at once, judges and merges the body, *)
(* and renames the new file into place.  A publish may be running too.     *)
(***************************************************************************)
EXTENDS WorkspaceMerge

CONSTANTS Slugs, Requests, Bodies,
          NoSlug, NoBody, NoRequest, Unread,
          InitFiles, InitPublished,  \* what the directory may hold at first
          Events                     \* what may happen beside the requests

ASSUME BodiesAssumption == Bodies \subseteq ResortBody \cup NoteBody
ASSUME NonesAssumption ==
    /\ NoSlug \notin Slugs /\ NoBody \notin Bodies /\ NoRequest \notin Requests
    /\ Unread \notin File \cup Content \cup {NoFile, Corrupt, NotPublished}
ASSUME InitAssumption == /\ InitFiles \subseteq File \cup {NoFile, Corrupt}
                         /\ InitPublished \subseteq Content \cup {NotPublished}
ASSUME EventsAssumption == Events \subseteq {"io", "restart", "publish"}

VARIABLES
    file,        \* data/admin-workspace/<slug>.json
    published,   \* the slug's part of data/published/current.v1.json
    composed,    \* what a publish in progress read of the slug's file
    slug, body,  \* the request's parameters
    phase,       \* where its handler is
    slugLocks,   \* the request whose promise the map holds, or NoRequest
    prev,        \* the request whose promise this one chained on
    seenFile, seenPublished,   \* what the handler read
    reply,       \* what the handler returned or threw
    arrival,     \* when it called withSlugLock (history variable)
    clock        \* requests that arrived so far (history variable)

disk == <<file, published, composed>>
asked == <<slug, body, prev, arrival, clock>>
vars == <<disk, asked, phase, slugLocks, seenFile, seenPublished, reply>>

Phases == {"unsent", "queued", "reading", "writing", "settled", "done", "lost"}
Inside(r) == phase[r] \in {"reading", "writing"}
Settled(r) == phase[r] \in {"settled", "done", "lost"}

Init == /\ file \in [Slugs -> InitFiles]
        /\ published \in [Slugs -> InitPublished]
        /\ composed = [s \in Slugs |-> NotPublished]
        /\ slug = [r \in Requests |-> NoSlug]
        /\ body = [r \in Requests |-> NoBody]
        /\ phase = [r \in Requests |-> "unsent"]
        /\ slugLocks = [s \in Slugs |-> NoRequest]
        /\ prev = [r \in Requests |-> NoRequest]
        /\ seenFile = [r \in Requests |-> Unread]
        /\ seenPublished = [r \in Requests |-> Unread]
        /\ reply = [r \in Requests |-> "none"]
        /\ arrival = [r \in Requests |-> 0]
        /\ clock = 0
-----------------------------------------------------------------------------
(* Mutant: the map is set before it is read.                               *)
ArriveBehindItself(r, s, b) ==
    /\ phase[r] = "unsent"
    /\ phase' = [phase EXCEPT ![r] = "queued"]
    /\ slug' = [slug EXCEPT ![r] = s]
    /\ body' = [body EXCEPT ![r] = b]
    /\ slugLocks' = [slugLocks EXCEPT ![s] = r]
    /\ prev' = [prev EXCEPT ![r] = r]
    /\ clock' = clock + 1
    /\ arrival' = [arrival EXCEPT ![r] = clock']
    /\ UNCHANGED <<disk, seenFile, seenPublished, reply>>

(* A validated request reaches withSlugLock: it chains on the promise the  *)
(* map holds and puts its own in its place, with no await in between.      *)
Arrive(r, s, b) ==
    /\ phase[r] = "unsent"
    /\ phase' = [phase EXCEPT ![r] = "queued"]
    /\ slug' = [slug EXCEPT ![r] = s]
    /\ body' = [body EXCEPT ![r] = b]
    /\ prev' = [prev EXCEPT ![r] = slugLocks[s]]
    /\ slugLocks' = [slugLocks EXCEPT ![s] = r]
    /\ clock' = clock + 1
    /\ arrival' = [arrival EXCEPT ![r] = clock']
    /\ UNCHANGED <<disk, seenFile, seenPublished, reply>>

(* Mutant: the handler does not wait for its predecessor.                  *)
StartAtOnce(r) ==
    /\ phase[r] = "queued"
    /\ phase' = [phase EXCEPT ![r] = "reading"]
    /\ UNCHANGED <<disk, asked, slugLocks, seenFile, seenPublished, reply>>

(* prev.then(fn, fn): the handler runs whether its predecessor succeeded   *)
(* or failed.                                                              *)
Start(r) ==
    /\ phase[r] = "queued"
    /\ prev[r] # NoRequest => Settled(prev[r])
    /\ phase' = [phase EXCEPT ![r] = "reading"]
    /\ UNCHANGED <<disk, asked, slugLocks, seenFile, seenPublished, reply>>

(* The two reads of Promise.all, in either order.                          *)
ReadWorkspaceFile(r) ==
    /\ phase[r] = "reading"
    /\ seenFile[r] = Unread
    /\ file[slug[r]] # Corrupt
    /\ seenFile' = [seenFile EXCEPT ![r] = file[slug[r]]]
    /\ UNCHANGED <<disk, asked, phase, slugLocks, seenPublished, reply>>

ReadPublished(r) ==
    /\ phase[r] = "reading"
    /\ seenPublished[r] = Unread
    /\ seenPublished' = [seenPublished EXCEPT ![r] = published[slug[r]]]
    /\ UNCHANGED <<disk, asked, phase, slugLocks, seenFile, reply>>

(* The handler's promise settles and its locals are gone.                  *)
Settle(r, verdict) ==
    /\ phase' = [phase EXCEPT ![r] = "settled"]
    /\ reply' = [reply EXCEPT ![r] = verdict]
    /\ seenFile' = [seenFile EXCEPT ![r] = Unread]
    /\ seenPublished' = [seenPublished EXCEPT ![r] = Unread]

(* WorkspaceCorruptError rejects Promise.all without the other read.       *)
ReadCorruptFile(r) ==
    /\ phase[r] = "reading"
    /\ seenFile[r] = Unread
    /\ file[slug[r]] = Corrupt
    /\ Settle(r, "workspace-corrupt")
    /\ UNCHANGED <<disk, asked, slugLocks>>

(* With both reads done the handler merges and judges, and either writes   *)
(* or is finished.                                                         *)
Decide(r) ==
    /\ phase[r] = "reading"
    /\ seenFile[r] # Unread /\ seenPublished[r] # Unread
    /\ IF Writes(seenFile[r], seenPublished[r], body[r])
          THEN /\ phase' = [phase EXCEPT ![r] = "writing"]
               /\ UNCHANGED <<seenFile, seenPublished, reply>>
          ELSE Settle(r, Verdict(seenFile[r], seenPublished[r], body[r]))
    /\ UNCHANGED <<disk, asked, slugLocks>>

Candidate(r) == Written(seenFile[r], seenPublished[r], body[r])

(* atomicWriteText: visible at the rename; the directory sync and the      *)
(* reply follow, and the slug's next handler waits for them.               *)
Write(r) ==
    /\ phase[r] = "writing"
    /\ file' = [file EXCEPT ![slug[r]] = Candidate(r)]
    /\ Settle(r, "ok")
    /\ UNCHANGED <<published, composed, asked, slugLocks>>

(* It throws before the rename or, in the directory sync, after it.        *)
WriteFails(r) ==
    /\ "io" \in Events
    /\ phase[r] = "writing"
    /\ \/ UNCHANGED file
       \/ file' = [file EXCEPT ![slug[r]] = Candidate(r)]
    /\ Settle(r, "internal")
    /\ UNCHANGED <<published, composed, asked, slugLocks>>

(* Mutant: the entry is deleted whoever it belongs to.                     *)
CleanupAnyones(r) ==
    /\ phase[r] = "settled"
    /\ slugLocks' = [slugLocks EXCEPT ![slug[r]] = NoRequest]
    /\ phase' = [phase EXCEPT ![r] = "done"]
    /\ UNCHANGED <<disk, asked, seenFile, seenPublished, reply>>

(* The finally of withSlugLock, a microtask after the promise settled:     *)
(* the entry goes if it is still this request's own.  The reply is sent.   *)
Cleanup(r) ==
    /\ phase[r] = "settled"
    /\ slugLocks' = IF slugLocks[slug[r]] = r
                       THEN [slugLocks EXCEPT ![slug[r]] = NoRequest]
                       ELSE slugLocks
    /\ phase' = [phase EXCEPT ![r] = "done"]
    /\ UNCHANGED <<disk, asked, seenFile, seenPublished, reply>>
-----------------------------------------------------------------------------
(* Mutant: the file is written in place, without temporary and rename.     *)
LandingTorn(s) == {file[s]} \cup
    (IF \E r \in Requests : phase[r] = "writing" /\ slug[r] = s
        THEN {Corrupt} ELSE {})

(* What resort s may be left with when the process stops: a handler that   *)
(* was writing has renamed its file into place or has not.                 *)
Landing(s) == {file[s]} \cup
    {Candidate(r) : r \in {q \in Requests : phase[q] = "writing" /\ slug[q] = s}}

(* The server process is stopped and started: its promises and its map are *)
(* gone, the files stay.                                                   *)
Restart ==
    /\ "restart" \in Events
    /\ \E left \in [Slugs -> UNION {Landing(s) : s \in Slugs}] :
          /\ \A s \in Slugs : left[s] \in Landing(s)
          /\ file' = left
    /\ phase' = [r \in Requests |->
                   IF phase[r] \in {"unsent", "done"} THEN phase[r] ELSE "lost"]
    /\ reply' = [r \in Requests |->
                   IF phase[r] # "unsent" /\ reply[r] = "none" THEN "lost" ELSE reply[r]]
    /\ slugLocks' = [s \in Slugs |-> NoRequest]
    /\ composed' = [s \in Slugs |-> NotPublished]
    /\ seenFile' = [r \in Requests |-> Unread]
    /\ seenPublished' = [r \in Requests |-> Unread]
    /\ UNCHANGED <<published, asked>>

(* composePublishInput reads the workspace file without the slug's lock;   *)
(* what it read reaches current.v1.json later.                             *)
ComposePublish(s) ==
    /\ "publish" \in Events
    /\ file[s] \notin {NoFile, Corrupt}
    /\ composed' = [composed EXCEPT ![s] = file[s].content]
    /\ UNCHANGED <<file, published, asked, phase, slugLocks, seenFile,
                   seenPublished, reply>>

FinishPublish(s) ==
    /\ composed[s] # NotPublished
    /\ published' = [published EXCEPT ![s] = composed[s]]
    /\ composed' = [composed EXCEPT ![s] = NotPublished]
    /\ UNCHANGED <<file, asked, phase, slugLocks, seenFile, seenPublished, reply>>

(* A step of the request's own handler.                                    *)
Step(r) == \/ Start(r) \/ ReadWorkspaceFile(r) \/ ReadCorruptFile(r)
           \/ ReadPublished(r) \/ Decide(r) \/ Write(r) \/ WriteFails(r)
           \/ Cleanup(r)

Next == \/ \E r \in Requests : \/ \E s \in Slugs, b \in Bodies : Arrive(r, s, b)
                               \/ Step(r)
        \/ \E s \in Slugs : ComposePublish(s) \/ FinishPublish(s)
        \/ Restart

Spec == Init /\ [][Next]_vars

(* Node resumes a handler whose promise or file operation completed.       *)
FairSpec == Spec /\ \A r \in Requests : WF_vars(Step(r))
-----------------------------------------------------------------------------
TypeOK ==
    /\ file \in [Slugs -> File \cup {NoFile, Corrupt}]
    /\ published \in [Slugs -> Content \cup {NotPublished}]
    /\ composed \in [Slugs -> Content \cup {NotPublished}]
    /\ slug \in [Requests -> Slugs \cup {NoSlug}]
    /\ body \in [Requests -> Bodies \cup {NoBody}]
    /\ phase \in [Requests -> Phases]
    /\ slugLocks \in [Slugs -> Requests \cup {NoRequest}]
    /\ prev \in [Requests -> Requests \cup {NoRequest}]
    /\ seenFile \in [Requests -> File \cup {NoFile, Unread}]
    /\ seenPublished \in [Requests -> Content \cup {NotPublished, Unread}]
    /\ reply \in [Requests -> Verdicts \cup {"none", "internal", "lost"}]
    /\ arrival \in [Requests -> Nat]
    /\ clock \in Nat

(* Handlers of one resort run one at a time and in the order they asked:   *)
(* while one is between its read and its write, everyone who asked before  *)
(* it is finished.  Restarts and failed predecessors do not break this.    *)
RunsInArrivalOrder ==
    \A r, q \in Requests :
        /\ Inside(r)
        /\ slug[q] = slug[r]
        /\ arrival[q] < arrival[r]
        => Settled(q)

(* The lock map does not leak: an entry belongs to a request that has not  *)
(* been answered yet.                                                      *)
NoLockLeak ==
    \A s \in Slugs : slugLocks[s] # NoRequest =>
                        phase[slugLocks[s]] \notin {"unsent", "done", "lost"}

(* What a reader of resort s is shown, its notes aside.                    *)
Shown(s) == CASE file[s] = NoFile -> published[s]
              [] file[s] = Corrupt -> NotPublished
              [] OTHER -> file[s].content

ShownNotes(s) == IF file[s] \in {NoFile, Corrupt} THEN [p \in Paths |-> NoNote]
                                                  ELSE file[s].notes

(* A metric value changes only together with its provenance entry, however *)
(* stale the client's copy of its neighbours was and whoever wrote in      *)
(* between; and provenance never moves to a value that stayed.             *)
ProvenanceMovesWithValue ==
    [][\A s \in Slugs :
          Shown(s) # NotPublished /\ Shown(s)' # NotPublished =>
            \A f \in Fields :
               Shown(s).vals[f] # Absent /\ Shown(s)'.vals[f] # Absent =>
                  (Shown(s).vals[f] # Shown(s)'.vals[f]
                     <=> Shown(s).srcs[f] # Shown(s)'.srcs[f])]_vars

(* A step that changes a resort's notes leaves its values alone and the    *)
(* other way round: a resort PUT, a cold start and a publish carry the     *)
(* notes forward, a note PUT carries the resort.                           *)
EachHalfIsCarried ==
    [][\A s \in Slugs :
          Shown(s)' # Shown(s) => ShownNotes(s)' = ShownNotes(s)]_vars

(* Every PUT takes effect at one instant: no update is lost.               *)
Store == INSTANCE WorkspaceStore
ImplementsStore == Store!Spec

(* Every request is answered, also behind one that failed, or the server   *)
(* was restarted under it.                                                 *)
EveryRequestAnswered ==
    \A r \in Requests : phase[r] = "queued" ~> phase[r] \in {"done", "lost"}

=============================================================================
