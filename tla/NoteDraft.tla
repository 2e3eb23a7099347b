----------------------------- MODULE NoteDraft -----------------------------
(***************************************************************************)
(* The autosaved analyst notes of one resort                               *)
(* (apps/admin/src/state/useAnalystNoteDraft.ts).  Each note path has a    *)
(* draft that is sent 500 ms after the last keystroke, an AbortController  *)
(* for the PUT in flight, and a revision that tells a late answer from a   *)
(* current one.  The server applies the PUTs it receives for a path in     *)
(* order; aborting a PUT does not say whether it was applied.              *)
(***************************************************************************)
EXTENDS Integers, Sequences, FiniteSets

CONSTANTS Paths,
          Texts,      \* markdown of a note
          Empty,      \* '' (a note may hold it)
          NoNote,     \* null: no note at the path
          UserOps,    \* what the analyst does in this instance
          MaxRev,     \* bound on typing and deleting, per path
          MaxFlights, \* bound: no flush by hand at this many PUTs, per path
          MaxFaults   \* bound on failed PUTs

ASSUME TextsAssumption == Empty \in Texts /\ NoNote \notin Texts
ASSUME OpsAssumption == UserOps \subseteq {"type", "delete", "escape", "modEnter"}
ASSUME BoundsAssumption == MaxRev \in Nat /\ MaxFlights \in Nat /\ MaxFaults \in Nat

VARIABLES state,     \* NotesPathState of each path
          flights,   \* its PUTs whose promise has not settled
          sent,      \* how many PUTs it made; they are numbered
          inbox,     \* PUTs the server has still to apply
          server,    \* the note in the workspace file
          fulfilled, \* the response cached by useAnalystNotes
          latest,    \* latestNotesBySlug
          intent,    \* what the analyst last did (history variable)
          faults     \* failures so far (history variable)

wire == <<flights, sent, inbox>>
cache == <<fulfilled, latest>>
vars == <<state, wire, server, cache, intent, faults>>

NoteOrNone == Texts \cup {NoNote}
PathState == [draft : Texts, lastSent : NoteOrNone,
              status : {"idle", "dirty", "saving", "saved", "save-failed"},
              timer : BOOLEAN, ctrl : Nat, rev : Nat,
              kind : {"upsert", "delete", "none"}]
Flight == [n : Nat \ {0}, rev : Nat, kind : {"upsert", "delete"}, text : NoteOrNone,
           answer : {"none", "ok", "error"}, aborted : BOOLEAN]

(* freshPathState: what a path is seeded with from the loaded notes.       *)
Seed(note) == [draft |-> IF note = NoNote THEN Empty ELSE note, lastSent |-> note,
               status |-> IF note = NoNote THEN "idle" ELSE "saved",
               timer |-> FALSE, ctrl |-> 0, rev |-> 0, kind |-> "none"]

Init == /\ server \in [Paths -> NoteOrNone]
        /\ state = [p \in Paths |-> Seed(server[p])]
        /\ flights = [p \in Paths |-> {}]
        /\ sent = [p \in Paths |-> 0]
        /\ inbox = [p \in Paths |-> << >>]
        /\ fulfilled = server /\ latest = server
        /\ intent = [p \in Paths |-> "none"]
        /\ faults = 0
-----------------------------------------------------------------------------
(* Mutant: the debounce is not armed again.                                *)
TypedNoTimer(s, t) ==
    [s EXCEPT !.draft = t,
              !.status = IF @ = "saving" THEN "saving" ELSE "dirty",
              !.rev = @ + 1, !.kind = "upsert"]

(* setDraft: the debounce restarts, and a PUT in flight keeps 'saving'.    *)
Typed(s, t) ==
    [s EXCEPT !.draft = t,
              !.status = IF @ = "saving" THEN "saving" ELSE "dirty",
              !.rev = @ + 1, !.kind = "upsert", !.timer = TRUE]

(* Mutant: a failed delete is retried like any draft.                      *)
RetriesNothing(s) == FALSE

(* Mutant: the short-circuit does not look at a PUT in flight.             *)
NothingToSendWhileSaving(s) ==
    /\ s.draft = s.lastSent \/ (s.lastSent = NoNote /\ s.draft = Empty)
    /\ s.status # "save-failed"

(* flushPath's two ways out before it sends an upsert.                     *)
RetriesDelete(s) == s.kind = "delete" /\ s.status = "save-failed" /\ s.draft = Empty

NothingToSend(s) ==
    /\ s.draft = s.lastSent \/ (s.lastSent = NoNote /\ s.draft = Empty)
    /\ s.status \notin {"save-failed", "saving"}

Sending(s, n) == [s EXCEPT !.timer = FALSE, !.ctrl = n, !.status = "saving",
                           !.kind = "upsert"]

Deleting(s, n) == [s EXCEPT !.timer = FALSE, !.ctrl = n, !.status = "saving",
                            !.kind = "delete", !.draft = Empty, !.rev = @ + 1]

(* The state after a flush whose PUT, if it makes one, is number n.        *)
Flushed(s, n) == IF RetriesDelete(s) THEN Deleting(s, n)
                 ELSE IF NothingToSend(s)
                 THEN [s EXCEPT !.timer = FALSE, !.status = "saved"]
                 ELSE Sending(s, n)

Sends(s) == RetriesDelete(s) \/ ~NothingToSend(s)

(* The PUT that a path in state s starts: abort what its controller holds, *)
(* and send the draft, or null for a deletion.                             *)
Started(s, n) == [n |-> n, rev |-> s.rev, kind |-> s.kind,
                  text |-> IF s.kind = "delete" THEN NoNote ELSE s.draft,
                  answer |-> "none", aborted |-> FALSE]

(* Mutant: nothing is aborted.                                             *)
AbortingNothing(fs, ctrl) == fs

Aborting(fs, ctrl) == {[f EXCEPT !.aborted = @ \/ f.n = ctrl] : f \in fs}

(* The paths in S move to their states in next; those in T start a PUT.    *)
Move(S, T, next) ==
    /\ state' = [p \in Paths |-> IF p \in S THEN next[p] ELSE state[p]]
    /\ sent' = [p \in Paths |-> IF p \in T THEN sent[p] + 1 ELSE sent[p]]
    /\ flights' = [p \in Paths |->
                     IF p \in T THEN Aborting(flights[p], state[p].ctrl)
                                       \cup {Started(next[p], sent[p] + 1)}
                     ELSE flights[p]]
    /\ inbox' = [p \in Paths |->
                   IF p \in T
                      THEN Append(inbox[p], [n |-> sent[p] + 1,
                                             text |-> Started(next[p], 0).text])
                      ELSE inbox[p]]
    /\ UNCHANGED <<server, cache, faults>>

FlushPaths(S) == Move(S, {p \in S : Sends(state[p])},
                      [p \in S |-> Flushed(state[p], sent[p] + 1)])

Pending(p) == state[p].timer \/ state[p].status \in {"dirty", "save-failed"}
-----------------------------------------------------------------------------
SetDraft(p, t) ==
    /\ "type" \in UserOps
    /\ state[p].rev < MaxRev
    /\ Move({p}, {}, [q \in {p} |-> Typed(state[p], t)])
    /\ intent' = [intent EXCEPT ![p] = "text"]

(* deleteNote: mod+Backspace and the delete button.                        *)
DeleteNote(p) ==
    /\ "delete" \in UserOps
    /\ state[p].rev < MaxRev
    /\ Move({p}, {p}, [q \in {p} |-> Deleting(state[p], sent[p] + 1)])
    /\ intent' = [intent EXCEPT ![p] = "delete"]

TimerFires(p) ==
    /\ state[p].timer
    /\ FlushPaths({p})
    /\ UNCHANGED intent

(* Escape in the note's editor calls flushNow whatever the status.         *)
Escape(p) ==
    /\ "escape" \in UserOps
    /\ sent[p] < MaxFlights
    /\ FlushPaths({p})
    /\ UNCHANGED intent

(* mod+Enter reaches flushAllPaths through flushAllForSlug.                *)
ModEnter ==
    /\ "modEnter" \in UserOps
    /\ \A p \in Paths : sent[p] < MaxFlights
    /\ \E p \in Paths : Pending(p)
    /\ FlushPaths({p \in Paths : Pending(p)})
    /\ UNCHANGED intent
-----------------------------------------------------------------------------
(* The flight a PUT belongs to gets its answer, unless it is over.         *)
Answered(p, n, a) ==
    [flights EXCEPT ![p] = {IF f.n = n /\ f.answer = "none"
                            THEN [f EXCEPT !.answer = a] ELSE f : f \in @}]

(* The server applies the next PUT (PUT /api/analyst-notes/:slug).         *)
ServerApply(p) ==
    /\ inbox[p] # << >>
    /\ server' = [server EXCEPT ![p] = Head(inbox[p]).text]
    /\ flights' = Answered(p, Head(inbox[p]).n, "ok")
    /\ inbox' = [inbox EXCEPT ![p] = Tail(@)]
    /\ UNCHANGED <<state, sent, cache, intent, faults>>

(* ... or refuses it.                                                      *)
ServerReject(p) ==
    /\ faults < MaxFaults
    /\ inbox[p] # << >>
    /\ faults' = faults + 1
    /\ flights' = Answered(p, Head(inbox[p]).n, "error")
    /\ inbox' = [inbox EXCEPT ![p] = Tail(@)]
    /\ UNCHANGED <<state, sent, server, cache, intent>>

(* The connection breaks: the client gets an error, whether the PUT was    *)
(* applied, will be, or never is.                                          *)
ConnectionLost(p, f) ==
    /\ faults < MaxFaults
    /\ ~f.aborted /\ f.answer # "error"
    /\ faults' = faults + 1
    /\ flights' = [flights EXCEPT ![p] = (@ \ {f}) \cup {[f EXCEPT !.answer = "error"]}]
    /\ UNCHANGED <<state, sent, inbox, server, cache, intent>>

(* A PUT nobody waits for any more may never reach the handler.            *)
Vanish(p) ==
    /\ inbox[p] # << >>
    /\ \A f \in flights[p] : f.n = Head(inbox[p]).n => f.aborted \/ f.answer = "error"
    /\ inbox' = [inbox EXCEPT ![p] = Tail(@)]
    /\ UNCHANGED <<state, flights, sent, server, cache, intent, faults>>
-----------------------------------------------------------------------------
(* clearControllerIfOurs                                                   *)
Released(s, f) == [s EXCEPT !.ctrl = IF @ = f.n THEN 0 ELSE @]

(* merge: the full response that a reply about one path makes.             *)
Merged(notes, p, note) == [notes EXCEPT ![p] = note]

(* Mutant: latestNotesBySlug is left to the next render.                   *)
SettleSuccessNoWriteThrough(p, f) ==
    /\ f.answer = "ok" /\ ~f.aborted
    /\ flights' = [flights EXCEPT ![p] = @ \ {f}]
    /\ IF f.rev = state[p].rev
          THEN /\ state' = [state EXCEPT ![p] =
                    [Released(@, f) EXCEPT !.lastSent = f.text, !.status = "saved",
                                           !.kind = "none"]]
               /\ fulfilled' = Merged(latest, p, f.text)
          ELSE /\ state' = [state EXCEPT ![p] = Released(@, f)]
               /\ UNCHANGED fulfilled
    /\ UNCHANGED <<latest, sent, inbox, server, intent, faults>>

(* settleSuccess: an answer to an older revision changes nothing; a        *)
(* current one becomes the baseline and is merged into the cached notes.   *)
SettleSuccess(p, f) ==
    /\ f.answer = "ok" /\ ~f.aborted
    /\ flights' = [flights EXCEPT ![p] = @ \ {f}]
    /\ IF f.rev = state[p].rev
          THEN /\ state' = [state EXCEPT ![p] =
                    [Released(@, f) EXCEPT
                       !.lastSent = IF f.kind = "upsert" THEN state[p].draft ELSE NoNote,
                       !.status = "saved", !.kind = "none"]]
               /\ fulfilled' = Merged(latest, p, f.text)
               /\ latest' = fulfilled'
          ELSE /\ state' = [state EXCEPT ![p] = Released(@, f)]
               /\ UNCHANGED cache
    /\ UNCHANGED <<sent, inbox, server, intent, faults>>

(* Mutant: a failure is left to the next keystroke.                        *)
SettleErrorSilent(p, f) ==
    /\ f.answer = "error" /\ ~f.aborted
    /\ flights' = [flights EXCEPT ![p] = @ \ {f}]
    /\ UNCHANGED <<state, sent, inbox, server, cache, intent, faults>>

(* settleError, the failure of a PUT nobody aborted.                       *)
SettleError(p, f) ==
    /\ f.answer = "error" /\ ~f.aborted
    /\ flights' = [flights EXCEPT ![p] = @ \ {f}]
    /\ state' = IF f.rev = state[p].rev
                   THEN [state EXCEPT ![p].status = "save-failed"]
                   ELSE state
    /\ UNCHANGED <<sent, inbox, server, cache, intent, faults>>

(* settleError on the AbortError of an aborted PUT.                        *)
SettleAbort(p, f) ==
    /\ f.aborted
    /\ flights' = [flights EXCEPT ![p] = @ \ {f}]
    /\ state' = [state EXCEPT ![p] = Released(@, f)]
    /\ UNCHANGED <<sent, inbox, server, cache, intent, faults>>

(* useAnalystNoteDraft renders: latestNotesBySlug follows the read hook.   *)
Render ==
    /\ latest' = fulfilled
    /\ UNCHANGED <<state, wire, server, fulfilled, intent, faults>>

Settle(p) == \E f \in flights[p] :
                SettleSuccess(p, f) \/ SettleError(p, f) \/ SettleAbort(p, f)

Next == \/ \E p \in Paths :
             \/ \E t \in Texts : SetDraft(p, t)
             \/ DeleteNote(p) \/ TimerFires(p) \/ Escape(p)
             \/ ServerApply(p) \/ ServerReject(p) \/ Vanish(p)
             \/ \E f \in flights[p] : ConnectionLost(p, f)
             \/ Settle(p)
        \/ ModEnter
        \/ Render

Spec == Init /\ [][Next]_vars

(* The browser runs due timers and settled promises; the server handles    *)
(* what it received.                                                       *)
FairSpec == Spec /\ \A p \in Paths : /\ WF_vars(TimerFires(p))
                                     /\ WF_vars(ServerApply(p) \/ Vanish(p))
                                     /\ WF_vars(Settle(p))
-----------------------------------------------------------------------------
TypeOK == /\ state \in [Paths -> PathState]
          /\ flights \in [Paths -> SUBSET Flight]
          /\ sent \in [Paths -> Nat]
          /\ inbox \in [Paths -> Seq([n : Nat, text : NoteOrNone])]
          /\ server \in [Paths -> NoteOrNone]
          /\ fulfilled \in [Paths -> NoteOrNone] /\ latest \in [Paths -> NoteOrNone]
          /\ intent \in [Paths -> {"none", "text", "delete"}]
          /\ faults \in 0..MaxFaults

(* A draft on the screen reads as the note n does.                         *)
Shows(s, n) == s.draft = n \/ (s.lastSent = NoNote /\ s.draft = Empty /\ n = NoNote)

(* 'saved' on the screen means that the server holds the draft, not some   *)
(* later or earlier PUT of it that was in flight ("must NOT mark           *)
(* saved-at-B while the server still gets A").                             *)
SavedMeansStored ==
    \A p \in Paths : state[p].status = "saved" => Shows(state[p], server[p])

(* The cached notes of a saved path are the server's, also when several    *)
(* paths were flushed together and answered before a render; as long as no *)
(* PUT failed (a lost answer breaks it, see SavedMeansStored).             *)
SavedIsCached ==
    faults = 0 =>
        \A p \in Paths : state[p].status = "saved" => fulfilled[p] = server[p]

(* A draft that is not saved has its debounce running or a PUT of its      *)
(* latest revision on the way: the screen never stays at 'saving' or       *)
(* 'dirty' for good.                                                       *)
UnsavedIsOnItsWay ==
    \A p \in Paths : state[p].status \in {"dirty", "saving"} =>
        \/ state[p].timer
        \/ \E f \in flights[p] : f.rev = state[p].rev /\ ~f.aborted

(* There is one current PUT per path and the controller kept for the path  *)
(* can still abort it.                                                     *)
ControllerReachesFlight ==
    \A p \in Paths : \A f \in flights[p] : ~f.aborted => state[p].ctrl = f.n

(* Once the analyst deleted a note and typed nothing since, no PUT that    *)
(* would bring the note back is sent ("which would resurrect the note as   *)
(* an empty upsert").                                                      *)
DeleteIsFinal ==
    \A p \in Paths : intent[p] = "delete" =>
        \A f \in flights[p] : f.kind = "upsert" => f.aborted

(* Whatever was typed is saved in the end, or reported as failed.          *)
DraftsSettle ==
    \A p \in Paths : state[p].status \in {"dirty", "saving"} ~>
                        state[p].status \in {"saved", "save-failed"}
=============================================================================
