---------------------------- MODULE ResortDraft ----------------------------
(***************************************************************************)
(* The autosaved metric values of one resort                               *)
(* (apps/admin/src/state/useWorkspaceState.ts).  All fields of the resort  *)
(* share one draft, one debounce and at most one PUT in flight; a flush    *)
(* that finds a PUT in flight is queued.  A PUT carries the difference     *)
(* between the draft and the last draft that was sent; a field that is     *)
(* part of a parent object (altitude_m) is sent with the whole parent,     *)
(* whose other leaves come from the cached resort.  Clearing a field       *)
(* aborts the PUT that carries it.  The server judges and merges as in     *)
(* WorkspaceMerge.                                                         *)
(***************************************************************************)
EXTENDS WorkspaceMerge, Sequences, Functions

CONSTANTS Parent,      \* the top-level key of each field
          ModeFields,  \* fields whose mode can be switched
          InitContent, \* the resort at the start
          NoFlight, NoAnswer, Failed,
          Blank,       \* an input that holds no number
          Forms,       \* ways to write a number: 155, 155.0, 0155
          Plain,       \* the way String() writes it
          UserOps,     \* what the analyst does in this instance
          MaxRev,      \* bound on edits
          MaxFlights,  \* bound: no flush by hand at this many PUTs
          MaxFaults    \* bound on broken connections

ASSUME ParentAssumption == DOMAIN Parent = Fields
ASSUME ModeAssumption == ModeFields \subseteq Fields

(* A resort as its schema has it: every durable metric has a value.        *)
Stored == {c \in Content : \A f \in Fields : c.vals[f] # Absent}

ASSUME ContentAssumption == InitContent \in Stored
ASSUME AnswersAssumption == NoAnswer # Failed /\ {NoAnswer, Failed} \cap Content = {}
ASSUME FormsAssumption == Plain \in Forms

(* What an input holds besides Blank; Number() reads the num of it.        *)
Numerals == [num : Values, as : Forms]

ASSUME BlankAssumption == Blank \notin Numerals
ASSUME OpsAssumption ==
    UserOps \subseteq {"type", "retype", "mode", "clear", "modEnter"}
ASSUME BoundsAssumption == /\ MaxRev \in Nat /\ MaxFlights \in Nat /\ MaxFaults \in Nat
                           /\ 1..MaxRev \subseteq Hashes

VARIABLES draft,      \* DraftShape: values, their sources, editor modes
          lastSent,   \* lastSentDraft
          status,     \* WorkspaceStatus of each field, or "none"
          rev,        \* state.rev
          timer,      \* the debounce is running
          queued,     \* a flush waits for the PUT in flight
          flight,     \* the PUT in flight (token, controller, body), or NoFlight
          canonical,  \* the resort cached by useResortDetail
          text,       \* localString: what the input of each field holds
          sent,       \* PUTs made so far; they are numbered
          inbox,      \* PUTs the server has still to handle
          server,     \* the workspace file
          cleared,    \* fields cleared and not typed since (history variable)
          disturbed,  \* something was cleared or broke (history variable)
          faults      \* broken connections so far (history variable)

store == <<draft, lastSent, status, rev, timer, queued, flight>>
wire == <<sent, inbox>>
history == <<cleared, disturbed, faults>>
editor == <<canonical, text>>
vars == <<store, editor, wire, server, history>>

Modes == {"manual", "auto"}
Statuses == {"none", "dirty", "saving", "saved", "save-failed"}

Part(S, T) == UNION {[D -> T] : D \in SUBSET S}
Draft == [vals : Part(Fields, Values), srcs : Part(Fields, Hashes),
          modes : Part(ModeFields, Modes)]
Nothing == [vals |-> << >>, srcs |-> << >>, modes |-> << >>]

Server == [content : Stored, modes : [ModeFields -> Modes]]

(* A PUT: what the client keeps of it, and what the server receives.       *)
InFlight == [n : Nat, rev : Nat, draft : Draft, body : Draft,
             answer : Stored \cup {NoAnswer, Failed}, aborted : BOOLEAN]
Put == [n : Nat, body : Draft]

ASSUME FlightAssumption == NoFlight \notin InFlight

Siblings(f) == {g \in Fields : Parent[g] = Parent[f]}

(* persistedValueToString.                                                 *)
AsText(v) == IF v = Absent THEN Blank ELSE [num |-> v, as |-> Plain]

Without(fn, S) == Restrict(fn, DOMAIN fn \ S)
With(fn, x, y) == [z \in DOMAIN fn \cup {x} |-> IF z = x THEN y ELSE fn[z]]

Init == /\ draft = Nothing /\ lastSent = Nothing
        /\ status = [f \in Fields |-> "none"]
        /\ rev = 0 /\ timer = FALSE /\ queued = FALSE /\ flight = NoFlight
        /\ canonical = InitContent
        /\ text = [f \in Fields |-> AsText(InitContent.vals[f])]
        /\ sent = 0 /\ inbox = << >>
        /\ \E modes \in [ModeFields -> Modes] :
              server = [content |-> InitContent, modes |-> modes]
        /\ cleared = [f \in Fields |-> FALSE]
        /\ disturbed = FALSE /\ faults = 0
-----------------------------------------------------------------------------
(* The value f's row shows: an edit of the session before the cached one.  *)
Shown(f) == IF f \in DOMAIN draft.vals THEN draft.vals[f] ELSE canonical.vals[f]

(* Mutant: the input always follows the stored value.                      *)
FollowsAlways(f, typed) == AsText(Shown(f)')

(* FieldRow renders: the input follows the row's value unless the analyst  *)
(* has since put something else into it, if only in the way it is written. *)
Follows(f, typed) == IF typed = AsText(Shown(f)) THEN AsText(Shown(f)') ELSE typed

Rendered(typed) == text' = [f \in Fields |-> Follows(f, typed[f])]

(* patchDraftLeaf: the first edit below a parent takes its other leaves    *)
(* from the cached resort.                                                 *)
PatchLeaf(d, f, v) ==
    LET known == {g \in Siblings(f) : canonical.vals[g] # Absent}
        whole == IF Siblings(f) \cap DOMAIN d.vals # {} \/ Siblings(f) = {f}
                    THEN d.vals
                    ELSE [g \in DOMAIN d.vals \cup known |->
                            IF g \in known THEN canonical.vals[g] ELSE d.vals[g]]
    IN  With(whole, f, v)

(* patchFieldSourceOnSide, with a manualFieldSource: a source of its own   *)
(* for every edit, told apart by its upstream_hash.                        *)
PatchSource(d, f, hash) == [d EXCEPT !.srcs = With(@, f, hash)]

(* clearDraftLeaf: the whole parent goes, values and sources.              *)
ClearLeaf(d, f) == [d EXCEPT !.vals = Without(@, Siblings(f)),
                             !.srcs = Without(@, Siblings(f))]

New(fn, old) == {f \in DOMAIN fn : f \notin DOMAIN old \/ old[f] # fn[f]}

(* The fields whose top-level key differs from what was sent.              *)
NewParents(d, base) ==
    {f \in DOMAIN d.vals : Siblings(f) \cap New(d.vals, base.vals) # {}}

(* Mutant: the sources of unchanged siblings ride along.                   *)
DiffParentSources(d, base) ==
    [vals |-> Restrict(d.vals, NewParents(d, base)),
     srcs |-> Restrict(d.srcs, DOMAIN d.srcs \cap NewParents(d, base)),
     modes |-> Restrict(d.modes, New(d.modes, base.modes))]

(* buildBodyFromDraft and diffSide: whole parents that differ from what    *)
(* was sent, but only the sources of leaves that differ.                   *)
Diff(d, base) ==
    [vals |-> Restrict(d.vals, NewParents(d, base)),
     srcs |-> Restrict(d.srcs, DOMAIN d.srcs \cap New(d.vals, base.vals)),
     modes |-> Restrict(d.modes, New(d.modes, base.modes))]

Mark(target) == [f \in Fields |-> IF status[f] \in {"dirty", "saving"}
                                     THEN target ELSE status[f]]

(* flush: queued behind a PUT in flight; nothing to send counts as saved.  *)
Flush ==
    LET body == Diff(draft, lastSent)
    IN  /\ timer' = FALSE
        /\ IF flight # NoFlight
              THEN queued' = TRUE /\ UNCHANGED <<status, flight, wire>>
           ELSE IF body = Nothing
              THEN status' = Mark("saved") /\ UNCHANGED <<queued, flight, wire>>
           ELSE /\ status' = Mark("saving")
                /\ sent' = sent + 1
                /\ flight' = [n |-> sent', rev |-> rev, draft |-> draft, body |-> body,
                              answer |-> NoAnswer, aborted |-> FALSE]
                /\ inbox' = Append(inbox, [n |-> sent', body |-> body])
                /\ UNCHANGED queued
        /\ UNCHANGED <<draft, lastSent, rev, editor, server, history>>

TimerFires == timer /\ Flush

(* mod+Enter, through the flusher registered with flushAllForSlug.         *)
ModEnter == /\ "modEnter" \in UserOps
            /\ sent < MaxFlights
            /\ Flush
-----------------------------------------------------------------------------
(* The input tells of texts other than the one it holds.  Without "retype" *)
(* every number typed is one the resort never had.                         *)
Typable(f) == IF "retype" \in UserOps THEN Numerals \ {text[f]}
              ELSE {raw \in Numerals : raw.num = rev + 1}

(* modeFor: a response carries the stored mode, and the draft overrides it *)
(* until the response is cached.                                           *)
ModeFor(f) == IF f \in DOMAIN draft.modes THEN draft.modes[f] ELSE server.modes[f]

Toggled(f) == CHOOSE m \in Modes : m # ModeFor(f)

(* pickInputElement: only a field in manual mode has an input.  The fields *)
(* outside ModeFields are in manual mode all along.                        *)
HasInput(f) == f \in ModeFields => ModeFor(f) = "manual"

(* onLocalChange and setFieldValue: the text stays as it was typed, the    *)
(* draft takes the number it denotes.                                      *)
SetFieldValue(f, raw) ==
    /\ "type" \in UserOps /\ HasInput(f)
    /\ rev < MaxRev /\ raw \in Typable(f)
    /\ rev' = rev + 1
    /\ draft' = PatchSource([draft EXCEPT !.vals = PatchLeaf(draft, f, raw.num)], f, rev')
    /\ status' = [status EXCEPT ![f] = "dirty"]
    /\ timer' = TRUE
    /\ cleared' = [cleared EXCEPT ![f] = FALSE]
    /\ UNCHANGED <<lastSent, queued, flight, canonical, wire, server, disturbed, faults>>
    /\ Rendered([text EXCEPT ![f] = raw])

(* toggleMode and setMode; a field without a source has no mode.  Without  *)
(* "retype" a mode is not switched back before it is saved.                *)
ToggleMode(f) ==
    /\ "mode" \in UserOps
    /\ rev < MaxRev
    /\ canonical.srcs[f] # NoHash
    /\ "retype" \in UserOps \/ f \notin DOMAIN draft.modes
    /\ rev' = rev + 1
    /\ draft' = [draft EXCEPT !.modes = With(@, f, Toggled(f))]
    /\ status' = [status EXCEPT ![f] = "dirty"]
    /\ timer' = TRUE
    /\ UNCHANGED <<lastSent, queued, flight, editor, wire, server, history>>

(* Mutant: nothing in flight is aborted.                                   *)
AbortsNever(f) == FALSE

(* The body in flight carries an edit of f itself (isPathInBody).          *)
Aborts(f) == flight # NoFlight /\ f \in DOMAIN flight.body.srcs

(* clearFieldValue: the input was emptied or holds no valid number.        *)
ClearFieldValue(f) ==
    /\ "clear" \in UserOps /\ HasInput(f)
    /\ rev < MaxRev
    /\ flight' = IF Aborts(f) THEN [flight EXCEPT !.aborted = TRUE] ELSE flight
    /\ rev' = rev + 1
    /\ draft' = ClearLeaf(draft, f)
    /\ status' = [g \in Fields |->
                    IF g \in Siblings(f) /\ status[g] \in {"dirty", "saving"}
                       THEN "none" ELSE status[g]]
    /\ timer' = TRUE
    /\ cleared' = [cleared EXCEPT ![f] = TRUE]
    /\ disturbed' = TRUE
    /\ UNCHANGED <<lastSent, queued, canonical, wire, server, faults>>
    /\ Rendered([text EXCEPT ![f] = Blank])
-----------------------------------------------------------------------------
Answer(n, a) == IF flight # NoFlight /\ flight.n = n /\ flight.answer = NoAnswer
                   THEN flight' = [flight EXCEPT !.answer = a]
                   ELSE UNCHANGED flight

AsUpsert(body) == [kind |-> "resort", vals |-> body.vals, srcs |-> body.srcs,
                   live |-> "keep"]

(* The schema has no parent object without one of its leaves.              *)
WholeParents(body) == \A f \in DOMAIN body.vals : Siblings(f) \subseteq DOMAIN body.vals

(* Nor a mode of a field that has no source.                               *)
ModesSourced(body, merged) == \A f \in DOMAIN body.modes : merged.srcs[f] # NoHash

(* The server handles the next PUT.  An accepted one is answered with the  *)
(* resort it left.                                                         *)
ServerHandles ==
    /\ inbox # << >>
    /\ LET put == Head(inbox)
           merged == MergeContent(server.content, AsUpsert(put.body))
       IN  IF /\ WholeParents(put.body) /\ ModesSourced(put.body, merged)
              /\ ResortVerdict(server.content, AsUpsert(put.body)) = "ok"
              THEN /\ server' = [content |-> merged,
                                 modes |-> [f \in ModeFields |->
                                              IF f \in DOMAIN put.body.modes
                                                 THEN put.body.modes[f]
                                                 ELSE server.modes[f]]]
                   /\ Answer(put.n, merged)
              ELSE /\ Answer(put.n, Failed)
                   /\ UNCHANGED server
    /\ inbox' = Tail(inbox)
    /\ UNCHANGED <<draft, lastSent, status, rev, timer, queued, editor, sent, history>>

(* The client gets an error, whether the PUT was applied, will be, or      *)
(* never is.                                                               *)
ConnectionLost ==
    /\ faults < MaxFaults
    /\ flight # NoFlight
    /\ ~flight.aborted /\ flight.answer # Failed
    /\ flight' = [flight EXCEPT !.answer = Failed]
    /\ faults' = faults + 1 /\ disturbed' = TRUE
    /\ UNCHANGED <<draft, lastSent, status, rev, timer, queued, editor, wire, server,
                   cleared>>

(* A PUT nobody waits for any more may never reach the handler.            *)
Vanish ==
    /\ inbox # << >>
    /\ flight # NoFlight /\ flight.n = Head(inbox).n =>
          flight.aborted \/ flight.answer = Failed
    /\ inbox' = Tail(inbox)
    /\ UNCHANGED <<store, editor, sent, server, history>>
-----------------------------------------------------------------------------
(* Mutant: what happened meanwhile is forgotten.                           *)
FinallyAsIs == /\ flight' = NoFlight
               /\ queued' = FALSE
               /\ UNCHANGED <<timer, rev, wire, server, history>>

(* The finally block: what happened meanwhile is flushed later.            *)
Finally == /\ flight' = NoFlight
           /\ queued' = FALSE
           /\ timer' = (timer \/ queued \/ rev # flight.rev)
           /\ UNCHANGED <<rev, wire, server, history>>

(* Mutant: the revision is not compared.                                   *)
SettleSuccessAnyRevision ==
    /\ flight # NoFlight
    /\ ~flight.aborted /\ flight.answer \notin {NoAnswer, Failed}
    /\ canonical' = flight.answer
    /\ draft' = Nothing /\ lastSent' = Nothing
    /\ status' = Mark("saved")
    /\ Rendered(text)
    /\ Finally

(* Mutant: an old answer marks the fields edited since as saved.           *)
SettleSuccessMarking ==
    /\ flight # NoFlight
    /\ ~flight.aborted /\ flight.answer \notin {NoAnswer, Failed}
    /\ canonical' = flight.answer
    /\ status' = Mark("saved")
    /\ IF rev = flight.rev
          THEN draft' = Nothing /\ lastSent' = Nothing
          ELSE lastSent' = flight.draft /\ UNCHANGED draft
    /\ Rendered(text)
    /\ Finally

(* The PUT succeeded.  If nothing was edited meanwhile the draft is done,  *)
(* else it stays and what was sent becomes the base of the next body.  The *)
(* response becomes the cached resort, and the editor renders it before    *)
(* the next keystroke.                                                     *)
SettleSuccess ==
    /\ flight # NoFlight
    /\ ~flight.aborted /\ flight.answer \notin {NoAnswer, Failed}
    /\ canonical' = flight.answer
    /\ IF rev = flight.rev
          THEN draft' = Nothing /\ lastSent' = Nothing /\ status' = Mark("saved")
          ELSE lastSent' = flight.draft /\ UNCHANGED <<draft, status>>
    /\ Rendered(text)
    /\ Finally

(* The AbortError of a PUT that was cleared under way.                     *)
SettleAbort ==
    /\ flight # NoFlight
    /\ flight.aborted
    /\ status' = Mark("dirty")
    /\ UNCHANGED <<draft, lastSent, editor>>
    /\ Finally

SettleError ==
    /\ flight # NoFlight
    /\ ~flight.aborted /\ flight.answer = Failed
    /\ status' = IF rev = flight.rev THEN Mark("save-failed") ELSE status
    /\ UNCHANGED <<draft, lastSent, editor>>
    /\ Finally

Settle == SettleSuccess \/ SettleAbort \/ SettleError

Next == \/ \E f \in Fields : \/ \E raw \in Numerals : SetFieldValue(f, raw)
                             \/ ClearFieldValue(f)
        \/ \E f \in ModeFields : ToggleMode(f)
        \/ TimerFires \/ ModEnter
        \/ ServerHandles \/ ConnectionLost \/ Vanish
        \/ Settle

Spec == Init /\ [][Next]_vars

(* The browser runs due timers and settled promises; the server handles    *)
(* what it received.                                                       *)
FairSpec == Spec /\ WF_vars(TimerFires) /\ WF_vars(ServerHandles \/ Vanish)
                 /\ WF_vars(Settle)
-----------------------------------------------------------------------------
TypeOK ==
    /\ draft \in Draft /\ lastSent \in Draft
    /\ status \in [Fields -> Statuses]
    /\ rev \in 0..MaxRev /\ sent \in Nat /\ faults \in Nat
    /\ timer \in BOOLEAN /\ queued \in BOOLEAN /\ disturbed \in BOOLEAN
    /\ flight # NoFlight => flight \in InFlight
    /\ canonical \in Stored
    /\ inbox \in Seq(Put)
    /\ server \in Server
    /\ cleared \in [Fields -> BOOLEAN]
    /\ text \in [Fields -> Numerals \cup {Blank}]

(* A field reported as saved reads as the server holds it, its mode        *)
(* included, and not as some earlier PUT did.                              *)
SavedMeansStored ==
    \A f \in Fields : status[f] = "saved" =>
        /\ Shown(f) = server.content.vals[f]
        /\ f \in DOMAIN draft.modes => draft.modes[f] = server.modes[f]

(* Whatever answers come in and whichever sibling is cleared: an input     *)
(* that the analyst emptied stays empty, although the row falls back to    *)
(* the stored value ("the user can't even hold the field blank to start    *)
(* over"); one that holds a plainly written number shows what the row      *)
(* stands for; and any other text is left as it was typed, and denotes     *)
(* what will be sent while the draft has an edit of the field.             *)
InputIsTheAnalysts ==
    \A f \in Fields :
        /\ text[f] = Blank <=> cleared[f]
        /\ ~cleared[f] =>
              \/ text[f] = AsText(Shown(f))
              \/ /\ text[f].as # Plain
                 /\ f \in DOMAIN draft.srcs => text[f].num = draft.vals[f]

(* An answer does not part an input from its row: if the text, however it  *)
(* is written, denotes the row's value when the answer comes in, it still  *)
(* does after.  Only clearing a sibling does that: the edit is dropped     *)
(* from the draft, and a text like 155.0 stays although it is neither to   *)
(* be sent nor stored.                                                     *)
Denotes(f) == text[f] # Blank /\ text[f].num = Shown(f)

AnswersKeepInputs ==
    [][rev' = rev => \A f \in Fields : Denotes(f) => Denotes(f)']_vars

(* An edit leaves the draft when the server holds it, when a newer edit    *)
(* replaces it, or when the analyst clears the field or a sibling of it;   *)
(* never because the answer to an older PUT came in.                       *)
EditsKeptUntilStored ==
    [][rev' = rev =>
         /\ \A f \in DOMAIN draft.srcs \ DOMAIN draft'.srcs :
               draft.vals[f] = server.content.vals[f]
         /\ \A f \in DOMAIN draft.modes \ DOMAIN draft'.modes :
               draft.modes[f] = server.modes[f]]_vars

(* A value the analyst cleared is not on its way to the cached resort:     *)
(* "so the response doesn't prepopulate canonical with the soon-to-be-     *)
(* cleared value".                                                         *)
ClearedIsNotAwaited ==
    flight # NoFlight /\ ~flight.aborted =>
        \A f \in DOMAIN flight.body.srcs : ~cleared[f]

(* While nothing is cleared and no connection breaks, the server refuses   *)
(* no PUT: edits made at any moment of a PUT's round trip, of one leaf or  *)
(* of its siblings, make bodies that pair each changed leaf, and no other, *)
(* with its source.                                                        *)
UndisturbedNeverRefused ==
    ~disturbed => \A f \in Fields : status[f] # "save-failed"

(* Every edit is saved in the end, or reported as failed, or cleared.      *)
DraftsSettle ==
    \A f \in Fields : status[f] \in {"dirty", "saving"} ~>
                         status[f] \notin {"dirty", "saving"}
=============================================================================
