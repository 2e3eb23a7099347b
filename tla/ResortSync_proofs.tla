------------------------- MODULE ResortSync_proofs -------------------------
(***************************************************************************)
(* Theorems about ResortDraft that relate the client's drafts and what was *)
(* sent to what the server holds: a field reported as saved is stored, no  *)
(* edit leaves the draft before it is stored, and undisturbed edits are    *)
(* never refused.  The typing and the inputs are in ResortDraft_proofs.    *)
(* All four rest on the edits being told apart (FreshValues): a value      *)
(* that returns to what was last sent is the finding of the run            *)
(* resort_revert.                                                          *)
(***************************************************************************)
EXTENDS ResortDraft_proofs

(* The PUTs the server has still to handle.                                *)
Puts == {inbox[i] : i \in 1..Len(inbox)}
NoSource(f) == \A p \in Puts : f \notin DOMAIN p.body.srcs
NoMode(f) == \A p \in Puts : f \notin DOMAIN p.body.modes

Val(f) == server.content.vals[f]

(* A value of an edit still to come is nowhere.                            *)
Old(vals) == \A f \in DOMAIN vals : vals[f] \notin (rev + 1)..MaxRev

Aged ==
    /\ Old(draft.vals) /\ Old(lastSent.vals) /\ Old(canonical.vals)
    /\ Old(server.content.vals)
    /\ flight # NoFlight => Old(flight.draft.vals)
    /\ \A p \in Puts : Old(p.body.vals)

(* PUTs are numbered; the one in flight is the last.                       *)
Numbered ==
    /\ \A i \in 1..Len(inbox) :
        /\ inbox[i].n <= sent
        /\ i < Len(inbox) => inbox[i].n < sent
        /\ flight # NoFlight /\ inbox[i].n = sent => inbox[i].body = flight.body
    /\ flight # NoFlight => flight.n = sent

Extends(old, new) == \A f \in DOMAIN old : f \in DOMAIN new /\ new[f] = old[f]

(* It was made from the draft, which has changed only with the revision.   *)
Made ==
    /\ DOMAIN draft.srcs \subseteq DOMAIN draft.vals
    /\ flight # NoFlight =>
        /\ flight.rev <= rev
        /\ flight.rev = rev => draft = flight.draft
        /\ Extends(flight.body.vals, flight.draft.vals)
        /\ Extends(flight.body.modes, flight.draft.modes)

(* What a PUT leaves out the server has; once it is answered, all of it.   *)
Carried ==
    flight # NoFlight =>
        /\ flight.answer = NoAnswer =>
            /\ \A f \in DOMAIN flight.draft.vals \ DOMAIN flight.body.vals :
                  Val(f) = flight.draft.vals[f] /\ NoSource(f)
            /\ \A f \in DOMAIN flight.draft.modes \ DOMAIN flight.body.modes :
                  server.modes[f] = flight.draft.modes[f] /\ NoMode(f)
        /\ flight.answer \notin {NoAnswer, Failed} =>
            /\ inbox = << >> /\ flight.answer = server.content
            /\ \A f \in DOMAIN flight.draft.vals : Val(f) = flight.draft.vals[f]
            /\ \A f \in DOMAIN flight.draft.modes : server.modes[f] = flight.draft.modes[f]

(* A parent that is as it was sent is as the server has it.                *)
Unchanged(f) == Siblings(f) \cap New(draft.vals, lastSent.vals) = {}

Held(f) == canonical.vals[f] = Val(f) /\ NoSource(f)

Based ==
    /\ \A f \in DOMAIN draft.vals :
        Unchanged(f) => draft.vals[f] = Val(f) /\ Held(f)
    /\ flight # NoFlight =>
        \A f \in DOMAIN draft.srcs :
            f \notin New(draft.vals, lastSent.vals) => f \notin New(draft.vals, flight.draft.vals)

(* Modes only accumulate, until all of them are saved.                     *)
ModesBased ==
    /\ Extends(lastSent.modes, draft.modes)
    /\ flight # NoFlight => /\ Extends(lastSent.modes, flight.draft.modes)
                            /\ Extends(flight.draft.modes, draft.modes)
    /\ \A f \in DOMAIN lastSent.modes :
        server.modes[f] = lastSent.modes[f] /\ NoMode(f)

(* What a status says.                                                     *)
Awaiting ==
    \A f \in Fields \ DOMAIN draft.srcs : status[f] \in {"dirty", "saving"} =>
        /\ f \in DOMAIN draft.modes
        /\ f \in DOMAIN lastSent.modes => Held(f)

Saved ==
    \A f \in Fields : status[f] = "saved" =>
        /\ Held(f) /\ Shown(f) = Val(f)
        /\ f \in DOMAIN draft.srcs => f \notin New(draft.vals, lastSent.vals)
        /\ f \in DOMAIN draft.modes => f \in DOMAIN lastSent.modes

Sync == /\ Aged /\ Numbered /\ Made /\ Carried /\ Based /\ ModesBased
        /\ Awaiting /\ Saved
-----------------------------------------------------------------------------
(* The queue.                                                              *)
LEMMA PutsTail ==
  ASSUME Typed, inbox # << >>, inbox' = Tail(inbox)
  PROVE  /\ Head(inbox) \in Puts /\ Puts' \subseteq Puts
         /\ Len(inbox) \in Nat \ {0} /\ Len(inbox') = Len(inbox) - 1
         /\ Head(inbox) = inbox[1]
         /\ \A i \in 1..Len(inbox') : inbox'[i] = inbox[i + 1]
<1>1. inbox \in Seq(Put)
  BY DEF Typed
<1>2. /\ Len(inbox) \in Nat \ {0} /\ Len(inbox') = Len(inbox) - 1
      /\ Head(inbox) = inbox[1]
      /\ \A i \in 1..Len(inbox') : inbox'[i] = inbox[i + 1]
  BY <1>1, EmptySeq, HeadTailProperties
<1>3. Head(inbox) \in Puts
  BY <1>2 DEF Puts
<1>4. Puts' \subseteq Puts
  <2>1. \A i \in 1..Len(inbox') : i + 1 \in 1..Len(inbox) /\ inbox'[i] = inbox[i + 1]
    BY <1>2
  <2>. QED  BY <2>1 DEF Puts
<1>. QED  BY <1>2, <1>3, <1>4

LEMMA PutsAppend ==
  ASSUME Typed, NEW put, inbox' = Append(inbox, put)
  PROVE  /\ Puts' = Puts \cup {put}
         /\ Len(inbox) \in Nat /\ Len(inbox') = Len(inbox) + 1
         /\ inbox'[Len(inbox) + 1] = put
         /\ \A i \in 1..Len(inbox) : inbox'[i] = inbox[i]
<1>1. inbox \in Seq(Put)
  BY DEF Typed
<1>2. /\ Len(inbox) \in Nat /\ Len(inbox') = Len(inbox) + 1
      /\ inbox'[Len(inbox) + 1] = put
      /\ \A i \in 1..Len(inbox) : inbox'[i] = inbox[i]
  BY <1>1
<1>3. Puts' = Puts \cup {put}
  <2>1. 1..Len(inbox') = 1..Len(inbox) \cup {Len(inbox) + 1}
    BY <1>2
  <2>. QED  BY <2>1, <1>2 DEF Puts
<1>. QED  BY <1>2, <1>3

LEMMA NoPuts == ASSUME inbox = << >> PROVE Puts = {}
BY DEF Puts

(* What a PUT does to the server when it is accepted.                      *)
LEMMA Accepted ==
  ASSUME Typed, NEW body \in Draft, ResortVerdict(server.content, AsUpsert(body)) = "ok",
         NEW f \in Fields
  PROVE  LET merged == MergeContent(server.content, AsUpsert(body))
         IN  /\ f \in DOMAIN body.vals => merged.vals[f] = body.vals[f]
             /\ f \notin DOMAIN body.vals => merged.vals[f] = Val(f)
             /\ f \notin DOMAIN body.srcs => merged.vals[f] = Val(f)
<1> DEFINE up == AsUpsert(body)
           merged == MergeContent(server.content, up)
<1>1. /\ up.vals = body.vals /\ up.srcs = body.srcs /\ up.live = "keep"
  BY DEF AsUpsert
<1>2. Paired(server.content, up, f)
  BY DEF ResortVerdict
<1>3. merged.vals[f] = IF f \in DOMAIN body.vals THEN body.vals[f] ELSE Val(f)
  BY <1>1 DEF MergeContent, Val
<1>4. merged.vals[f] # Absent
  <2>1. body.vals \in [DOMAIN body.vals -> Values]
    BY DraftIs, PartIs
  <2>2. Val(f) \in Values
    BY StoredIs DEF Typed, Server, Val
  <2>. QED  BY <1>3, <2>1, <2>2, AbsenceAssumption
<1>5. f \notin DOMAIN body.srcs => merged.vals[f] = Val(f)
  BY <1>1, <1>2, <1>4 DEF Paired, Val
<1>. QED  BY <1>3, <1>5

(* The PUT in flight, its answer aside.                                    *)
SameFlight ==
    flight' # NoFlight =>
        /\ flight # NoFlight
        /\ flight'.n = flight.n /\ flight'.rev = flight.rev
        /\ flight'.draft = flight.draft /\ flight'.body = flight.body

(* Steps of the server and the wire.                                       *)
LEMMA WireSync ==
  ASSUME Typed, Typed', Sync, SameFlight, Puts' \subseteq Puts,
         UNCHANGED <<draft, lastSent, status, rev, canonical, sent>>,
         Old(server.content.vals)',
         \A f \in Fields : NoSource(f) => Val(f)' = Val(f),
         \A f \in ModeFields : NoMode(f) => server'.modes[f] = server.modes[f]
  PROVE  /\ \A f : NoSource(f) => NoSource(f)'
         /\ \A f : NoMode(f) => NoMode(f)'
         /\ Aged' /\ Made' /\ Based' /\ ModesBased' /\ Awaiting' /\ Saved'
<1>1. \A f : NoSource(f) => NoSource(f)'
  BY DEF NoSource
<1>2. \A f : NoMode(f) => NoMode(f)'
  BY DEF NoMode
<1>3. \A f \in Fields : Held(f) => Held(f)' /\ Val(f)' = Val(f)
  BY <1>1 DEF Held
<1>4. /\ DOMAIN draft.vals \subseteq Fields /\ DOMAIN lastSent.modes \subseteq ModeFields
      /\ DOMAIN draft.srcs \subseteq Fields
  BY DraftIs, PartIs DEF Typed
<1>5. Aged'
  BY DEF Sync, Aged, Old, SameFlight
<1>6. Made'
  BY DEF Sync, Made, SameFlight, Extends
<1>7. Based'
  BY <1>3, <1>4 DEF Sync, Based, SameFlight, Unchanged, New
<1>8. ModesBased'
  BY <1>2, <1>4 DEF Sync, ModesBased, SameFlight, Extends
<1>9. Awaiting'
  BY <1>3 DEF Sync, Awaiting
<1>10. Saved'
  BY <1>3 DEF Sync, Saved, Shown, New
<1>. QED  BY <1>1, <1>2, <1>5, <1>6, <1>7, <1>8, <1>9, <1>10

LEMMA AnswerSame ==
  ASSUME Typed, NEW n, NEW a, Answer(n, a)
  PROVE  /\ SameFlight
         /\ flight' # NoFlight =>
              flight'.answer = IF flight.n = n /\ flight.answer = NoAnswer
                                  THEN a ELSE flight.answer
<1>1. CASE flight # NoFlight /\ flight.n = n /\ flight.answer = NoAnswer
  <2>1. flight \in InFlight /\ flight' = [flight EXCEPT !.answer = a]
    BY <1>1 DEF Typed, Answer
  <2>2. /\ flight'.answer = a /\ flight'.n = flight.n /\ flight'.rev = flight.rev
        /\ flight'.draft = flight.draft /\ flight'.body = flight.body
    BY <2>1 DEF InFlight
  <2>. QED  BY <1>1, <2>2 DEF SameFlight
<1>2. CASE ~(flight # NoFlight /\ flight.n = n /\ flight.answer = NoAnswer)
  BY <1>2 DEF Answer, SameFlight
<1>. QED  BY <1>1, <1>2

(* The PUT that leaves the queue is the first; if it is the one in flight  *)
(* the queue is empty thereafter.                                          *)
LEMMA TailNumbered ==
  ASSUME Typed, Sync, SameFlight, inbox # << >>, inbox' = Tail(inbox), sent' = sent
  PROVE  /\ Numbered'
         /\ flight # NoFlight /\ Head(inbox).n = flight.n =>
              inbox' = << >> /\ Head(inbox).body = flight.body
<1>1. /\ Len(inbox) \in Nat \ {0} /\ Len(inbox') = Len(inbox) - 1
      /\ Head(inbox) = inbox[1]
      /\ \A i \in 1..Len(inbox') : inbox'[i] = inbox[i + 1]
  BY PutsTail
<1>2. Numbered
  BY DEF Sync
<1>3. \A i \in 1..Len(inbox') : /\ i + 1 \in 1..Len(inbox)
                               /\ i < Len(inbox') => i + 1 < Len(inbox)
  BY <1>1
<1>4. Numbered'
  BY <1>1, <1>2, <1>3 DEF Numbered, SameFlight
<1>5. ASSUME flight # NoFlight, Head(inbox).n = flight.n
      PROVE  inbox' = << >> /\ Head(inbox).body = flight.body
  <2>1. 1 \in 1..Len(inbox) /\ inbox[1].n = sent /\ sent \in Nat
    BY <1>1, <1>2, <1>5 DEF Numbered, Typed
  <2>2. ~(1 < Len(inbox)) /\ inbox[1].body = flight.body
    BY <2>1, <1>2, <1>5 DEF Numbered
  <2>3. Len(inbox') = 0
    BY <2>2, <1>1
  <2>4. inbox' \in Seq(Put)
    BY HeadTailProperties DEF Typed
  <2>. QED  BY <2>2, <2>3, <2>4, <1>1, EmptySeq
<1>. QED  BY <1>4, <1>5

LEMMA ServerHandlesSync == ASSUME Typed, Typed', Sync, ServerHandles PROVE Sync'
<1> DEFINE put == Head(inbox)
           body == put.body
           merged == MergeContent(server.content, AsUpsert(body))
           modes == [f \in ModeFields |-> IF f \in DOMAIN body.modes
                                          THEN body.modes[f] ELSE server.modes[f]]
           accepted == ResortVerdict(server.content, AsUpsert(body)) = "ok"
<1>1. /\ inbox # << >> /\ inbox' = Tail(inbox)
      /\ \/ /\ accepted
            /\ server' = [content |-> merged, modes |-> modes] /\ Answer(put.n, merged)
         \/ Answer(put.n, Failed) /\ UNCHANGED server
      /\ UNCHANGED <<draft, lastSent, status, rev, canonical, sent>>
  BY DEF ServerHandles, editor
<1>2. put \in Puts /\ Puts' \subseteq Puts
  BY <1>1, PutsTail
<1>3. put \in Put
  BY <1>1, HeadTailProperties DEF Typed
<1>4. body \in Draft
  BY <1>3 DEF Put
<1>5. accepted => \A f \in Fields :
        /\ f \in DOMAIN body.vals => merged.vals[f] = body.vals[f]
        /\ f \notin DOMAIN body.vals => merged.vals[f] = Val(f)
        /\ f \notin DOMAIN body.srcs => merged.vals[f] = Val(f)
  BY <1>4, Accepted
<1>6. merged \in Stored
  BY <1>4, MergedIsStored DEF Typed, Server
<1>7. merged \notin {NoAnswer, Failed} /\ NoAnswer # Failed /\ DOMAIN merged.vals = Fields
  BY <1>6, StoredIs, AnswersAssumption DEF Stored
<1>8. \A f \in ModeFields : modes[f] = IF f \in DOMAIN body.modes
                                       THEN body.modes[f] ELSE server.modes[f]
  OBVIOUS
<1> HIDE DEF merged, modes, accepted
<1>9. /\ SameFlight
      /\ flight' # NoFlight =>
           \/ flight'.answer = flight.answer /\ ~(flight.n = put.n /\ flight.answer = NoAnswer)
           \/ flight.n = put.n /\ flight.answer = NoAnswer /\ flight'.answer \in {merged, Failed}
      /\ flight' # NoFlight /\ flight.n = put.n /\ flight.answer = NoAnswer
           /\ flight'.answer # Failed
         => accepted /\ server' = [content |-> merged, modes |-> modes]
  <2>1. CASE accepted /\ server' = [content |-> merged, modes |-> modes] /\ Answer(put.n, merged)
    BY <2>1, AnswerSame
  <2>2. CASE Answer(put.n, Failed)
    BY <2>2, AnswerSame
  <2>. QED  BY <1>1, <2>1, <2>2
<1>10. \/ accepted /\ server'.content = merged /\ server'.modes = modes
       \/ server' = server
  BY <1>1
<1>11. \A f \in Fields : NoSource(f) => Val(f)' = Val(f)
  BY <1>2, <1>5, <1>10 DEF NoSource, Val
<1>12. \A f \in ModeFields : NoMode(f) => server'.modes[f] = server.modes[f]
  BY <1>2, <1>8, <1>10 DEF NoMode
<1>13. Old(server.content.vals)'
  <2>1. Old(server.content.vals) /\ Old(body.vals)
    BY <1>2 DEF Sync, Aged
  <2>2. DOMAIN server.content.vals = Fields
    BY StoredIs DEF Typed, Server
  <2>. QED  BY <1>1, <1>5, <1>7, <1>10, <2>1, <2>2 DEF Old, Val
<1>14. /\ \A f : NoSource(f) => NoSource(f)'
       /\ \A f : NoMode(f) => NoMode(f)'
       /\ Aged' /\ Made' /\ Based' /\ ModesBased' /\ Awaiting' /\ Saved'
  BY <1>1, <1>2, <1>9, <1>11, <1>12, <1>13, WireSync
<1>15. /\ Numbered'
       /\ flight # NoFlight /\ put.n = flight.n => inbox' = << >> /\ body = flight.body
  BY <1>1, <1>9, TailNumbered
<1>16. Carried'
  <2> SUFFICES ASSUME flight' # NoFlight
               PROVE  /\ flight'.answer = NoAnswer =>
                          /\ \A f \in DOMAIN flight.draft.vals \ DOMAIN flight.body.vals :
                                Val(f)' = flight.draft.vals[f] /\ NoSource(f)'
                          /\ \A f \in DOMAIN flight.draft.modes \ DOMAIN flight.body.modes :
                                server'.modes[f] = flight.draft.modes[f] /\ NoMode(f)'
                      /\ flight'.answer \notin {NoAnswer, Failed} =>
                          /\ inbox' = << >> /\ flight'.answer = server'.content
                          /\ \A f \in DOMAIN flight.draft.vals :
                                Val(f)' = flight.draft.vals[f]
                          /\ \A f \in DOMAIN flight.draft.modes :
                                server'.modes[f] = flight.draft.modes[f]
    BY <1>9 DEF Carried, SameFlight
  <2>1. flight # NoFlight /\ flight \in InFlight
    BY <1>9 DEF SameFlight, Typed
  <2>2. flight.draft \in Draft
    BY <2>1 DEF InFlight
  <2>3. DOMAIN flight.draft.vals \subseteq Fields /\ DOMAIN flight.draft.modes \subseteq ModeFields
    BY <2>2, DraftIs, PartIs
  <2>4. flight.answer \in {NoAnswer, Failed}
    BY <1>1, <2>1 DEF Sync, Carried
  <2>5. flight.answer = NoAnswer =>
          /\ \A f \in DOMAIN flight.draft.vals \ DOMAIN flight.body.vals :
                Val(f)' = flight.draft.vals[f] /\ NoSource(f)'
          /\ \A f \in DOMAIN flight.draft.modes \ DOMAIN flight.body.modes :
                server'.modes[f] = flight.draft.modes[f] /\ NoMode(f)'
    BY <1>11, <1>12, <1>14, <2>1, <2>3 DEF Sync, Carried
  <2>6. CASE flight'.answer = NoAnswer
    BY <1>7, <1>9, <2>5, <2>6
  <2>7. CASE flight'.answer \notin {NoAnswer, Failed}
    <3>1. /\ flight.n = put.n /\ flight.answer = NoAnswer /\ flight'.answer = merged
          /\ accepted /\ server'.content = merged /\ server'.modes = modes
      BY <1>9, <2>4, <2>7
    <3>2. inbox' = << >> /\ body = flight.body
      BY <1>15, <2>1, <3>1
    <3>3. Extends(body.vals, flight.draft.vals) /\ Extends(body.modes, flight.draft.modes)
      BY <2>1, <3>2 DEF Sync, Made
    <3>4. \A f \in DOMAIN flight.draft.vals : Val(f)' = flight.draft.vals[f]
      BY <1>5, <2>3, <2>5, <3>1, <3>2, <3>3 DEF Extends, Val
    <3>5. \A f \in DOMAIN flight.draft.modes : server'.modes[f] = flight.draft.modes[f]
      BY <1>8, <2>3, <2>5, <3>1, <3>2, <3>3 DEF Extends
    <3>. QED  BY <2>7, <3>1, <3>2, <3>4, <3>5
  <2>. QED  BY <2>6, <2>7
<1>. QED  BY <1>14, <1>15, <1>16 DEF Sync

LEMMA ConnectionLostSync == ASSUME Typed, Typed', Sync, ConnectionLost PROVE Sync'
<1>1. /\ flight # NoFlight /\ flight' = [flight EXCEPT !.answer = Failed]
      /\ UNCHANGED <<draft, lastSent, status, rev, canonical, sent, inbox, server>>
  BY DEF ConnectionLost, editor, wire
<1>2. flight \in InFlight
  BY <1>1 DEF Typed
<1>3. SameFlight /\ flight'.answer = Failed
  BY <1>1, <1>2 DEF InFlight, SameFlight
<1>4. Puts' = Puts
  BY <1>1 DEF Puts
<1>5. /\ \A f \in Fields : NoSource(f) => Val(f)' = Val(f)
      /\ \A f \in ModeFields : NoMode(f) => server'.modes[f] = server.modes[f]
      /\ Old(server.content.vals)'
  BY <1>1 DEF Val, Old, Sync, Aged
<1>6. Aged' /\ Made' /\ Based' /\ ModesBased' /\ Awaiting' /\ Saved'
  BY <1>1, <1>3, <1>4, <1>5, WireSync
<1>7. Numbered'
  BY <1>1, <1>3 DEF Sync, Numbered, SameFlight
<1>8. Carried'
  BY <1>3, AnswersAssumption DEF Carried
<1>. QED  BY <1>6, <1>7, <1>8 DEF Sync

LEMMA VanishSync == ASSUME Typed, Typed', Sync, Vanish PROVE Sync'
<1>1. /\ inbox # << >> /\ inbox' = Tail(inbox)
      /\ UNCHANGED <<draft, lastSent, status, rev, flight, canonical, sent, server>>
  BY DEF Vanish, store, editor
<1>2. SameFlight
  BY <1>1 DEF SameFlight
<1>3. Puts' \subseteq Puts
  BY <1>1, PutsTail
<1>4. /\ \A f \in Fields : NoSource(f) => Val(f)' = Val(f)
      /\ \A f \in ModeFields : NoMode(f) => server'.modes[f] = server.modes[f]
      /\ Old(server.content.vals)'
  BY <1>1 DEF Val, Old, Sync, Aged
<1>5. /\ \A f : NoSource(f) => NoSource(f)'
      /\ \A f : NoMode(f) => NoMode(f)'
      /\ Aged' /\ Made' /\ Based' /\ ModesBased' /\ Awaiting' /\ Saved'
  BY <1>1, <1>2, <1>3, <1>4, WireSync
<1>6. Numbered'
  BY <1>1, <1>2, TailNumbered
<1>7. Carried'
  BY <1>1, <1>5 DEF Sync, Carried, Val
<1>. QED  BY <1>5, <1>6, <1>7 DEF Sync

LEMMA SameSync ==
  ASSUME Typed, Typed', Sync,
         UNCHANGED <<draft, lastSent, status, rev, flight, canonical, sent, inbox, server>>
  PROVE  Sync'
<1>1. Puts' = Puts /\ SameFlight
  BY DEF Puts, SameFlight
<1>2. /\ \A f \in Fields : NoSource(f) => Val(f)' = Val(f)
      /\ \A f \in ModeFields : NoMode(f) => server'.modes[f] = server.modes[f]
      /\ Old(server.content.vals)'
  BY DEF Val, Old, Sync, Aged
<1>3. /\ \A f : NoSource(f) => NoSource(f)'
      /\ \A f : NoMode(f) => NoMode(f)'
      /\ Aged' /\ Made' /\ Based' /\ ModesBased' /\ Awaiting' /\ Saved'
  BY <1>1, <1>2, WireSync
<1>4. Numbered' /\ Carried'
  BY <1>3 DEF Sync, Numbered, Carried, Val
<1>. QED  BY <1>3, <1>4 DEF Sync

(* What a body carries.                                                    *)
LEMMA DiffIs ==
  ASSUME NEW d \in Draft, NEW base
  PROVE  /\ DOMAIN Diff(d, base).vals = NewParents(d, base)
         /\ DOMAIN Diff(d, base).srcs = DOMAIN d.srcs \cap New(d.vals, base.vals)
         /\ DOMAIN Diff(d, base).modes = New(d.modes, base.modes)
         /\ Extends(Diff(d, base).vals, d.vals)
         /\ Extends(Diff(d, base).modes, d.modes)
<1>1. /\ NewParents(d, base) \subseteq DOMAIN d.vals
      /\ New(d.modes, base.modes) \subseteq DOMAIN d.modes
  BY DEF NewParents, New
<1>. QED  BY <1>1 DEF Diff, Restrict, Extends

LEMMA Own == ASSUME NEW f \in Fields PROVE f \in Siblings(f)
BY DEF Siblings

(* A parent that is as it was sent is not in the next body.                *)
LEMMA UnchangedStays ==
  ASSUME NEW f \in DOMAIN draft.vals
  PROVE  f \notin NewParents(draft, lastSent) <=> Unchanged(f)
BY DEF NewParents, Unchanged

(* Nothing to send: the server has it all.                                 *)
LEMMA FlushNothingSync ==
  ASSUME Typed, Typed', Sync, Diff(draft, lastSent) = Nothing, status' = Mark("saved"),
         flight = NoFlight,
         UNCHANGED <<draft, lastSent, rev, flight, canonical, sent, inbox, server>>
  PROVE  Sync'
<1>1. draft \in Draft /\ DOMAIN draft.vals \subseteq Fields /\ DOMAIN draft.srcs \subseteq DOMAIN draft.vals
  BY DraftIs, PartIs DEF Typed, Sync, Made
<1>2. NewParents(draft, lastSent) = {} /\ New(draft.modes, lastSent.modes) = {}
  <2>1. DOMAIN Nothing.vals = {} /\ DOMAIN Nothing.modes = {}
    BY DEF Nothing
  <2>. QED  BY <2>1, <1>1, DiffIs
<1>3. \A f \in DOMAIN draft.vals : /\ draft.vals[f] = Val(f) /\ Held(f)
                                   /\ f \notin New(draft.vals, lastSent.vals)
  <2> SUFFICES ASSUME NEW f \in DOMAIN draft.vals
               PROVE  /\ draft.vals[f] = Val(f) /\ Held(f)
                      /\ f \notin New(draft.vals, lastSent.vals)
    OBVIOUS
  <2>1. Unchanged(f)
    BY <1>2, UnchangedStays
  <2>. QED  BY <2>1, <1>1, Own DEF Sync, Based, Unchanged
<1>4. \A f \in DOMAIN draft.modes : f \in DOMAIN lastSent.modes
  BY <1>2 DEF New
<1>5. Puts' = Puts
  BY DEF Puts
<1>6. \A f \in Fields : status'[f] \notin {"dirty", "saving"}
                        /\ (status'[f] = "saved" => status[f] \in {"dirty", "saving", "saved"})
  BY DEF Mark
<1>7. \A f : Held(f)' <=> Held(f)
  BY <1>5 DEF Held, NoSource, Val
<1>8. Awaiting'
  BY <1>6 DEF Awaiting
<1>9. Saved'
  <2> SUFFICES ASSUME NEW f \in Fields, status'[f] = "saved"
               PROVE  /\ Held(f) /\ Shown(f) = Val(f)
                      /\ f \in DOMAIN draft.srcs => f \notin New(draft.vals, lastSent.vals)
                      /\ f \in DOMAIN draft.modes => f \in DOMAIN lastSent.modes
    BY <1>7 DEF Saved, Shown, Val
  <2>1. CASE f \in DOMAIN draft.vals
    BY <2>1, <1>3, <1>4 DEF Shown
  <2>2. CASE f \notin DOMAIN draft.vals
    <3>1. f \notin DOMAIN draft.srcs
      BY <2>2, <1>1
    <3>2. Held(f)
      BY <3>1, <1>4, <1>6 DEF Sync, Awaiting, Saved
    <3>. QED  BY <2>2, <3>1, <3>2, <1>4 DEF Shown, Held
  <2>. QED  BY <2>1, <2>2
<1>10. Aged' /\ Numbered' /\ Made' /\ Carried' /\ Based' /\ ModesBased'
  <2>1. Aged' /\ Numbered'
    BY <1>5 DEF Sync, Aged, Old, Numbered
  <2>2. Made' /\ Carried'
    BY DEF Sync, Made, Carried
  <2>3. Based'
    BY <1>7 DEF Sync, Based, Unchanged, Val
  <2>4. ModesBased'
    BY <1>5 DEF Sync, ModesBased, NoMode
  <2>. QED  BY <2>1, <2>2, <2>3, <2>4
<1>. QED  BY <1>8, <1>9, <1>10 DEF Sync

(* A PUT goes out.                                                         *)
LEMMA FlushSendSync ==
  ASSUME Typed, Typed', Sync, flight = NoFlight, status' = Mark("saving"), sent' = sent + 1,
         flight' = [n |-> sent', rev |-> rev, draft |-> draft,
                    body |-> Diff(draft, lastSent), answer |-> NoAnswer, aborted |-> FALSE],
         inbox' = Append(inbox, [n |-> sent', body |-> Diff(draft, lastSent)]),
         UNCHANGED <<draft, lastSent, rev, canonical, server>>
  PROVE  Sync'
<1> DEFINE body == Diff(draft, lastSent)
           put == [n |-> sent', body |-> body]
<1>1. /\ flight'.n = sent' /\ flight'.rev = rev /\ flight'.draft = draft
      /\ flight'.body = body /\ flight'.answer = NoAnswer
      /\ put.n = sent' /\ put.body = body
  OBVIOUS
<1>2. /\ draft \in Draft /\ DOMAIN draft.vals \subseteq Fields
      /\ DOMAIN draft.srcs \subseteq DOMAIN draft.vals /\ DOMAIN draft.modes \subseteq ModeFields
  BY DraftIs, PartIs DEF Typed, Sync, Made
<1>3. /\ DOMAIN body.vals = NewParents(draft, lastSent)
      /\ DOMAIN body.srcs = DOMAIN draft.srcs \cap New(draft.vals, lastSent.vals)
      /\ DOMAIN body.modes = New(draft.modes, lastSent.modes)
      /\ Extends(body.vals, draft.vals) /\ Extends(body.modes, draft.modes)
  BY <1>2, DiffIs
<1>4. inbox' = Append(inbox, put)
  BY <1>1
<1> HIDE DEF body, put
<1>5. /\ Puts' = Puts \cup {put}
      /\ Len(inbox) \in Nat /\ Len(inbox') = Len(inbox) + 1
      /\ inbox'[Len(inbox) + 1] = put
      /\ \A i \in 1..Len(inbox) : inbox'[i] = inbox[i]
  BY <1>4, PutsAppend
<1>6. /\ \A f : NoSource(f) /\ f \notin DOMAIN body.srcs => NoSource(f)'
      /\ \A f : NoMode(f) /\ f \notin DOMAIN body.modes => NoMode(f)'
  BY <1>1, <1>5 DEF NoSource, NoMode
<1>7. \A f \in DOMAIN draft.vals : Unchanged(f) => /\ f \notin DOMAIN body.srcs
                                                    /\ draft.vals[f] = Val(f) /\ Held(f) /\ Held(f)'
  <2> SUFFICES ASSUME NEW f \in DOMAIN draft.vals, Unchanged(f)
               PROVE  /\ f \notin DOMAIN body.srcs
                      /\ draft.vals[f] = Val(f) /\ Held(f) /\ Held(f)'
    OBVIOUS
  <2>1. f \notin DOMAIN body.srcs
    BY <1>2, <1>3, Own DEF Unchanged
  <2>2. draft.vals[f] = Val(f) /\ Held(f)
    BY DEF Sync, Based
  <2>. QED  BY <2>1, <2>2, <1>6 DEF Held, Val
<1>8. \A f \in DOMAIN draft.modes \ DOMAIN body.modes :
        server.modes[f] = draft.modes[f] /\ NoMode(f)'
  <2> SUFFICES ASSUME NEW f \in DOMAIN draft.modes \ DOMAIN body.modes
               PROVE  server.modes[f] = draft.modes[f] /\ NoMode(f)'
    OBVIOUS
  <2>1. f \in DOMAIN lastSent.modes /\ lastSent.modes[f] = draft.modes[f]
    BY <1>3 DEF New
  <2>. QED  BY <2>1, <1>6 DEF Sync, ModesBased
<1>9. Aged'
  <2>1. Old(draft.vals) /\ Old(body.vals)
    BY <1>3 DEF Sync, Aged, Old, Extends
  <2>2. \A p \in Puts' : Old(p.body.vals)
    BY <2>1, <1>1, <1>5 DEF Sync, Aged
  <2>. QED  BY <2>1, <2>2, <1>1 DEF Sync, Aged, Old
<1>10. Numbered'
  <2>1. sent \in Nat /\ sent' = sent + 1
    BY DEF Typed
  <2>2. \A i \in 1..Len(inbox) : inbox[i].n \in Nat /\ inbox[i].n <= sent
    <3>1. \A i \in 1..Len(inbox) : inbox[i] \in Put
      BY DEF Typed
    <3>. QED  BY <3>1 DEF Sync, Numbered, Put
  <2>3. \A i \in 1..Len(inbox) : /\ inbox'[i].n < sent' /\ inbox'[i].n <= sent'
                                 /\ inbox'[i].n # sent'
    BY <2>1, <2>2, <1>5
  <2>4. 1..Len(inbox') = 1..Len(inbox) \cup {Len(inbox) + 1}
    BY <1>5
  <2>5. \A i \in 1..Len(inbox') :
          /\ inbox'[i].n <= sent'
          /\ i < Len(inbox') => inbox'[i].n < sent'
          /\ inbox'[i].n = sent' => inbox'[i].body = body
    <3> SUFFICES ASSUME NEW i \in 1..Len(inbox')
                 PROVE  /\ inbox'[i].n <= sent'
                        /\ i < Len(inbox') => inbox'[i].n < sent'
                        /\ inbox'[i].n = sent' => inbox'[i].body = body
      OBVIOUS
    <3>1. CASE i \in 1..Len(inbox)
      BY <3>1, <2>3
    <3>2. CASE i = Len(inbox) + 1
      <4>1. inbox'[i] = put /\ put.n = sent' /\ put.body = body /\ ~(i < Len(inbox'))
        BY <3>2, <1>1, <1>5
      <4>. QED  BY <4>1, <2>1
    <3>. QED  BY <3>1, <3>2, <2>4
  <2>. QED  BY <2>5, <1>1 DEF Numbered
<1>11. Made'
  <2>1. rev \in Nat
    BY BoundsAssumption DEF Typed
  <2>. QED  BY <2>1, <1>1, <1>2, <1>3 DEF Made, Extends
<1>12. Carried'
  <2>1. \A f \in DOMAIN draft.vals \ DOMAIN body.vals : Val(f)' = draft.vals[f] /\ NoSource(f)'
    BY <1>3, <1>7, UnchangedStays DEF Held, Val
  <2>. QED  BY <2>1, <1>1, <1>8 DEF Carried
<1>13. Based'
  <2>1. \A f : f \notin New(draft.vals, draft.vals)
    BY DEF New
  <2>. QED  BY <2>1, <1>1, <1>7 DEF Based, Unchanged, Val
<1>14. ModesBased'
  <2>1. Extends(lastSent.modes, draft.modes) /\ Extends(draft.modes, draft.modes)
    BY DEF Sync, ModesBased, Extends
  <2>2. \A f \in DOMAIN lastSent.modes : f \notin DOMAIN body.modes
    BY <1>3, <2>1 DEF Extends, New
  <2>3. \A f \in DOMAIN lastSent.modes : server.modes[f] = lastSent.modes[f] /\ NoMode(f)'
    BY <2>2, <1>6 DEF Sync, ModesBased
  <2>. QED  BY <2>1, <2>3, <1>1 DEF ModesBased, Extends
<1>15. \A f \in Fields : status'[f] \in {"dirty", "saving"} => status[f] \in {"dirty", "saving"}
  BY DEF Mark
<1>16. \A f \in Fields : status'[f] = "saved" => status[f] = "saved"
  BY DEF Mark
<1>17. \A f : Held(f) /\ f \notin DOMAIN body.srcs => Held(f)'
  BY <1>6 DEF Held, Val
<1>18. Awaiting'
  BY <1>3, <1>15, <1>17 DEF Sync, Awaiting
<1>19. Saved'
  BY <1>3, <1>16, <1>17 DEF Sync, Saved, Shown, Val
<1>. QED  BY <1>9, <1>10, <1>11, <1>12, <1>13, <1>14, <1>18, <1>19 DEF Sync

LEMMA FlushSync == ASSUME Typed, Typed', Sync, Flush PROVE Sync'
<1>1. /\ UNCHANGED <<draft, lastSent, rev, canonical, server>>
      /\ \/ UNCHANGED <<status, flight, sent, inbox>>
         \/ /\ flight = NoFlight /\ Diff(draft, lastSent) = Nothing
            /\ status' = Mark("saved") /\ UNCHANGED <<flight, sent, inbox>>
         \/ /\ flight = NoFlight /\ status' = Mark("saving") /\ sent' = sent + 1
            /\ flight' = [n |-> sent', rev |-> rev, draft |-> draft,
                          body |-> Diff(draft, lastSent),
                          answer |-> NoAnswer, aborted |-> FALSE]
            /\ inbox' = Append(inbox, [n |-> sent', body |-> Diff(draft, lastSent)])
  BY DEF Flush, editor, wire
<1>. QED  BY <1>1, SameSync, FlushNothingSync, FlushSendSync

LEMMA WithoutIs ==
  ASSUME NEW fn, NEW S
  PROVE  /\ DOMAIN Without(fn, S) = DOMAIN fn \ S
         /\ \A z \in DOMAIN fn \ S : Without(fn, S)[z] = fn[z]
BY DEF Without, Restrict

(* The first edit below a parent adds its other leaves as the cached       *)
(* resort has them, and nothing else.                                      *)
LEMMA PatchIs ==
  ASSUME NEW f \in Fields, NEW v
  PROVE  LET vals == PatchLeaf(draft, f, v)
         IN  /\ vals[f] = v
             /\ DOMAIN draft.vals \cup {f} \subseteq DOMAIN vals
             /\ \A g \in DOMAIN draft.vals \ {f} : vals[g] = draft.vals[g]
             /\ \A g \in DOMAIN vals \ (DOMAIN draft.vals \cup {f}) :
                  g \in Siblings(f) /\ vals[g] = canonical.vals[g]
<1> DEFINE known == {g \in Siblings(f) : canonical.vals[g] # Absent}
           both == [g \in DOMAIN draft.vals \cup known |->
                      IF g \in known THEN canonical.vals[g] ELSE draft.vals[g]]
           whole == IF Siblings(f) \cap DOMAIN draft.vals # {} \/ Siblings(f) = {f}
                    THEN draft.vals ELSE both
<1>1. PatchLeaf(draft, f, v) = With(whole, f, v)
  BY DEF PatchLeaf
<1>2. /\ DOMAIN draft.vals \subseteq DOMAIN whole
      /\ \A g \in DOMAIN draft.vals : whole[g] = draft.vals[g]
      /\ \A g \in DOMAIN whole \ DOMAIN draft.vals :
           g \in Siblings(f) /\ whole[g] = canonical.vals[g]
  <2>1. CASE Siblings(f) \cap DOMAIN draft.vals # {} \/ Siblings(f) = {f}
    BY <2>1
  <2>2. CASE ~(Siblings(f) \cap DOMAIN draft.vals # {} \/ Siblings(f) = {f})
    <3>1. whole = both /\ \A g \in DOMAIN draft.vals : g \notin known
      BY <2>2
    <3>. QED  BY <3>1
  <2>. QED  BY <2>1, <2>2
<1> HIDE DEF whole
<1> DEFINE vals == With(whole, f, v)
<1>3. DOMAIN vals = DOMAIN whole \cup {f} /\ vals[f] = v
  BY DEF With
<1>4. \A g \in DOMAIN whole \ {f} : vals[g] = whole[g]
  BY DEF With
<1>5. PatchLeaf(draft, f, v) = vals
  BY <1>1
<1> HIDE DEF vals
<1>. QED  BY <1>2, <1>3, <1>4, <1>5

(* What an edit leaves as it was.                                          *)
LEMMA EditSync ==
  ASSUME Typed, Typed', Sync, SameFlight, rev < MaxRev, rev' = rev + 1,
         flight' # NoFlight => flight'.answer = flight.answer,
         Old(draft.vals)',
         UNCHANGED <<lastSent, canonical, sent, inbox, server>>
  PROVE  /\ Puts' = Puts /\ \A f : Held(f)' <=> Held(f)
         /\ Aged' /\ Numbered' /\ Carried'
         /\ flight' # NoFlight =>
              /\ flight'.rev < rev'
              /\ Extends(flight'.body.vals, flight'.draft.vals)
              /\ Extends(flight'.body.modes, flight'.draft.modes)
<1>1. Puts' = Puts
  BY DEF Puts
<1>2. /\ \A f : NoSource(f)' <=> NoSource(f)
      /\ \A f : NoMode(f)' <=> NoMode(f)
      /\ \A f : Held(f)' <=> Held(f)
  BY <1>1 DEF NoSource, NoMode, Held, Val
<1>3. \A i : i \notin (rev + 1)..MaxRev => i \notin (rev' + 1)..MaxRev
  BY BoundsAssumption DEF Typed
<1>4. \A vals : Old(vals) => \A f \in DOMAIN vals : vals[f] \notin (rev' + 1)..MaxRev
  BY <1>3 DEF Old
<1>5. Aged'
  BY <1>1, <1>4 DEF Sync, Aged, Old, SameFlight
<1>6. Numbered'
  BY DEF Sync, Numbered, SameFlight
<1>7. Carried'
  BY <1>2 DEF Sync, Carried, SameFlight, Val
<1>8. flight' # NoFlight =>
        /\ flight'.rev < rev'
        /\ Extends(flight'.body.vals, flight'.draft.vals)
        /\ Extends(flight'.body.modes, flight'.draft.modes)
  <2>1. ASSUME flight' # NoFlight PROVE flight'.rev < rev'
    <3>1. flight # NoFlight /\ flight'.rev = flight.rev /\ flight.rev <= rev
      BY <2>1 DEF Sync, Made, SameFlight
    <3>2. flight.rev \in Nat /\ rev \in Nat
      BY <3>1, BoundsAssumption DEF Typed, InFlight
    <3>. QED  BY <3>1, <3>2
  <2>. QED  BY <2>1 DEF Sync, Made, SameFlight
<1>. QED  BY <1>1, <1>2, <1>5, <1>6, <1>7, <1>8

(* A value the resort never had.                                           *)
LEMMA FreshIsNew ==
  ASSUME Typed, rev < MaxRev, NEW vals, NEW old, Old(old), NEW f \in DOMAIN vals,
         vals[f] = rev + 1
  PROVE  f \in New(vals, old)
<1>1. rev + 1 \in (rev + 1)..MaxRev
  BY BoundsAssumption DEF Typed
<1>. QED  BY <1>1 DEF Old, New

LEMMA SetFieldValueSync ==
  ASSUME Typed, Typed', Sync, "retype" \notin UserOps,
         NEW f \in Fields, NEW raw \in Numerals, SetFieldValue(f, raw)
  PROVE  Sync'
<1> DEFINE v == raw.num
<1> DEFINE vals == PatchLeaf(draft, f, v)
           srcs == With(draft.srcs, f, rev + 1)
<1>1. /\ rev < MaxRev /\ rev' = rev + 1 /\ v = rev + 1
      /\ draft' = [draft EXCEPT !.vals = vals, !.srcs = srcs]
      /\ status' = [status EXCEPT ![f] = "dirty"]
      /\ UNCHANGED <<lastSent, flight, canonical, sent, inbox, server>>
  <2>1. /\ rev < MaxRev /\ rev' = rev + 1 /\ v = rev + 1
        /\ draft' = PatchSource([draft EXCEPT !.vals = vals], f, rev')
        /\ status' = [status EXCEPT ![f] = "dirty"]
        /\ UNCHANGED <<lastSent, flight, canonical, sent, inbox, server>>
    BY DEF SetFieldValue, Typable, wire
  <2>2. draft = [vals |-> draft.vals, srcs |-> draft.srcs, modes |-> draft.modes]
    BY DraftIs DEF Typed
  <2>. QED  BY <2>1, <2>2 DEF PatchSource
<1>2. draft'.vals = vals /\ draft'.srcs = srcs /\ draft'.modes = draft.modes
  BY <1>1, DraftIs DEF Typed
<1>3. /\ f \in DOMAIN draft'.vals /\ draft'.vals[f] = rev + 1
      /\ DOMAIN draft.vals \subseteq DOMAIN draft'.vals
      /\ \A g \in DOMAIN draft.vals \ {f} : draft'.vals[g] = draft.vals[g]
      /\ \A g \in DOMAIN draft'.vals \ (DOMAIN draft.vals \cup {f}) :
           g \in Siblings(f) /\ draft'.vals[g] = canonical.vals[g]
  BY <1>1, <1>2, PatchIs
<1>4. DOMAIN draft'.srcs = DOMAIN draft.srcs \cup {f}
  <2>1. DOMAIN srcs = DOMAIN draft.srcs \cup {f}
    BY DEF With
  <2>. QED  BY <1>2, <2>1
<1> HIDE DEF vals, srcs
<1>5. /\ DOMAIN draft.vals \subseteq Fields /\ DOMAIN draft'.vals \subseteq Fields
      /\ DOMAIN draft.srcs \subseteq DOMAIN draft.vals /\ DOMAIN canonical.vals = Fields
      /\ status \in [Fields -> Statuses]
  BY DraftIs, PartIs, StoredIs DEF Typed, Sync, Made
<1>6. Old(draft.vals)'
  <2>1. \A g \in Fields : canonical.vals[g] \notin (rev + 1)..MaxRev
    BY <1>5 DEF Sync, Aged, Old
  <2>2. \A g \in DOMAIN draft'.vals \ {f} : draft'.vals[g] \notin (rev + 1)..MaxRev
    BY <1>3, <1>5, <2>1 DEF Sync, Aged, Old
  <2>3. /\ rev + 1 \notin (rev' + 1)..MaxRev
        /\ \A i : i \notin (rev + 1)..MaxRev => i \notin (rev' + 1)..MaxRev
    BY <1>1, BoundsAssumption DEF Typed
  <2>. QED  BY <1>3, <2>2, <2>3 DEF Old
<1>7. SameFlight /\ (flight' # NoFlight => flight'.answer = flight.answer)
  BY <1>1 DEF SameFlight
<1>8. /\ Puts' = Puts /\ \A g : Held(g)' <=> Held(g)
      /\ Aged' /\ Numbered' /\ Carried'
      /\ flight' # NoFlight =>
           /\ flight'.rev < rev'
           /\ Extends(flight'.body.vals, flight'.draft.vals)
           /\ Extends(flight'.body.modes, flight'.draft.modes)
  BY <1>1, <1>6, <1>7, EditSync
<1>9. /\ f \in New(draft'.vals, lastSent.vals)
      /\ flight # NoFlight => f \in New(draft'.vals, flight.draft.vals)
  BY <1>1, <1>3, FreshIsNew DEF Sync, Aged
<1>10. \A old : \A g \in DOMAIN draft.vals \ {f} :
         g \in New(draft'.vals, old) <=> g \in New(draft.vals, old)
  BY <1>3 DEF New
<1>11. Made'
  <2>1. flight' # NoFlight => flight'.rev <= rev' /\ flight'.rev # rev'
    <3>1. flight' # NoFlight => flight'.rev \in Nat
      BY DEF Typed, InFlight
    <3>2. rev' \in Nat
      BY BoundsAssumption DEF Typed
    <3>. QED  BY <3>1, <3>2, <1>8
  <2>. QED  BY <2>1, <1>3, <1>4, <1>5, <1>8 DEF Made
<1>12. Based'
  <2>1. ASSUME NEW g \in DOMAIN draft'.vals, Unchanged(g)'
        PROVE  draft'.vals[g] = Val(g)' /\ Held(g)'
    <3>1. Siblings(g) \cap New(draft'.vals, lastSent.vals) = {}
      BY <1>1, <2>1 DEF Unchanged
    <3>2. f \notin Siblings(g)
      BY <3>1, <1>9
    <3>3. g \notin Siblings(f) /\ g # f /\ g \in Fields
      BY <3>2, <1>5, Own DEF Siblings
    <3>4. g \in DOMAIN draft.vals /\ draft'.vals[g] = draft.vals[g]
      BY <3>3, <1>3
    <3>5. Unchanged(g)
      <4>1. \A h \in New(draft.vals, lastSent.vals) : h \in DOMAIN draft.vals
        BY DEF New
      <4>. QED  BY <4>1, <3>1, <3>2, <1>10 DEF Unchanged
    <3>. QED  BY <3>4, <3>5, <1>1, <1>8 DEF Sync, Based, Val
  <2>2. ASSUME flight' # NoFlight, NEW g \in DOMAIN draft'.srcs,
               g \notin New(draft'.vals, lastSent'.vals)
        PROVE  g \notin New(draft'.vals, flight'.draft.vals)
    <3>1. g # f
      BY <2>2, <1>1, <1>9
    <3>2. g \in DOMAIN draft.srcs /\ g \in DOMAIN draft.vals \ {f}
      BY <3>1, <1>4, <1>5
    <3>3. g \notin New(draft.vals, lastSent.vals)
      BY <2>2, <3>2, <1>1, <1>10
    <3>4. g \notin New(draft.vals, flight.draft.vals)
      BY <2>2, <3>2, <3>3, <1>1 DEF Sync, Based
    <3>. QED  BY <3>2, <3>4, <1>1, <1>10
  <2>. QED  BY <2>1, <2>2 DEF Based
<1>13. ModesBased'
  BY <1>1, <1>2, <1>8 DEF Sync, ModesBased, NoMode
<1>14. Awaiting'
  BY <1>1, <1>2, <1>4, <1>5, <1>8 DEF Sync, Awaiting
<1>15. Saved'
  <2> SUFFICES ASSUME NEW g \in Fields, status'[g] = "saved"
               PROVE  /\ Held(g)' /\ Shown(g)' = Val(g)'
                      /\ g \in DOMAIN draft'.srcs =>
                           g \notin New(draft'.vals, lastSent'.vals)
                      /\ g \in DOMAIN draft'.modes => g \in DOMAIN lastSent'.modes
    BY DEF Saved
  <2>1. g # f /\ status[g] = "saved"
    BY <1>1, <1>5
  <2>2. /\ Held(g) /\ Shown(g) = Val(g)
        /\ g \in DOMAIN draft.srcs => g \notin New(draft.vals, lastSent.vals)
        /\ g \in DOMAIN draft.modes => g \in DOMAIN lastSent.modes
    BY <2>1 DEF Sync, Saved
  <2>3. Shown(g)' = Shown(g)
    BY <2>1, <1>1, <1>3 DEF Shown
  <2>. QED  BY <2>1, <2>2, <2>3, <1>1, <1>2, <1>4, <1>5, <1>8, <1>10 DEF Val
<1>. QED  BY <1>8, <1>11, <1>12, <1>13, <1>14, <1>15 DEF Sync

LEMMA ToggleModeSync ==
  ASSUME Typed, Typed', Sync, "retype" \notin UserOps, NEW f \in ModeFields, ToggleMode(f)
  PROVE  Sync'
<1> DEFINE modes == With(draft.modes, f, Toggled(f))
<1>1. /\ rev < MaxRev /\ rev' = rev + 1 /\ f \notin DOMAIN draft.modes
      /\ draft' = [draft EXCEPT !.modes = modes]
      /\ status' = [status EXCEPT ![f] = "dirty"]
      /\ UNCHANGED <<lastSent, flight, canonical, sent, inbox, server>>
  BY DEF ToggleMode, wire, editor
<1>2. draft'.vals = draft.vals /\ draft'.srcs = draft.srcs /\ draft'.modes = modes
  BY <1>1, DraftIs DEF Typed
<1>3. DOMAIN draft'.modes = DOMAIN draft.modes \cup {f} /\ Extends(draft.modes, draft'.modes)
  <2>1. DOMAIN modes = DOMAIN draft.modes \cup {f}
    BY DEF With
  <2>2. \A g \in DOMAIN draft.modes \ {f} : modes[g] = draft.modes[g]
    BY DEF With
  <2> HIDE DEF modes
  <2>. QED  BY <1>1, <1>2, <2>1, <2>2 DEF Extends
<1> HIDE DEF modes
<1>4. f \in Fields /\ status \in [Fields -> Statuses]
  BY ModeAssumption DEF Typed
<1>5. Old(draft.vals)'
  <2>1. \A i : i \notin (rev + 1)..MaxRev => i \notin (rev' + 1)..MaxRev
    BY <1>1, BoundsAssumption DEF Typed
  <2>. QED  BY <1>2, <2>1 DEF Sync, Aged, Old
<1>6. SameFlight /\ (flight' # NoFlight => flight'.answer = flight.answer)
  BY <1>1 DEF SameFlight
<1>7. /\ Puts' = Puts /\ \A g : Held(g)' <=> Held(g)
      /\ Aged' /\ Numbered' /\ Carried'
      /\ flight' # NoFlight =>
           /\ flight'.rev < rev'
           /\ Extends(flight'.body.vals, flight'.draft.vals)
           /\ Extends(flight'.body.modes, flight'.draft.modes)
  BY <1>1, <1>5, <1>6, EditSync
<1>8. Made'
  <2>1. flight' # NoFlight => flight'.rev <= rev' /\ flight'.rev # rev'
    <3>1. flight' # NoFlight => flight'.rev \in Nat
      BY DEF Typed, InFlight
    <3>2. rev' \in Nat
      BY BoundsAssumption DEF Typed
    <3>. QED  BY <3>1, <3>2, <1>7
  <2>. QED  BY <2>1, <1>2, <1>7 DEF Sync, Made
<1>9. Based'
  BY <1>1, <1>2, <1>7 DEF Sync, Based, Unchanged, Val
<1>10. ModesBased'
  <2>1. Extends(lastSent.modes, draft'.modes)
    BY <1>3 DEF Sync, ModesBased, Extends
  <2>2. flight # NoFlight => Extends(flight.draft.modes, draft'.modes)
    BY <1>3 DEF Sync, ModesBased, Extends
  <2>. QED  BY <2>1, <2>2, <1>1, <1>7 DEF Sync, ModesBased, NoMode
<1>11. f \notin DOMAIN lastSent.modes
  BY <1>1 DEF Sync, ModesBased, Extends
<1>12. Awaiting'
  <2> SUFFICES ASSUME NEW g \in Fields \ DOMAIN draft'.srcs, status'[g] \in {"dirty", "saving"}
               PROVE  g \in DOMAIN draft'.modes /\ (g \in DOMAIN lastSent'.modes => Held(g)')
    BY DEF Awaiting
  <2>1. CASE g = f
    BY <2>1, <1>1, <1>3, <1>11
  <2>2. CASE g # f
    BY <2>2, <1>1, <1>2, <1>3, <1>4, <1>7 DEF Sync, Awaiting
  <2>. QED  BY <2>1, <2>2
<1>13. Saved'
  BY <1>1, <1>2, <1>3, <1>4, <1>7 DEF Sync, Saved, Shown, Val
<1>. QED  BY <1>7, <1>8, <1>9, <1>10, <1>12, <1>13 DEF Sync

LEMMA ClearFieldValueSync ==
  ASSUME Typed, Typed', Sync, NEW f \in Fields, ClearFieldValue(f)
  PROVE  Sync'
<1> DEFINE S == Siblings(f)
<1>1. /\ rev < MaxRev /\ rev' = rev + 1
      /\ flight' = IF Aborts(f) THEN [flight EXCEPT !.aborted = TRUE] ELSE flight
      /\ draft' = [draft EXCEPT !.vals = Without(@, S), !.srcs = Without(@, S)]
      /\ status' = [g \in Fields |->
                      IF g \in S /\ status[g] \in {"dirty", "saving"}
                         THEN "none" ELSE status[g]]
      /\ UNCHANGED <<lastSent, canonical, sent, inbox, server>>
  BY DEF ClearFieldValue, ClearLeaf, wire
<1> HIDE DEF S
<1>2. /\ draft'.vals = Without(draft.vals, S) /\ draft'.srcs = Without(draft.srcs, S)
      /\ draft'.modes = draft.modes
  BY <1>1, DraftIs DEF Typed
<1>3. /\ DOMAIN draft'.vals = DOMAIN draft.vals \ S /\ DOMAIN draft'.srcs = DOMAIN draft.srcs \ S
      /\ \A g \in DOMAIN draft'.vals : draft'.vals[g] = draft.vals[g]
  <2> DEFINE vals == Without(draft.vals, S)
             srcs == Without(draft.srcs, S)
  <2>1. DOMAIN vals = DOMAIN draft.vals \ S /\ DOMAIN srcs = DOMAIN draft.srcs \ S
    BY WithoutIs
  <2>2. \A g \in DOMAIN draft.vals \ S : vals[g] = draft.vals[g]
    BY WithoutIs
  <2>3. draft'.vals = vals /\ draft'.srcs = srcs
    BY <1>2
  <2> HIDE DEF vals, srcs
  <2>. QED  BY <2>1, <2>2, <2>3
<1>4. /\ DOMAIN draft.vals \subseteq Fields /\ DOMAIN draft.srcs \subseteq DOMAIN draft.vals
  BY DraftIs, PartIs DEF Typed, Sync, Made
<1>5. Old(draft.vals)'
  <2>1. \A i : i \notin (rev + 1)..MaxRev => i \notin (rev' + 1)..MaxRev
    BY <1>1, BoundsAssumption DEF Typed
  <2>. QED  BY <1>3, <2>1 DEF Sync, Aged, Old
<1>6. SameFlight /\ (flight' # NoFlight => flight'.answer = flight.answer)
  <2>1. CASE Aborts(f)
    <3>1. flight \in InFlight /\ flight' = [flight EXCEPT !.aborted = TRUE] /\ flight # NoFlight
      BY <2>1, <1>1 DEF Aborts, Typed
    <3>2. /\ flight'.n = flight.n /\ flight'.rev = flight.rev /\ flight'.draft = flight.draft
          /\ flight'.body = flight.body /\ flight'.answer = flight.answer
      BY <3>1 DEF InFlight
    <3>. QED  BY <3>1, <3>2 DEF SameFlight
  <2>2. CASE ~Aborts(f)
    BY <2>2, <1>1 DEF SameFlight
  <2>. QED  BY <2>1, <2>2
<1>7. /\ Puts' = Puts /\ \A g : Held(g)' <=> Held(g)
      /\ Aged' /\ Numbered' /\ Carried'
      /\ flight' # NoFlight =>
           /\ flight'.rev < rev'
           /\ Extends(flight'.body.vals, flight'.draft.vals)
           /\ Extends(flight'.body.modes, flight'.draft.modes)
  BY <1>1, <1>5, <1>6, EditSync
<1>8. Made'
  <2>1. flight' # NoFlight => flight'.rev <= rev' /\ flight'.rev # rev'
    <3>1. flight' # NoFlight => flight'.rev \in Nat
      BY DEF Typed, InFlight
    <3>2. rev' \in Nat
      BY BoundsAssumption DEF Typed
    <3>. QED  BY <3>1, <3>2, <1>7
  <2>. QED  BY <2>1, <1>3, <1>4, <1>7 DEF Made
<1>9. \A old : \A g \in DOMAIN draft.vals \ S :
        g \in New(draft'.vals, old) <=> g \in New(draft.vals, old)
  BY <1>3 DEF New
<1>10. Based'
  <2>1. ASSUME NEW g \in DOMAIN draft'.vals, Unchanged(g)'
        PROVE  draft'.vals[g] = Val(g)' /\ Held(g)'
    <3>1. Siblings(g) \cap New(draft'.vals, lastSent.vals) = {}
      BY <1>1, <2>1 DEF Unchanged
    <3>2. g \in DOMAIN draft.vals /\ g \notin S /\ draft'.vals[g] = draft.vals[g]
      BY <1>3
    <3>3. \A h \in Siblings(g) : h \notin S
      BY <3>2, <1>4 DEF S, Siblings
    <3>4. Unchanged(g)
      <4>1. \A h \in New(draft.vals, lastSent.vals) : h \in DOMAIN draft.vals
        BY DEF New
      <4>. QED  BY <4>1, <3>1, <3>3, <1>9 DEF Unchanged
    <3>. QED  BY <3>2, <3>4, <1>1, <1>7 DEF Sync, Based, Val
  <2>2. ASSUME flight' # NoFlight, NEW g \in DOMAIN draft'.srcs,
               g \notin New(draft'.vals, lastSent'.vals)
        PROVE  g \notin New(draft'.vals, flight'.draft.vals)
    <3>1. g \in DOMAIN draft.srcs /\ g \in DOMAIN draft.vals \ S
      BY <1>3, <1>4
    <3>2. g \notin New(draft.vals, flight.draft.vals)
      BY <2>2, <3>1, <1>1, <1>6, <1>9 DEF Sync, Based, SameFlight
    <3>. QED  BY <2>2, <3>1, <3>2, <1>6, <1>9 DEF SameFlight
  <2>. QED  BY <2>1, <2>2 DEF Based
<1>11. ModesBased'
  BY <1>1, <1>2, <1>6, <1>7 DEF Sync, ModesBased, NoMode, SameFlight
<1>12. Awaiting'
  BY <1>1, <1>2, <1>3, <1>7 DEF Sync, Awaiting
<1>13. Saved'
  <2> SUFFICES ASSUME NEW g \in Fields, status'[g] = "saved"
               PROVE  /\ Held(g)' /\ Shown(g)' = Val(g)'
                      /\ g \in DOMAIN draft'.srcs =>
                           g \notin New(draft'.vals, lastSent'.vals)
                      /\ g \in DOMAIN draft'.modes => g \in DOMAIN lastSent'.modes
    BY DEF Saved
  <2>1. status[g] = "saved"
    BY <1>1
  <2>2. /\ Held(g) /\ Shown(g) = Val(g)
        /\ g \in DOMAIN draft.srcs => g \notin New(draft.vals, lastSent.vals)
        /\ g \in DOMAIN draft.modes => g \in DOMAIN lastSent.modes
    BY <2>1 DEF Sync, Saved
  <2>3. Shown(g)' = Val(g)
    BY <2>2, <1>1, <1>3 DEF Shown, Held
  <2>. QED  BY <2>2, <2>3, <1>1, <1>2, <1>3, <1>4, <1>7, <1>9 DEF Val
<1>. QED  BY <1>7, <1>8, <1>10, <1>11, <1>12, <1>13 DEF Sync

LEMMA NothingIs ==
  /\ DOMAIN Nothing.vals = {} /\ DOMAIN Nothing.srcs = {} /\ DOMAIN Nothing.modes = {}
BY DEF Nothing

(* A PUT succeeded: what it carried is cached as the server has it.        *)
LEMMA SettleSuccessSync == ASSUME Typed, Typed', Sync, SettleSuccess PROVE Sync'
<1>1. /\ flight # NoFlight /\ flight.answer \notin {NoAnswer, Failed}
      /\ canonical' = flight.answer
      /\ IF rev = flight.rev
            THEN draft' = Nothing /\ lastSent' = Nothing /\ status' = Mark("saved")
            ELSE lastSent' = flight.draft /\ UNCHANGED <<draft, status>>
      /\ flight' = NoFlight
      /\ UNCHANGED <<rev, sent, inbox, server>>
  BY DEF SettleSuccess, Finally, wire
<1>2. /\ inbox = << >> /\ flight.answer = server.content
      /\ \A f \in DOMAIN flight.draft.vals : Val(f) = flight.draft.vals[f]
      /\ \A f \in DOMAIN flight.draft.modes : server.modes[f] = flight.draft.modes[f]
  BY <1>1 DEF Sync, Carried
<1>3. /\ \A f : Held(f)' /\ NoMode(f)'
      /\ Puts' = {}
  <2>1. Puts' = {} /\ Puts = {}
    BY <1>1, <1>2, NoPuts DEF Puts
  <2>. QED  BY <1>1, <1>2, <2>1 DEF Held, NoSource, NoMode, Val
<1>4. /\ Numbered' /\ Carried'
  BY <1>1 DEF Sync, Numbered, Carried
<1>5. Old(server.content.vals)' /\ Old(canonical.vals)' /\ \A vals : Old(vals) => Old(vals)'
  BY <1>1, <1>2 DEF Sync, Aged, Old
<1>6. CASE rev = flight.rev
  <2>1. /\ draft' = Nothing /\ lastSent' = Nothing /\ status' = Mark("saved")
    BY <1>1, <1>6
  <2>2. /\ DOMAIN draft'.vals = {} /\ DOMAIN draft'.srcs = {} /\ DOMAIN draft'.modes = {}
        /\ DOMAIN lastSent'.vals = {} /\ DOMAIN lastSent'.modes = {}
    BY <2>1, NothingIs
  <2>3. Aged' /\ Made'
    BY <1>1, <1>3, <1>5, <2>2 DEF Aged, Made, Old
  <2>4. Based' /\ ModesBased'
    BY <1>1, <2>2 DEF Based, ModesBased, Extends
  <2>5. \A f \in Fields : status'[f] \notin {"dirty", "saving"}
    BY <2>1 DEF Mark
  <2>6. Awaiting'
    BY <2>5 DEF Awaiting
  <2>7. Saved'
    BY <1>3, <2>2 DEF Saved, Shown, Held
  <2>. QED  BY <1>4, <2>3, <2>4, <2>6, <2>7 DEF Sync
<1>7. CASE rev # flight.rev
  <2>1. lastSent' = flight.draft /\ UNCHANGED <<draft, status>>
    BY <1>1, <1>7
  <2>2. Aged'
    BY <1>1, <1>3, <1>5, <2>1 DEF Sync, Aged, Old
  <2>3. Made'
    BY <1>1, <2>1 DEF Sync, Made
  <2>4. \A f \in DOMAIN draft.vals : Unchanged(f)' => draft.vals[f] = Val(f)
    <3> SUFFICES ASSUME NEW f \in DOMAIN draft.vals, Unchanged(f)'
                 PROVE  draft.vals[f] = Val(f)
      OBVIOUS
    <3>1. Siblings(f) \cap New(draft.vals, flight.draft.vals) = {}
      BY <2>1 DEF Unchanged
    <3>2. f \in Fields
      BY DraftIs, PartIs DEF Typed
    <3>3. f \notin New(draft.vals, flight.draft.vals)
      BY <3>1, <3>2, Own
    <3>. QED  BY <3>3, <1>2 DEF New
  <2>5. Based'
    BY <1>1, <1>3, <2>1, <2>4 DEF Based, Val
  <2>6. ModesBased'
    BY <1>1, <1>2, <1>3, <2>1 DEF Sync, ModesBased
  <2>7. Awaiting'
    BY <1>3, <2>1 DEF Sync, Awaiting
  <2>8. Saved'
    <3> SUFFICES ASSUME NEW f \in Fields, status[f] = "saved"
                 PROVE  /\ Shown(f)' = Val(f)'
                        /\ f \in DOMAIN draft.srcs =>
                             f \notin New(draft.vals, flight.draft.vals)
                        /\ f \in DOMAIN draft.modes => f \in DOMAIN flight.draft.modes
      BY <1>3, <2>1 DEF Saved
    <3>1. /\ Shown(f) = Val(f)
          /\ f \in DOMAIN draft.srcs => f \notin New(draft.vals, lastSent.vals)
          /\ f \in DOMAIN draft.modes => f \in DOMAIN lastSent.modes
      BY DEF Sync, Saved
    <3>2. Shown(f)' = Val(f)'
      BY <3>1, <1>1, <1>2, <2>1 DEF Shown, Val
    <3>3. f \in DOMAIN draft.srcs => f \notin New(draft.vals, flight.draft.vals)
      BY <3>1, <1>1 DEF Sync, Based
    <3>4. f \in DOMAIN draft.modes => f \in DOMAIN flight.draft.modes
      BY <3>1, <1>1 DEF Sync, ModesBased, Extends
    <3>. QED  BY <3>2, <3>3, <3>4
  <2>. QED  BY <1>4, <2>2, <2>3, <2>5, <2>6, <2>7, <2>8 DEF Sync
<1>. QED  BY <1>6, <1>7

LEMMA SettleFailureSync ==
  ASSUME Typed, Typed', Sync, SettleAbort \/ SettleError
  PROVE  Sync'
<1>1. /\ status' \in {status, Mark("dirty"), Mark("save-failed")}
      /\ flight' = NoFlight
      /\ UNCHANGED <<draft, lastSent, canonical, rev, sent, inbox, server>>
  BY DEF SettleAbort, SettleError, Finally, wire, editor
<1>2. \A f \in Fields :
        /\ status'[f] \in {"dirty", "saving"} => status[f] \in {"dirty", "saving"}
        /\ status'[f] = "saved" => status[f] = "saved"
  BY <1>1 DEF Mark
<1>3. Puts' = Puts
  BY <1>1 DEF Puts
<1>4. \A f : (Held(f)' <=> Held(f)) /\ (NoMode(f)' <=> NoMode(f))
  BY <1>1, <1>3 DEF Held, NoSource, NoMode, Val
<1>5. Aged' /\ Numbered' /\ Made' /\ Carried'
  <2>1. Aged'
    BY <1>1, <1>3 DEF Sync, Aged, Old
  <2>2. Numbered' /\ Made' /\ Carried'
    BY <1>1 DEF Sync, Numbered, Made, Carried
  <2>. QED  BY <2>1, <2>2
<1>6. Based' /\ ModesBased'
  BY <1>1, <1>4 DEF Sync, Based, ModesBased, Unchanged, Val
<1>7. Awaiting'
  BY <1>1, <1>2, <1>4 DEF Sync, Awaiting
<1>8. Saved'
  BY <1>1, <1>2, <1>4 DEF Sync, Saved, Shown, Val
<1>. QED  BY <1>5, <1>6, <1>7, <1>8 DEF Sync
-----------------------------------------------------------------------------
(* The edits are told apart from each other and from what the resort       *)
(* starts with: no value is typed twice.                                   *)
FreshValues ==
    /\ "retype" \notin UserOps
    /\ \A f \in Fields : /\ InitContent.vals[f] \notin 1..MaxRev
                         /\ InitContent.srcs[f] \notin 1..MaxRev

LEMMA InitSync == ASSUME FreshValues, Init PROVE Sync
<1>1. /\ draft = Nothing /\ lastSent = Nothing /\ status = [f \in Fields |-> "none"]
      /\ rev = 0 /\ flight = NoFlight /\ canonical = InitContent /\ inbox = << >>
      /\ server.content = InitContent
  BY DEF Init
<1>2. /\ DOMAIN draft.vals = {} /\ DOMAIN draft.srcs = {} /\ DOMAIN draft.modes = {}
      /\ DOMAIN lastSent.vals = {} /\ DOMAIN lastSent.modes = {}
  BY <1>1, NothingIs
<1>3. Puts = {}
  BY <1>1, NoPuts
<1>4. Aged
  <2>1. DOMAIN InitContent.vals = Fields
    BY ContentAssumption, StoredIs
  <2>2. rev + 1 = 1
    BY <1>1
  <2>. QED  BY <2>1, <2>2, <1>1, <1>2, <1>3 DEF Aged, Old, FreshValues
<1>5. Numbered
  BY <1>1 DEF Numbered
<1>6. Made /\ Carried /\ Based /\ ModesBased
  BY <1>1, <1>2 DEF Made, Carried, Based, ModesBased, Extends
<1>7. Awaiting /\ Saved
  BY <1>1 DEF Awaiting, Saved
<1>. QED  BY <1>4, <1>5, <1>6, <1>7 DEF Sync

LEMMA SyncInductive == ASSUME FreshValues PROVE Spec => [](IInv /\ Sync)
<1>1. ASSUME IInv, IInv', Sync, Next PROVE Sync'
  <2> USE <1>1
  <2>1. Typed /\ Typed' /\ "retype" \notin UserOps
    BY DEF IInv, FreshValues
  <2>2. ASSUME NEW f \in Fields, NEW raw \in Numerals, SetFieldValue(f, raw) PROVE Sync'
    BY <2>1, <2>2, SetFieldValueSync
  <2>3. ASSUME NEW f \in Fields, ClearFieldValue(f) PROVE Sync'
    BY <2>1, <2>3, ClearFieldValueSync
  <2>4. ASSUME NEW f \in ModeFields, ToggleMode(f) PROVE Sync'
    BY <2>1, <2>4, ToggleModeSync
  <2>5. ASSUME TimerFires \/ ModEnter PROVE Sync'
    BY <2>1, <2>5, FlushSync DEF TimerFires, ModEnter
  <2>6. ASSUME ServerHandles \/ ConnectionLost \/ Vanish PROVE Sync'
    BY <2>1, <2>6, ServerHandlesSync, ConnectionLostSync, VanishSync
  <2>7. ASSUME Settle PROVE Sync'
    BY <2>1, <2>7, SettleSuccessSync, SettleFailureSync DEF Settle
  <2>. QED  BY <2>2, <2>3, <2>4, <2>5, <2>6, <2>7 DEF Next
<1>2. ASSUME IInv, IInv', Sync, UNCHANGED vars PROVE Sync'
  <2>1. Typed /\ Typed'
    BY <1>2 DEF IInv
  <2>2. UNCHANGED <<draft, lastSent, status, rev, flight, canonical, sent, inbox, server>>
    BY <1>2 DEF vars, store, editor, wire
  <2>. QED  BY <1>2, <2>1, <2>2, SameSync
<1>3. IInv /\ IInv' /\ Sync /\ [Next]_vars => Sync'
  BY <1>1, <1>2
<1>4. Init => Sync
  BY InitSync
<1>. QED  BY <1>3, <1>4, Inductive, PTL DEF Spec
-----------------------------------------------------------------------------
(* useWorkspaceState.ts: a field reported as saved reads as the server     *)
(* holds it, mode included, in whatever order edits, clears, PUTs, answers *)
(* and broken connections come, as long as no value is typed twice (that a *)
(* reverted edit can be lost is the finding of the run resort_revert).     *)
THEOREM SavedStored == ASSUME FreshValues PROVE Spec => []SavedMeansStored
<1>1. IInv /\ Sync => SavedMeansStored
  <2> SUFFICES ASSUME Typed, Sync, NEW f \in Fields, status[f] = "saved"
               PROVE  /\ Shown(f) = server.content.vals[f]
                      /\ f \in DOMAIN draft.modes => draft.modes[f] = server.modes[f]
    BY DEF IInv, SavedMeansStored
  <2>1. /\ Shown(f) = Val(f)
        /\ f \in DOMAIN draft.modes => f \in DOMAIN lastSent.modes
    BY DEF Sync, Saved
  <2>2. f \in DOMAIN draft.modes => draft.modes[f] = server.modes[f]
    BY <2>1 DEF Sync, ModesBased, Extends
  <2>. QED  BY <2>1, <2>2 DEF Val
<1>. QED  BY <1>1, SyncInductive, PTL

(* doFlush, on success: the edits that leave the draft without the analyst *)
(* doing anything are those the server holds.                              *)
THEOREM EditsKept == ASSUME FreshValues PROVE Spec => EditsKeptUntilStored
<1> DEFINE Step == rev' = rev =>
         /\ \A f \in DOMAIN draft.srcs \ DOMAIN draft'.srcs :
               draft.vals[f] = server.content.vals[f]
         /\ \A f \in DOMAIN draft.modes \ DOMAIN draft'.modes :
               draft.modes[f] = server.modes[f]
<1>1. ASSUME Typed, Sync, [Next]_vars PROVE Step
  <2> SUFFICES ASSUME rev' = rev, draft' # draft PROVE Step
    OBVIOUS
  <2>1. rev # rev + 1
    BY BoundsAssumption, <1>1 DEF Typed
  <2>2. SettleSuccess /\ rev = flight.rev
    <3>1. Next
      BY <1>1 DEF vars, store
    <3>2. ASSUME NEW f \in Fields, NEW raw \in Numerals, SetFieldValue(f, raw) PROVE FALSE
      BY <2>1, <3>2 DEF SetFieldValue
    <3>3. ASSUME NEW f \in Fields, ClearFieldValue(f) PROVE FALSE
      BY <2>1, <3>3 DEF ClearFieldValue
    <3>4. ASSUME NEW f \in ModeFields, ToggleMode(f) PROVE FALSE
      BY <2>1, <3>4 DEF ToggleMode
    <3>5. ASSUME TimerFires \/ ModEnter PROVE FALSE
      BY <3>5 DEF TimerFires, ModEnter, Flush
    <3>6. ASSUME ServerHandles \/ ConnectionLost \/ Vanish PROVE FALSE
      BY <3>6 DEF ServerHandles, ConnectionLost, Vanish, store
    <3>7. ASSUME SettleAbort \/ SettleError PROVE FALSE
      BY <3>7 DEF SettleAbort, SettleError
    <3>8. SettleSuccess
      BY <3>1, <3>2, <3>3, <3>4, <3>5, <3>6, <3>7 DEF Next, Settle
    <3>. QED  BY <3>8 DEF SettleSuccess
  <2>3. flight # NoFlight /\ flight.answer \notin {NoAnswer, Failed}
    BY <2>2 DEF SettleSuccess
  <2>4. draft = flight.draft /\ DOMAIN draft.srcs \subseteq DOMAIN draft.vals
    BY <1>1, <2>2, <2>3 DEF Sync, Made
  <2>. QED  BY <1>1, <2>3, <2>4 DEF Sync, Carried, Val
<1>2. IInv /\ Sync /\ [Next]_vars => Step
  BY <1>1 DEF IInv
<1>. QED  BY <1>2, SyncInductive, PTL DEF Spec, EditsKeptUntilStored
-----------------------------------------------------------------------------
(* An edit made since the PUT in flight is nowhere else; one made since    *)
(* what was last sent is not what is cached; and a text that is not        *)
(* plainly written but denotes the cached value is of a field that has no  *)
(* other value on its way.                                                 *)
Unsent ==
    flight # NoFlight =>
        \A f \in DOMAIN draft.srcs \cap New(draft.vals, flight.draft.vals) :
            /\ draft.vals[f] # Val(f)
            /\ \A p \in Puts : f \in DOMAIN p.body.vals => p.body.vals[f] # draft.vals[f]

Unanswered ==
    \A f \in DOMAIN draft.srcs \cap New(draft.vals, lastSent.vals) :
        draft.vals[f] # canonical.vals[f]

Odd(f) == text[f] # Blank /\ text[f].as # Plain

Cached == \A f \in Fields : Odd(f) /\ text[f].num = canonical.vals[f] => Held(f)

Apart == Unsent /\ Unanswered /\ Cached

(* A render leaves a text that is not plainly written as it is, and never  *)
(* makes one.                                                              *)
LEMMA RenderedOdd ==
  ASSUME Typed, draft' \in Draft, canonical' \in Stored, NEW typed, Rendered(typed),
         NEW f \in Fields
  PROVE  /\ typed[f] # Blank /\ typed[f].as # Plain => text'[f] = typed[f]
         /\ Odd(f)' => text'[f] = typed[f]
<1>1. Shown(f) \in Values /\ Shown(f)' \in Values
  BY DraftIs, PartIs, StoredIs DEF Typed, Shown
<1>2. AsText(Shown(f)).as = Plain /\ AsText(Shown(f)').as = Plain
  BY <1>1, AbsenceAssumption DEF AsText
<1>3. text'[f] = Follows(f, typed[f])
  BY DEF Rendered
<1>. QED  BY <1>2, <1>3 DEF Follows, Odd

(* Steps of the server and the wire.                                       *)
LEMMA WireApart ==
  ASSUME Typed, Apart, SameFlight, Puts' \subseteq Puts,
         UNCHANGED <<draft, lastSent, canonical, text>>,
         \A f \in Fields :
            /\ NoSource(f) => Val(f)' = Val(f)
            /\ \/ Val(f)' = Val(f)
               \/ \E p \in Puts : f \in DOMAIN p.body.vals /\ Val(f)' = p.body.vals[f]
  PROVE  Apart'
<1>1. DOMAIN draft.srcs \subseteq Fields
  BY DraftIs, PartIs DEF Typed
<1>2. Unsent'
  <2> SUFFICES ASSUME flight' # NoFlight,
                      NEW f \in DOMAIN draft'.srcs \cap New(draft'.vals, flight'.draft.vals)
               PROVE  /\ draft'.vals[f] # Val(f)'
                      /\ \A p \in Puts' : f \in DOMAIN p.body.vals =>
                            p.body.vals[f] # draft'.vals[f]
    BY DEF Unsent
  <2>1. /\ flight # NoFlight /\ f \in Fields
        /\ f \in DOMAIN draft.srcs \cap New(draft.vals, flight.draft.vals)
    BY <1>1 DEF SameFlight
  <2>2. /\ draft.vals[f] # Val(f)
        /\ \A p \in Puts : f \in DOMAIN p.body.vals => p.body.vals[f] # draft.vals[f]
    BY <2>1 DEF Apart, Unsent
  <2>. QED  BY <2>1, <2>2
<1>3. Unanswered'
  BY DEF Apart, Unanswered, New
<1>4. \A f \in Fields : Held(f) => Held(f)'
  BY DEF Held, NoSource
<1>5. Cached'
  BY <1>4 DEF Apart, Cached, Odd
<1>. QED  BY <1>2, <1>3, <1>5 DEF Apart

LEMMA ServerHandlesApart == ASSUME Typed, Apart, ServerHandles PROVE Apart'
<1> DEFINE put == Head(inbox)
           body == put.body
           merged == MergeContent(server.content, AsUpsert(body))
           accepted == ResortVerdict(server.content, AsUpsert(body)) = "ok"
<1>1. /\ inbox # << >> /\ inbox' = Tail(inbox)
      /\ \/ accepted /\ server'.content = merged /\ Answer(put.n, merged)
         \/ Answer(put.n, Failed) /\ UNCHANGED server
      /\ UNCHANGED <<draft, lastSent, canonical, text>>
  BY DEF ServerHandles, editor
<1>2. put \in Puts /\ Puts' \subseteq Puts
  BY <1>1, PutsTail
<1>3. body \in Draft
  <2>1. put \in Put
    BY <1>1, HeadTailProperties DEF Typed
  <2>. QED  BY <2>1 DEF Put
<1>4. accepted => \A f \in Fields :
        /\ f \in DOMAIN body.vals => merged.vals[f] = body.vals[f]
        /\ f \notin DOMAIN body.vals => merged.vals[f] = Val(f)
        /\ f \notin DOMAIN body.srcs => merged.vals[f] = Val(f)
  BY <1>3, Accepted
<1> HIDE DEF merged, accepted
<1>5. SameFlight
  BY <1>1, AnswerSame
<1>6. server' = server \/ (accepted /\ server'.content = merged)
  BY <1>1
<1>7. \A f \in Fields :
        /\ NoSource(f) => Val(f)' = Val(f)
        /\ \/ Val(f)' = Val(f)
           \/ f \in DOMAIN body.vals /\ Val(f)' = body.vals[f]
  BY <1>2, <1>4, <1>6 DEF NoSource, Val
<1>. QED  BY <1>1, <1>2, <1>5, <1>7, WireApart

LEMMA LostApart == ASSUME Typed, Apart, ConnectionLost \/ Vanish PROVE Apart'
<1>1. UNCHANGED <<draft, lastSent, canonical, text, server>>
  BY DEF ConnectionLost, Vanish, store, editor
<1>2. SameFlight
  <2>1. CASE Vanish
    BY <2>1 DEF Vanish, store, SameFlight
  <2>2. CASE ConnectionLost
    <3>1. flight \in InFlight /\ flight # NoFlight /\ flight' = [flight EXCEPT !.answer = Failed]
      BY <2>2 DEF ConnectionLost, Typed
    <3>. QED  BY <3>1 DEF InFlight, SameFlight
  <2>. QED  BY <2>1, <2>2
<1>3. Puts' \subseteq Puts
  <2>1. CASE Vanish
    BY <2>1, PutsTail DEF Vanish
  <2>2. CASE ConnectionLost
    BY <2>2 DEF ConnectionLost, wire, Puts
  <2>. QED  BY <2>1, <2>2
<1>4. \A f : Val(f)' = Val(f)
  BY <1>1 DEF Val
<1>. QED  BY <1>1, <1>2, <1>3, <1>4, WireApart

LEMMA SameApart ==
  ASSUME Typed, Apart, flight' = flight \/ flight' = NoFlight,
         UNCHANGED <<draft, lastSent, canonical, text, inbox, server>>
  PROVE  Apart'
<1>1. SameFlight /\ Puts' = Puts /\ \A f : Val(f)' = Val(f)
  BY DEF SameFlight, Puts, Val
<1>. QED  BY <1>1, WireApart

(* A PUT that is sent carries no source of a field whose text, not plainly *)
(* written, denotes the cached value.                                      *)
LEMMA FlushApart == ASSUME IInv, Apart, Flush PROVE Apart'
<1> DEFINE body == Diff(draft, lastSent)
           new == [n |-> sent + 1, rev |-> rev, draft |-> draft, body |-> body,
                   answer |-> NoAnswer, aborted |-> FALSE]
           put == [n |-> sent + 1, body |-> body]
<1>1. Typed /\ InputIsTheAnalysts /\ Unsent /\ Unanswered /\ Cached
  BY DEF IInv, Inputs, Apart
<1>2. /\ UNCHANGED <<draft, lastSent, canonical, text, server>>
      /\ \/ UNCHANGED <<flight, inbox>>
         \/ flight' = new /\ inbox' = Append(inbox, put)
  BY DEF Flush, editor, wire
<1>3. CASE UNCHANGED <<flight, inbox>>
  BY <1>1, <1>2, <1>3, SameApart
<1>4. CASE flight' = new /\ inbox' = Append(inbox, put)
  <2>1. Puts' = Puts \cup {put}
    BY <1>1, <1>4, PutsAppend
  <2>2. put.body.srcs = body.srcs /\ DOMAIN body.srcs = DOMAIN draft.srcs \cap New(draft.vals, lastSent.vals)
    BY <1>1, DiffIs DEF Typed
  <2>3. flight'.draft = draft
    BY <1>4
  <2> HIDE DEF body, new, put
  <2>4. Unsent'
    BY <1>2, <2>3 DEF Unsent, New
  <2>5. Unanswered'
    BY <1>1, <1>2 DEF Unanswered, New
  <2>6. Cached'
    <3> SUFFICES ASSUME NEW f \in Fields, Odd(f), text[f].num = canonical.vals[f]
                 PROVE  Held(f)'
      BY <1>2 DEF Cached, Odd
    <3>1. Held(f)
      BY <1>1 DEF Cached
    <3>2. AsText(Shown(f)).as = Plain
      <4>1. Shown(f) \in Values
        BY <1>1, DraftIs, PartIs, StoredIs DEF Typed, Shown
      <4>. QED  BY <4>1, AbsenceAssumption DEF AsText
    <3>3. f \in DOMAIN draft.srcs => draft.vals[f] = canonical.vals[f]
      BY <1>1, <3>2 DEF InputIsTheAnalysts, Odd
    <3>4. f \notin DOMAIN body.srcs
      BY <1>1, <2>2, <3>3 DEF Unanswered
    <3>. QED  BY <3>1, <3>4, <1>2, <2>1, <2>2 DEF Held, NoSource, Val
  <2>. QED  BY <2>4, <2>5, <2>6 DEF Apart
<1>. QED  BY <1>2, <1>3, <1>4

LEMMA SetFieldValueApart ==
  ASSUME IInv, IInv', Sync, Apart, "retype" \notin UserOps,
         NEW f \in Fields, NEW raw \in Numerals, SetFieldValue(f, raw)
  PROVE  Apart'
<1> DEFINE vals == PatchLeaf(draft, f, raw.num)
           srcs == With(draft.srcs, f, rev + 1)
           typed == [text EXCEPT ![f] = raw]
<1>1. Typed /\ Typed' /\ Inputs /\ Unsent /\ Unanswered /\ Cached /\ Aged
  BY DEF IInv, Apart, Sync
<1>2. /\ rev < MaxRev /\ rev' = rev + 1 /\ raw.num = rev + 1
      /\ draft' = PatchSource([draft EXCEPT !.vals = vals], f, rev')
      /\ UNCHANGED <<lastSent, flight, canonical, inbox, server>>
      /\ Rendered(typed)
  BY DEF SetFieldValue, Typable, wire
<1>3. draft'.vals = vals /\ draft'.srcs = srcs
  BY <1>1, <1>2, DraftIs DEF PatchSource, Typed
<1>4. /\ f \in DOMAIN draft'.vals /\ draft'.vals[f] = rev + 1
      /\ \A g \in DOMAIN draft.vals \ {f} : draft'.vals[g] = draft.vals[g]
  <2>1. raw.num \in Values
    BY DEF Numerals
  <2>. QED  BY <1>1, <1>2, <1>3, <2>1, PatchLeafPart
<1>5. DOMAIN draft'.srcs = DOMAIN draft.srcs \cup {f} /\ DOMAIN draft.srcs \subseteq DOMAIN draft.vals
  <2>1. DOMAIN srcs = DOMAIN draft.srcs \cup {f}
    BY DEF With
  <2>. QED  BY <1>1, <1>3, <2>1 DEF Inputs
<1>6. typed[f] = raw /\ \A g \in Fields \ {f} : typed[g] = text[g]
  BY <1>1 DEF Inputs
<1> HIDE DEF vals, srcs, typed
<1>7. Puts' = Puts /\ \A g : Val(g)' = Val(g) /\ (Held(g)' <=> Held(g))
  <2>1. Puts' = Puts
    BY <1>2 DEF Puts
  <2>. QED  BY <2>1, <1>2 DEF Val, Held, NoSource
<1>8. rev + 1 \in (rev + 1)..MaxRev
  BY <1>1, <1>2, BoundsAssumption DEF Typed
<1>9. /\ Val(f) # rev + 1 /\ canonical.vals[f] # rev + 1
      /\ \A p \in Puts : f \in DOMAIN p.body.vals => p.body.vals[f] # rev + 1
  <2>1. f \in DOMAIN server.content.vals /\ f \in DOMAIN canonical.vals
    BY <1>1, StoredIs DEF Typed, Server
  <2>. QED  BY <1>1, <1>8, <2>1 DEF Aged, Old, Val
<1>10. \A old : \A g \in DOMAIN draft.vals \ {f} :
         g \in New(draft'.vals, old) => g \in New(draft.vals, old)
  BY <1>4 DEF New
<1>11. Unsent'
  <2> SUFFICES ASSUME flight # NoFlight,
                      NEW g \in DOMAIN draft'.srcs \cap New(draft'.vals, flight.draft.vals)
               PROVE  /\ draft'.vals[g] # Val(g)
                      /\ \A p \in Puts : g \in DOMAIN p.body.vals =>
                            p.body.vals[g] # draft'.vals[g]
    BY <1>2, <1>7 DEF Unsent
  <2>1. CASE g = f
    BY <2>1, <1>4, <1>9
  <2>2. CASE g # f
    <3>1. g \in DOMAIN draft.srcs \cap New(draft.vals, flight.draft.vals)
      BY <2>2, <1>5, <1>10
    <3>. QED  BY <3>1, <2>2, <1>1, <1>4, <1>5 DEF Unsent
  <2>. QED  BY <2>1, <2>2
<1>12. Unanswered'
  <2> SUFFICES ASSUME NEW g \in DOMAIN draft'.srcs \cap New(draft'.vals, lastSent.vals)
               PROVE  draft'.vals[g] # canonical.vals[g]
    BY <1>2 DEF Unanswered
  <2>1. CASE g = f
    BY <2>1, <1>4, <1>9
  <2>2. CASE g # f
    <3>1. g \in DOMAIN draft.srcs \cap New(draft.vals, lastSent.vals)
      BY <2>2, <1>5, <1>10
    <3>. QED  BY <3>1, <2>2, <1>1, <1>4, <1>5 DEF Unanswered
  <2>. QED  BY <2>1, <2>2
<1>13. Cached'
  <2> SUFFICES ASSUME NEW g \in Fields, Odd(g)', text'[g].num = canonical.vals[g]
               PROVE  Held(g)
    BY <1>2, <1>7 DEF Cached
  <2>1. text'[g] = typed[g]
    BY <1>1, <1>2, RenderedOdd DEF Typed
  <2>2. g # f
    BY <2>1, <1>2, <1>6, <1>9
  <2>3. Odd(g) /\ text[g].num = canonical.vals[g]
    BY <2>1, <2>2, <1>6 DEF Odd
  <2>. QED  BY <2>3, <1>1 DEF Cached
<1>. QED  BY <1>11, <1>12, <1>13 DEF Apart

LEMMA ToggleModeApart ==
  ASSUME Typed, Apart, NEW f \in ModeFields, ToggleMode(f)
  PROVE  Apart'
<1>1. /\ draft' = [draft EXCEPT !.modes = With(@, f, Toggled(f))]
      /\ UNCHANGED <<lastSent, flight, canonical, text, inbox, server>>
  BY DEF ToggleMode, wire, editor
<1>2. draft'.vals = draft.vals /\ draft'.srcs = draft.srcs
  BY <1>1, DraftIs DEF Typed
<1>3. Puts' = Puts /\ \A g : Val(g)' = Val(g) /\ (Held(g)' <=> Held(g))
  <2>1. Puts' = Puts
    BY <1>1 DEF Puts
  <2>. QED  BY <2>1, <1>1 DEF Val, Held, NoSource
<1>. QED  BY <1>1, <1>2, <1>3 DEF Apart, Unsent, Unanswered, Cached, Odd

LEMMA ClearFieldValueApart ==
  ASSUME IInv, IInv', Apart, NEW f \in Fields, ClearFieldValue(f)
  PROVE  Apart'
<1> DEFINE S == Siblings(f)
           vals == Without(draft.vals, S)
           srcs == Without(draft.srcs, S)
           typed == [text EXCEPT ![f] = Blank]
<1>1. Typed /\ Typed' /\ Inputs /\ Unsent /\ Unanswered /\ Cached
  BY DEF IInv, Apart
<1>2. /\ flight' = IF Aborts(f) THEN [flight EXCEPT !.aborted = TRUE] ELSE flight
      /\ draft' = [draft EXCEPT !.vals = vals, !.srcs = srcs]
      /\ UNCHANGED <<lastSent, canonical, inbox, server>>
      /\ Rendered(typed)
  BY DEF ClearFieldValue, ClearLeaf, wire
<1>3. draft'.vals = vals /\ draft'.srcs = srcs
  BY <1>1, <1>2, DraftIs DEF Typed
<1>4. /\ DOMAIN vals = DOMAIN draft.vals \ S /\ DOMAIN srcs = DOMAIN draft.srcs \ S
      /\ \A g \in DOMAIN draft.vals \ S : vals[g] = draft.vals[g]
  BY WithoutIs
<1>5. typed[f] = Blank /\ \A g \in Fields \ {f} : typed[g] = text[g]
  BY <1>1 DEF Inputs
<1> HIDE DEF S, vals, srcs, typed
<1>6. Puts' = Puts /\ \A g : Val(g)' = Val(g) /\ (Held(g)' <=> Held(g))
  <2>1. Puts' = Puts
    BY <1>2 DEF Puts
  <2>. QED  BY <2>1, <1>2 DEF Val, Held, NoSource
<1>7. flight' # NoFlight => flight # NoFlight /\ flight'.draft = flight.draft
  <2>1. CASE Aborts(f)
    <3>1. flight \in InFlight /\ flight # NoFlight /\ flight' = [flight EXCEPT !.aborted = TRUE]
      BY <2>1, <1>1, <1>2 DEF Aborts, Typed
    <3>. QED  BY <3>1 DEF InFlight
  <2>2. CASE ~Aborts(f)
    BY <2>2, <1>2
  <2>. QED  BY <2>1, <2>2
<1>8. \A old : \A g \in New(draft'.vals, old) :
         g \in New(draft.vals, old) /\ draft'.vals[g] = draft.vals[g]
  BY <1>3, <1>4 DEF New
<1>9. Unsent'
  BY <1>1, <1>3, <1>4, <1>6, <1>7, <1>8 DEF Unsent
<1>10. Unanswered'
  BY <1>1, <1>2, <1>3, <1>4, <1>8 DEF Unanswered
<1>11. Cached'
  <2> SUFFICES ASSUME NEW g \in Fields, Odd(g)', text'[g].num = canonical.vals[g]
               PROVE  Held(g)
    BY <1>2, <1>6 DEF Cached
  <2>1. text'[g] = typed[g]
    BY <1>1, <1>2, RenderedOdd DEF Typed
  <2>2. g # f
    BY <2>1, <1>5 DEF Odd
  <2>3. Odd(g) /\ text[g].num = canonical.vals[g]
    BY <2>1, <2>2, <1>5 DEF Odd
  <2>. QED  BY <2>3, <1>1 DEF Cached
<1>. QED  BY <1>9, <1>10, <1>11 DEF Apart

(* An answer that is taken leaves nothing on its way.                      *)
LEMMA TakenIsHeld ==
  ASSUME Typed, Sync, SettleSuccess
  PROVE  /\ canonical' = server.content
         /\ \A f : Val(f)' = Val(f) /\ canonical'.vals[f] = Val(f) /\ Held(f)'
<1>1. /\ flight # NoFlight /\ flight.answer \notin {NoAnswer, Failed}
      /\ canonical' = flight.answer /\ UNCHANGED <<inbox, server>>
  BY DEF SettleSuccess, Finally, wire
<1>2. inbox = << >> /\ flight.answer = server.content
  BY <1>1 DEF Sync, Carried
<1>3. Puts' = {}
  BY <1>1, <1>2 DEF Puts
<1>. QED  BY <1>1, <1>2, <1>3 DEF Held, NoSource, Val

LEMMA SettleSuccessApart == ASSUME IInv, Sync, Apart, SettleSuccess PROVE Apart'
<1>1. /\ flight # NoFlight /\ flight' = NoFlight
      /\ \/ draft' = Nothing /\ lastSent' = Nothing
         \/ lastSent' = flight.draft /\ UNCHANGED draft
  BY DEF SettleSuccess, Finally
<1>2. Typed
  BY DEF IInv
<1>3. \A f : canonical'.vals[f] = Val(f) /\ Held(f)'
  BY <1>2, TakenIsHeld
<1>4. DOMAIN Nothing.srcs = {}
  BY NothingIsDraft
<1>5. Unanswered'
  BY <1>1, <1>3, <1>4 DEF Apart, Unsent, Unanswered
<1>. QED  BY <1>1, <1>3, <1>5 DEF Apart, Unsent, Cached

LEMMA ApartInductive == ASSUME FreshValues PROVE Spec => [](IInv /\ Sync /\ Apart)
<1>1. ASSUME IInv, IInv', Sync, Apart, Next PROVE Apart'
  <2> USE <1>1
  <2>1. Typed /\ "retype" \notin UserOps
    BY DEF IInv, FreshValues
  <2>2. ASSUME NEW f \in Fields, NEW raw \in Numerals, SetFieldValue(f, raw) PROVE Apart'
    BY <2>1, <2>2, SetFieldValueApart
  <2>3. ASSUME NEW f \in Fields, ClearFieldValue(f) PROVE Apart'
    BY <2>3, ClearFieldValueApart
  <2>4. ASSUME NEW f \in ModeFields, ToggleMode(f) PROVE Apart'
    BY <2>1, <2>4, ToggleModeApart
  <2>5. ASSUME TimerFires \/ ModEnter PROVE Apart'
    BY <2>5, FlushApart DEF TimerFires, ModEnter
  <2>6. ASSUME ServerHandles \/ ConnectionLost \/ Vanish PROVE Apart'
    BY <2>1, <2>6, ServerHandlesApart, LostApart
  <2>7. ASSUME SettleSuccess PROVE Apart'
    BY <2>7, SettleSuccessApart
  <2>8. ASSUME SettleAbort \/ SettleError PROVE Apart'
    <3>1. flight' = NoFlight /\ UNCHANGED <<draft, lastSent, canonical, text, inbox, server>>
      BY <2>8 DEF SettleAbort, SettleError, Finally, editor, wire
    <3>. QED  BY <3>1, <2>1, SameApart
  <2>. QED  BY <2>2, <2>3, <2>4, <2>5, <2>6, <2>7, <2>8 DEF Next, Settle
<1>2. ASSUME IInv, Apart, UNCHANGED vars PROVE Apart'
  <2>1. UNCHANGED <<draft, lastSent, flight, canonical, text, inbox, server>> /\ Typed
    BY <1>2 DEF vars, store, editor, wire, IInv
  <2>. QED  BY <2>1, <1>2, SameApart
<1>3. IInv /\ IInv' /\ Sync /\ Apart /\ [Next]_vars => Apart'
  BY <1>1, <1>2
<1>4. Init => Apart
  <2> SUFFICES ASSUME Init
               PROVE  Apart
    OBVIOUS
  <2>1. /\ flight = NoFlight /\ draft = Nothing /\ canonical = InitContent /\ inbox = << >>
        /\ server.content = InitContent
    BY DEF Init
  <2>2. DOMAIN draft.srcs = {} /\ Puts = {}
    BY <2>1, NothingIsDraft, NoPuts
  <2>. QED  BY <2>1, <2>2 DEF Apart, Unsent, Unanswered, Cached, Held, NoSource, Val
<1>. QED  BY <1>3, <1>4, SyncInductive, PTL DEF Spec

(* Only a settled PUT, of the steps that are not the analyst's, changes    *)
(* what a row shows.                                                       *)
LEMMA OnlyAnswersShow ==
  ASSUME Typed, [Next]_vars, rev' = rev, ~SettleSuccess
  PROVE  UNCHANGED <<draft, canonical, text>>
<1>1. rev # rev + 1
  BY BoundsAssumption DEF Typed
<1>2. ASSUME NEW f \in Fields, NEW raw \in Numerals, SetFieldValue(f, raw) PROVE FALSE
  BY <1>1, <1>2 DEF SetFieldValue
<1>3. ASSUME NEW f \in Fields, ClearFieldValue(f) PROVE FALSE
  BY <1>1, <1>3 DEF ClearFieldValue
<1>4. ASSUME NEW f \in ModeFields, ToggleMode(f) PROVE FALSE
  BY <1>1, <1>4 DEF ToggleMode
<1>5. ASSUME TimerFires \/ ModEnter PROVE UNCHANGED <<draft, canonical, text>>
  BY <1>5 DEF TimerFires, ModEnter, Flush, editor
<1>6. ASSUME ServerHandles \/ ConnectionLost \/ Vanish PROVE UNCHANGED <<draft, canonical, text>>
  BY <1>6 DEF ServerHandles, ConnectionLost, Vanish, store, editor
<1>7. ASSUME SettleAbort \/ SettleError PROVE UNCHANGED <<draft, canonical, text>>
  BY <1>7 DEF SettleAbort, SettleError, editor
<1>8. ASSUME UNCHANGED vars PROVE UNCHANGED <<draft, canonical, text>>
  BY <1>8 DEF vars, store, editor
<1>. QED  BY <1>2, <1>3, <1>4, <1>5, <1>6, <1>7, <1>8 DEF Next, Settle

(* FieldRow.tsx and doFlush: an input that denotes what its row stands for *)
(* when an answer comes in does so after, in whatever order edits, clears, *)
(* PUTs, answers and broken connections came before.                       *)
THEOREM InputsKeepUp == ASSUME FreshValues PROVE Spec => AnswersKeepInputs
<1> DEFINE Step == rev' = rev => \A f \in Fields : Denotes(f) => Denotes(f)'
<1>1. ASSUME IInv, IInv', Sync, Apart, SettleSuccess, NEW f \in Fields, Denotes(f)
      PROVE  Denotes(f)'
  <2>1. Typed /\ Typed' /\ Inputs /\ Inputs'
    BY <1>1 DEF IInv
  <2>2. /\ flight # NoFlight /\ flight.answer \notin {NoAnswer, Failed} /\ Rendered(text)
        /\ \/ draft' = Nothing /\ rev = flight.rev
           \/ draft' = draft
    BY <1>1 DEF SettleSuccess
  <2>3. canonical'.vals[f] = Val(f)
    BY <1>1, <2>1, TakenIsHeld
  <2>4. Shown(f) \in Values /\ Shown(f)' \in Values
    BY <2>1, DraftIs, PartIs, StoredIs DEF Typed, Shown
  <2>5. CASE text[f].as = Plain
    <3>1. text[f] = AsText(Shown(f))
      BY <1>1, <2>1, <2>5 DEF Inputs, InputIsTheAnalysts, Denotes
    <3>2. text'[f] = AsText(Shown(f)')
      BY <2>2, <3>1 DEF Rendered, Follows
    <3>3. text'[f] # Blank /\ text'[f].num = Shown(f)'
      BY <3>2, <2>4, AbsenceAssumption, BlankAssumption, FormsAssumption DEF AsText, Numerals
    <3>. QED  BY <3>3 DEF Denotes
  <2>6. CASE text[f].as # Plain
    <3>1. text'[f] = text[f]
      BY <1>1, <2>1, <2>2, <2>6, RenderedOdd DEF Denotes, Typed
    <3>2. Shown(f)' = Shown(f)
      <4>1. CASE f \in DOMAIN draft.vals /\ draft' = draft
        BY <4>1 DEF Shown
      <4>2. CASE f \in DOMAIN draft.vals /\ draft' = Nothing /\ rev = flight.rev
        <5>1. draft = flight.draft
          BY <1>1, <2>2, <4>2 DEF Sync, Made
        <5>2. Val(f) = draft.vals[f]
          BY <1>1, <2>2, <4>2, <5>1 DEF Sync, Carried
        <5>3. f \notin DOMAIN draft'.vals
          BY <4>2, NothingIs
        <5>. QED  BY <4>2, <5>2, <5>3, <2>3 DEF Shown
      <4>3. CASE f \notin DOMAIN draft.vals
        <5>1. f \notin DOMAIN draft'.vals
          BY <2>2, <4>3, NothingIs
        <5>2. Odd(f) /\ text[f].num = canonical.vals[f]
          BY <1>1, <2>6, <4>3 DEF Denotes, Shown, Odd
        <5>3. canonical.vals[f] = Val(f)
          BY <1>1, <5>2 DEF Apart, Cached, Held
        <5>. QED  BY <4>3, <5>1, <5>3, <2>3 DEF Shown
      <4>. QED  BY <4>1, <4>2, <4>3, <2>2
    <3>. QED  BY <1>1, <3>1, <3>2 DEF Denotes
  <2>. QED  BY <2>5, <2>6
<1>2. IInv /\ IInv' /\ Sync /\ Apart /\ [Next]_vars => Step
  <2> SUFFICES ASSUME IInv, IInv', Sync, Apart, [Next]_vars, rev' = rev,
                      NEW f \in Fields, Denotes(f)
               PROVE  Denotes(f)'
    OBVIOUS
  <2>1. CASE SettleSuccess
    BY <1>1, <2>1
  <2>2. CASE ~SettleSuccess
    <3>1. UNCHANGED <<draft, canonical, text>>
      BY <2>2, OnlyAnswersShow DEF IInv
    <3>. QED  BY <3>1 DEF Denotes, Shown
  <2>. QED  BY <2>1, <2>2
<1>. QED  BY <1>2, ApartInductive, PTL DEF Spec, AnswersKeepInputs
-----------------------------------------------------------------------------
(* Sources are numbered with the values they come with.                    *)
Dated ==
    /\ \A f \in DOMAIN draft.srcs : f \in DOMAIN draft.vals /\ draft.srcs[f] = draft.vals[f]
    /\ flight # NoFlight =>
        /\ \A f \in DOMAIN flight.draft.srcs :
              f \in DOMAIN flight.draft.vals /\ flight.draft.srcs[f] = flight.draft.vals[f]
        /\ Extends(flight.body.srcs, flight.draft.srcs)
    /\ Old(server.content.srcs) /\ \A p \in Puts : Old(p.body.srcs)

(* A parent is drafted whole.                                              *)
Whole == \A f \in DOMAIN draft.vals : Siblings(f) \subseteq DOMAIN draft.vals

(* A source, once there, stays.                                            *)
Sourced ==
    /\ \A f \in Fields : canonical.srcs[f] # NoHash => server.content.srcs[f] # NoHash
    /\ \A f \in DOMAIN draft.modes : server.content.srcs[f] # NoHash

(* What the server would say of a body.                                    *)
Acceptable(body) ==
    /\ WholeParents(body)
    /\ ModesSourced(body, MergeContent(server.content, AsUpsert(body)))
    /\ ResortVerdict(server.content, AsUpsert(body)) = "ok"

(* The draft that the server has.                                          *)
Reached == IF flight # NoFlight /\ flight.answer # NoAnswer THEN flight.draft ELSE lastSent

(* While nothing was cleared or broke: the server has yet to handle the    *)
(* PUT in flight or nothing, it would accept it, and it lacks exactly the  *)
(* edits made since the draft it has.                                      *)
Quiet ==
    /\ inbox # << >> => /\ flight # NoFlight /\ flight.answer = NoAnswer
                        /\ Len(inbox) = 1 /\ Head(inbox).n = flight.n
    /\ flight # NoFlight =>
        /\ ~flight.aborted /\ flight.answer # Failed
        /\ flight.answer = NoAnswer => Acceptable(flight.body)
        /\ DOMAIN flight.draft.srcs \subseteq DOMAIN draft.srcs
    /\ \A f \in DOMAIN draft.srcs :
        /\ f \in New(draft.vals, Reached.vals) <=> draft.vals[f] # Val(f)
        /\ f \in New(draft.vals, Reached.vals) => draft.srcs[f] # server.content.srcs[f]
    /\ \A f \in Fields \ DOMAIN draft.srcs : Held(f) /\ Shown(f) = Val(f)
    /\ \A f \in Fields : status[f] # "save-failed"

Fits == Dated /\ Whole /\ Sourced /\ (~disturbed => Quiet)

LEMMA DiffSrcs == ASSUME NEW d \in Draft, NEW base PROVE Extends(Diff(d, base).srcs, d.srcs)
BY DEF Diff, Restrict, Extends

LEMMA MergedSrcs ==
  ASSUME NEW c, NEW body \in Draft, NEW f \in Fields
  PROVE  MergeContent(c, AsUpsert(body)).srcs[f] =
           IF f \in DOMAIN body.srcs THEN body.srcs[f] ELSE c.srcs[f]
BY DEF MergeContent, AsUpsert

(* A step that changes only what the client shows or waits for.            *)
LEMMA SameFits ==
  ASSUME Typed, Fits, SameFlight,
         flight' # NoFlight => flight'.answer = flight.answer /\ flight'.aborted = flight.aborted,
         ~disturbed' => /\ ~disturbed /\ inbox' = inbox /\ flight' = flight
                        /\ \A f \in Fields : status'[f] = "save-failed" => status[f] = "save-failed",
         Puts' \subseteq Puts,
         UNCHANGED <<draft, lastSent, rev, canonical, server>>
  PROVE  Fits'
<1>1. Dated'
  BY DEF Fits, Dated, SameFlight, Old
<1>2. Whole' /\ Sourced'
  BY DEF Fits, Whole, Sourced
<1>3. ASSUME ~disturbed' PROVE Quiet'
  <2>1. ~disturbed /\ inbox' = inbox /\ flight' = flight /\ Quiet
    BY <1>3 DEF Fits
  <2>2. Reached' = Reached
    BY <2>1 DEF Reached
  <2>3. \A body : Acceptable(body)' <=> Acceptable(body)
    BY DEF Acceptable
  <2>4. \A f : (Held(f)' <=> Held(f)) /\ Shown(f)' = Shown(f) /\ Val(f)' = Val(f)
    BY <2>1 DEF Held, NoSource, Puts, Shown, Val
  <2>. QED  BY <1>3, <2>1, <2>2, <2>3, <2>4 DEF Quiet
<1>. QED  BY <1>1, <1>2, <1>3 DEF Fits

(* The server accepts what it has to handle.                               *)
LEMMA ServerHandlesFits ==
  ASSUME Typed, Typed', Sync, Sync', Fits, ServerHandles
  PROVE  Fits'
<1> DEFINE put == Head(inbox)
           body == put.body
           merged == MergeContent(server.content, AsUpsert(body))
           modes == [f \in ModeFields |-> IF f \in DOMAIN body.modes
                                          THEN body.modes[f] ELSE server.modes[f]]
           accepted == Acceptable(body)
<1>1. /\ inbox # << >> /\ inbox' = Tail(inbox)
      /\ IF accepted
            THEN server' = [content |-> merged, modes |-> modes] /\ Answer(put.n, merged)
            ELSE Answer(put.n, Failed) /\ UNCHANGED server
      /\ UNCHANGED <<draft, lastSent, status, rev, canonical, sent, disturbed>>
  BY DEF ServerHandles, editor, history, Acceptable
<1>2. put \in Puts /\ Puts' \subseteq Puts
  BY <1>1, PutsTail
<1>3. body \in Draft
  <2>1. put \in Put
    BY <1>1, HeadTailProperties DEF Typed
  <2>. QED  BY <2>1 DEF Put
<1>4. accepted => \A f \in Fields :
        /\ f \in DOMAIN body.vals => merged.vals[f] = body.vals[f]
        /\ f \notin DOMAIN body.vals => merged.vals[f] = Val(f)
        /\ f \notin DOMAIN body.srcs => merged.vals[f] = Val(f)
  BY <1>3, Accepted DEF Acceptable
<1>5. \A f \in Fields : merged.srcs[f] = IF f \in DOMAIN body.srcs
                                         THEN body.srcs[f] ELSE server.content.srcs[f]
  BY <1>3, MergedSrcs
<1>6. merged \in Stored
  BY <1>3, MergedIsStored DEF Typed, Server
<1>7. /\ merged \notin {NoAnswer, Failed} /\ DOMAIN merged.srcs = Fields
      /\ DOMAIN server.content.srcs = Fields
  BY <1>6, StoredIs, AnswersAssumption DEF Stored, Typed, Server
<1>8. \A f \in DOMAIN body.srcs : body.srcs[f] # NoHash
  BY <1>3, DraftIs, PartIs, AbsenceAssumption
<1> HIDE DEF merged, modes, accepted, put
<1>9. SameFlight
  BY <1>1, AnswerSame
<1>10. \/ accepted /\ server'.content = merged
       \/ server' = server
  BY <1>1
<1>11. Dated'
  <2>1. Old(server.content.srcs)'
    <3>1. Old(server.content.srcs) /\ Old(body.srcs)
      BY <1>2 DEF Fits, Dated
    <3>. QED  BY <3>1, <1>1, <1>5, <1>7, <1>10 DEF Old
  <2>. QED  BY <2>1, <1>1, <1>2, <1>9 DEF Fits, Dated, SameFlight, Old
<1>12. Whole'
  BY <1>1 DEF Fits, Whole
<1>13. Sourced'
  <2>1. \A f \in Fields : server.content.srcs[f] # NoHash => server'.content.srcs[f] # NoHash
    BY <1>5, <1>8, <1>10
  <2>2. DOMAIN draft.modes \subseteq Fields
    BY DraftIs, PartIs, ModeAssumption DEF Typed
  <2>. QED  BY <2>1, <2>2, <1>1 DEF Fits, Sourced
<1>14. ASSUME ~disturbed' PROVE Quiet'
  <2>1. Quiet
    BY <1>1, <1>14 DEF Fits
  <2>2. /\ flight # NoFlight /\ flight.answer = NoAnswer /\ put.n = flight.n
        /\ Acceptable(flight.body)
    BY <1>1, <2>1 DEF Quiet, put
  <2>3. inbox' = << >> /\ body = flight.body
    BY <1>1, <1>9, <2>2, TailNumbered DEF put
  <2>4. /\ accepted /\ server'.content = merged
        /\ flight' = [flight EXCEPT !.answer = merged]
    BY <1>1, <2>2, <2>3 DEF Answer, accepted
  <2>5. flight \in InFlight
    BY <2>2 DEF Typed
  <2>6. /\ flight'.answer = merged /\ flight'.aborted = flight.aborted
        /\ flight'.draft = flight.draft /\ flight'.body = flight.body
        /\ flight' # NoFlight
    <3>1. flight' \in InFlight
      BY <1>6, <2>4, <2>5 DEF InFlight
    <3>. QED  BY <3>1, <2>4, <2>5, FlightAssumption DEF InFlight
  <2>7. Reached = lastSent /\ Reached' = flight.draft
    BY <1>7, <2>2, <2>6 DEF Reached
  <2>8. Puts' = {}
    BY <2>3 DEF Puts
  <2>9. /\ DOMAIN draft.srcs \subseteq Fields /\ DOMAIN draft.srcs \subseteq DOMAIN draft.vals
        /\ DOMAIN flight.draft.srcs \subseteq DOMAIN draft.srcs
    BY <2>1, <2>2, DraftIs, PartIs DEF Typed, Fits, Dated, Quiet
  <2>10. ASSUME NEW f \in DOMAIN draft.srcs
         PROVE  /\ f \in New(draft.vals, flight.draft.vals) <=> draft.vals[f] # Val(f)'
                /\ f \in New(draft.vals, flight.draft.vals) =>
                     draft.srcs[f] # server'.content.srcs[f]
    <3>1. CASE f \notin New(draft.vals, flight.draft.vals)
      <4>1. f \in DOMAIN flight.draft.vals /\ flight.draft.vals[f] = draft.vals[f]
        BY <2>9, <3>1 DEF New
      <4>2. Val(f)' = flight.draft.vals[f]
        BY <1>7, <2>6, <4>1 DEF Sync, Carried
      <4>. QED  BY <3>1, <4>1, <4>2
    <3>2. CASE f \in New(draft.vals, flight.draft.vals)
      <4>1. f \in New(draft.vals, lastSent.vals)
        BY <2>2, <3>2 DEF Sync, Based
      <4>2. draft.vals[f] # Val(f) /\ draft.srcs[f] # server.content.srcs[f]
        BY <2>1, <2>7, <4>1 DEF Quiet
      <4>3. Extends(body.vals, flight.draft.vals) /\ Extends(body.srcs, flight.draft.srcs)
        BY <2>2, <2>3 DEF Sync, Made, Fits, Dated
      <4>4. draft.vals[f] # Val(f)'
        BY <1>4, <2>4, <2>9, <3>2, <4>2, <4>3 DEF New, Extends, Val
      <4>5. ASSUME f \in DOMAIN body.srcs PROVE draft.srcs[f] # body.srcs[f]
        <5>1. /\ f \in DOMAIN flight.draft.vals /\ body.srcs[f] = flight.draft.vals[f]
              /\ draft.srcs[f] = draft.vals[f]
          BY <2>2, <4>3, <4>5 DEF Fits, Dated, Extends
        <5>. QED  BY <3>2, <5>1 DEF New
      <4>6. draft.srcs[f] # server'.content.srcs[f]
        BY <1>5, <2>4, <2>9, <4>2, <4>5
      <4>. QED  BY <3>2, <4>4, <4>6
    <3>. QED  BY <3>1, <3>2
  <2>11. ASSUME NEW f \in Fields \ DOMAIN draft.srcs
         PROVE  Held(f)' /\ Shown(f)' = Val(f)'
    <3>1. f \notin DOMAIN body.srcs
      BY <2>2, <2>3, <2>9 DEF Fits, Dated, Extends
    <3>2. Val(f)' = Val(f)
      BY <1>4, <2>4, <3>1 DEF Val
    <3>3. Held(f) /\ Shown(f) = Val(f)
      BY <2>1 DEF Quiet
    <3>. QED  BY <1>1, <2>8, <3>2, <3>3 DEF Held, NoSource, Shown
  <2>. QED  BY <1>1, <1>7, <2>1, <2>2, <2>3, <2>6, <2>7, <2>10, <2>11 DEF Quiet
<1>. QED  BY <1>11, <1>12, <1>13, <1>14 DEF Fits

LEMMA ConnectionLostFits ==
  ASSUME Typed, Fits, ConnectionLost PROVE Fits'
<1>1. /\ flight # NoFlight /\ flight' = [flight EXCEPT !.answer = Failed] /\ disturbed' = TRUE
      /\ UNCHANGED <<draft, lastSent, rev, canonical, inbox, server>>
  BY DEF ConnectionLost, editor, wire
<1>2. flight \in InFlight
  BY <1>1 DEF Typed
<1>3. SameFlight
  BY <1>1, <1>2 DEF InFlight, SameFlight
<1>4. Dated'
  BY <1>1, <1>3 DEF Fits, Dated, SameFlight, Old, Puts
<1>5. Whole' /\ Sourced'
  BY <1>1 DEF Fits, Whole, Sourced
<1>. QED  BY <1>1, <1>4, <1>5 DEF Fits

LEMMA VanishFits == ASSUME Typed, Fits, Vanish PROVE Fits'
<1>1. /\ inbox # << >> /\ inbox' = Tail(inbox)
      /\ flight # NoFlight /\ flight.n = Head(inbox).n =>
           flight.aborted \/ flight.answer = Failed
      /\ UNCHANGED <<draft, lastSent, status, rev, flight, canonical, server, disturbed>>
  BY DEF Vanish, store, editor, history
<1>2. disturbed
  BY <1>1 DEF Fits, Quiet
<1>3. Puts' \subseteq Puts /\ SameFlight
  BY <1>1, PutsTail DEF SameFlight
<1>. QED  BY <1>1, <1>2, <1>3, SameFits

(* What the draft adds to what the server has is what the server accepts.  *)
LEMMA DiffAcceptable ==
  ASSUME Typed, Sync, Fits, Quiet, flight = NoFlight
  PROVE  Acceptable(Diff(draft, lastSent))
<1> DEFINE body == Diff(draft, lastSent)
           up == AsUpsert(body)
           merged == MergeContent(server.content, up)
<1>1. draft \in Draft /\ lastSent \in Draft /\ body \in Draft
  BY DiffIsDraft DEF Typed
<1>2. /\ DOMAIN body.vals = NewParents(draft, lastSent)
      /\ DOMAIN body.srcs = DOMAIN draft.srcs \cap New(draft.vals, lastSent.vals)
      /\ DOMAIN body.modes = New(draft.modes, lastSent.modes)
      /\ Extends(body.vals, draft.vals) /\ Extends(body.srcs, draft.srcs)
  BY <1>1, DiffIs, DiffSrcs
<1>3. /\ DOMAIN draft.vals \subseteq Fields /\ DOMAIN draft.srcs \subseteq DOMAIN draft.vals
      /\ DOMAIN draft.modes \subseteq Fields
  BY <1>1, DraftIs, PartIs, ModeAssumption DEF Fits, Dated
<1>4. up.vals = body.vals /\ up.srcs = body.srcs /\ up.live = "keep"
  BY DEF AsUpsert
<1>5. \A f \in Fields :
        /\ merged.vals[f] = IF f \in DOMAIN body.vals THEN body.vals[f] ELSE Val(f)
        /\ merged.srcs[f] = IF f \in DOMAIN body.srcs
                            THEN body.srcs[f] ELSE server.content.srcs[f]
  BY <1>4 DEF MergeContent, Val
<1>6. \A f \in DOMAIN body.srcs : body.srcs[f] # NoHash
  BY <1>1, DraftIs, PartIs, AbsenceAssumption
<1> HIDE DEF body, up, merged
<1>7. WholeParents(body)
  <2> SUFFICES ASSUME NEW f \in DOMAIN body.vals, NEW g \in Siblings(f)
               PROVE  g \in DOMAIN body.vals
    BY DEF WholeParents
  <2>1. f \in DOMAIN draft.vals /\ Siblings(f) \cap New(draft.vals, lastSent.vals) # {}
    BY <1>2 DEF NewParents
  <2>2. Siblings(g) = Siblings(f)
    BY DEF Siblings
  <2>3. g \in DOMAIN draft.vals
    BY <2>1 DEF Fits, Whole
  <2>. QED  BY <1>2, <2>1, <2>2, <2>3 DEF NewParents
<1>8. ModesSourced(body, merged)
  <2> SUFFICES ASSUME NEW f \in DOMAIN body.modes
               PROVE  merged.srcs[f] # NoHash
    BY DEF ModesSourced
  <2>1. f \in DOMAIN draft.modes
    BY <1>2 DEF New
  <2>2. server.content.srcs[f] # NoHash /\ f \in Fields
    BY <1>3, <2>1 DEF Fits, Sourced
  <2>. QED  BY <1>5, <1>6, <2>2
<1>9. ASSUME NEW f \in Fields PROVE Paired(server.content, up, f)
  <2>1. Reached = lastSent
    BY DEF Reached
  <2>2. CASE f \in DOMAIN body.srcs
    <3>1. f \in DOMAIN draft.srcs /\ f \in New(draft.vals, lastSent.vals)
      BY <1>2, <2>2
    <3>2. f \in DOMAIN body.vals
      BY <1>2, <1>3, <3>1, Own DEF NewParents
    <3>3. merged.vals[f] = draft.vals[f] /\ body.srcs[f] = draft.srcs[f]
      BY <1>2, <1>5, <2>2, <3>2 DEF Extends
    <3>4. draft.vals[f] # Val(f) /\ draft.srcs[f] # server.content.srcs[f]
      BY <2>1, <3>1 DEF Quiet
    <3>. QED  BY <1>4, <2>2, <3>3, <3>4 DEF Paired, merged, Val
  <2>3. CASE f \notin DOMAIN body.srcs
    <3>1. merged.vals[f] = Val(f)
      <4>1. CASE f \notin DOMAIN body.vals
        BY <1>5, <4>1
      <4>2. CASE f \in DOMAIN body.vals
        <5>1. f \in DOMAIN draft.vals /\ merged.vals[f] = draft.vals[f]
          BY <1>2, <1>5, <4>2 DEF Extends
        <5>2. draft.vals[f] = Val(f)
          BY <1>2, <2>1, <2>3, <5>1 DEF Quiet, Shown
        <5>. QED  BY <5>1, <5>2
      <4>. QED  BY <4>1, <4>2
    <3>. QED  BY <1>4, <2>3, <3>1 DEF Paired, merged, Val
  <2>. QED  BY <2>2, <2>3
<1>10. ResortVerdict(server.content, up) = "ok"
  BY <1>4, <1>9 DEF ResortVerdict, SchemaValid
<1>. QED  BY <1>7, <1>8, <1>10 DEF Acceptable, body, up, merged

LEMMA FlushFits == ASSUME Typed, Typed', Sync, Fits, Flush PROVE Fits'
<1> DEFINE body == Diff(draft, lastSent)
           put == [n |-> sent + 1, body |-> body]
           new == [n |-> sent + 1, rev |-> rev, draft |-> draft, body |-> body,
                   answer |-> NoAnswer, aborted |-> FALSE]
<1>1. /\ UNCHANGED <<draft, lastSent, rev, canonical, server, disturbed>>
      /\ \/ UNCHANGED <<status, flight, inbox>>
         \/ status' = Mark("saved") /\ UNCHANGED <<flight, inbox>>
         \/ /\ flight = NoFlight /\ status' = Mark("saving")
            /\ flight' = new /\ inbox' = Append(inbox, put)
  BY DEF Flush, editor, wire, history
<1>2. CASE UNCHANGED <<flight, inbox>> /\ status' \in {status, Mark("saved")}
  <2>1. Puts' = Puts /\ SameFlight
    BY <1>2 DEF Puts, SameFlight
  <2>2. \A f \in Fields : status'[f] = "save-failed" => status[f] = "save-failed"
    BY <1>2 DEF Mark
  <2>. QED  BY <1>1, <1>2, <2>1, <2>2, SameFits
<1>3. CASE /\ flight = NoFlight /\ status' = Mark("saving")
           /\ flight' = new /\ inbox' = Append(inbox, put)
  <2>1. draft \in Draft /\ lastSent \in Draft
    BY DEF Typed
  <2>2. /\ new.body = body /\ new.draft = draft /\ new.answer = NoAnswer
        /\ new.aborted = FALSE /\ new.n = sent + 1
        /\ put.n = sent + 1 /\ put.body = body
    OBVIOUS
  <2>3. Extends(body.srcs, draft.srcs)
    BY <2>1, DiffSrcs
  <2>4. Quiet => Acceptable(body)
    BY <1>3, DiffAcceptable
  <2> HIDE DEF body, new, put
  <2>5. /\ Puts' = Puts \cup {put} /\ Len(inbox) \in Nat /\ Len(inbox') = Len(inbox) + 1
        /\ inbox'[Len(inbox) + 1] = put
    BY <1>3, PutsAppend
  <2>6. Old(body.srcs)
    BY <2>3 DEF Sync, Aged, Fits, Dated, Old, Extends
  <2>7. Dated'
    <3>1. \A p \in Puts' : Old(p.body.srcs)
      BY <2>2, <2>5, <2>6 DEF Fits, Dated
    <3>. QED  BY <3>1, <1>1, <1>3, <2>2, <2>3 DEF Fits, Dated, Old
  <2>8. Whole' /\ Sourced'
    BY <1>1 DEF Fits, Whole, Sourced
  <2>9. ASSUME ~disturbed' PROVE Quiet'
    <3>1. Quiet /\ Acceptable(body)
      BY <1>1, <2>4, <2>9 DEF Fits
    <3>2. inbox = << >>
      BY <1>3, <3>1 DEF Quiet
    <3>3. Len(inbox') = 1 /\ Head(inbox') = put
      <4>1. Len(inbox') = 1 /\ inbox'[1] = put
        BY <2>5, <3>2
      <4>2. inbox' \in Seq(Put)
        BY DEF Typed
      <4>. QED  BY <4>1, <4>2, HeadTailProperties, EmptySeq
    <3>4. flight' # NoFlight => flight'.answer = NoAnswer
      BY <1>3, <2>2
    <3>5. Reached' = Reached
      BY <1>1, <1>3, <3>4 DEF Reached
    <3>6. \A f : Held(f) /\ f \notin DOMAIN body.srcs => Held(f)'
      BY <1>1, <2>2, <2>5 DEF Held, NoSource, Val
    <3>7. DOMAIN body.srcs \subseteq DOMAIN draft.srcs
      BY <2>3 DEF Extends
    <3>8. flight' # NoFlight
      <4>1. flight' = NoFlight \/ flight' \in InFlight
        BY DEF Typed
      <4>2. new \in InFlight
        <5>1. draft \in Draft /\ body \in Draft /\ rev \in Nat /\ sent + 1 \in Nat
          BY <2>1, DiffIsDraft, BoundsAssumption DEF Typed, body
        <5>. QED  BY <5>1 DEF InFlight, new
      <4>. QED  BY <4>2, <1>3, FlightAssumption
    <3>9. \A f \in Fields : status'[f] = "save-failed" => status[f] = "save-failed"
      BY <1>3 DEF Mark
    <3>10. Acceptable(flight.body)'
      <4>1. flight'.body = body
        BY <1>3, <2>2
      <4>. QED  BY <4>1, <1>1, <3>1 DEF Acceptable
    <3>11. /\ flight'.answer = NoAnswer /\ ~flight'.aborted /\ flight'.draft = draft
           /\ Head(inbox').n = flight'.n /\ NoAnswer # Failed
      BY <1>3, <2>2, <3>3, AnswersAssumption
    <3>12. \A f : Shown(f)' = Shown(f) /\ Val(f)' = Val(f)
      BY <1>1 DEF Shown, Val
    <3>. QED  BY <1>1, <3>1, <3>3, <3>5, <3>6, <3>7, <3>8, <3>9, <3>10, <3>11, <3>12 DEF Quiet
  <2>. QED  BY <2>7, <2>8, <2>9 DEF Fits
<1>. QED  BY <1>1, <1>2, <1>3

LEMMA PatchWhole ==
  ASSUME Typed, Whole, NEW f \in Fields, NEW v
  PROVE  \A g \in DOMAIN PatchLeaf(draft, f, v) :
            Siblings(g) \subseteq DOMAIN PatchLeaf(draft, f, v)
<1> DEFINE vals == PatchLeaf(draft, f, v)
           known == {g \in Siblings(f) : canonical.vals[g] # Absent}
           both == [g \in DOMAIN draft.vals \cup known |->
                      IF g \in known THEN canonical.vals[g] ELSE draft.vals[g]]
           whole == IF Siblings(f) \cap DOMAIN draft.vals # {} \/ Siblings(f) = {f}
                    THEN draft.vals ELSE both
<1>1. DOMAIN vals = DOMAIN whole \cup {f}
  BY DEF PatchLeaf, With
<1>2. known = Siblings(f)
  BY StoredIs, AbsenceAssumption DEF Typed, Siblings
<1>3. DOMAIN draft.vals \subseteq Fields
  BY DraftIs, PartIs DEF Typed
<1>4. \A g, h \in Fields : g \in Siblings(h) => Siblings(g) = Siblings(h)
  BY DEF Siblings
<1>5. Siblings(f) \subseteq DOMAIN vals
  <2>1. CASE Siblings(f) \cap DOMAIN draft.vals # {}
    <3>1. PICK g \in Siblings(f) : g \in DOMAIN draft.vals
      BY <2>1
    <3>2. Siblings(g) \subseteq DOMAIN draft.vals /\ Siblings(g) = Siblings(f)
      BY <1>3, <1>4, <3>1 DEF Whole
    <3>3. whole = draft.vals
      BY <2>1
    <3> HIDE DEF vals, whole
    <3>. QED  BY <1>1, <3>2, <3>3
  <2>2. CASE Siblings(f) = {f}
    <3> HIDE DEF vals, whole
    <3>. QED  BY <1>1, <2>2
  <2>3. CASE Siblings(f) \cap DOMAIN draft.vals = {} /\ Siblings(f) # {f}
    <3>1. DOMAIN whole = DOMAIN draft.vals \cup known
      BY <2>3
    <3> HIDE DEF vals, whole, known
    <3>. QED  BY <1>1, <1>2, <3>1
  <2>. QED  BY <2>1, <2>2, <2>3
<1>6. /\ DOMAIN draft.vals \subseteq DOMAIN vals
      /\ \A g \in DOMAIN vals : g \in DOMAIN draft.vals \/ g \in Siblings(f)
  BY PatchIs, Own
<1> HIDE DEF vals
<1>7. \A g \in DOMAIN vals : Siblings(g) \subseteq DOMAIN vals
  <2> SUFFICES ASSUME NEW g \in DOMAIN vals PROVE Siblings(g) \subseteq DOMAIN vals
    OBVIOUS
  <2>1. CASE g \in DOMAIN draft.vals
    BY <1>6, <2>1 DEF Whole
  <2>2. CASE g \in Siblings(f)
    <3>1. g \in Fields
      BY <2>2 DEF Siblings
    <3>. QED  BY <1>4, <1>5, <2>2, <3>1
  <2>. QED  BY <1>6, <2>1, <2>2
<1>. QED  BY <1>7 DEF vals

LEMMA SetFieldValueFits ==
  ASSUME Typed, Typed', Sync, Sync', Fits, "retype" \notin UserOps,
         NEW f \in Fields, NEW raw \in Numerals, SetFieldValue(f, raw)
  PROVE  Fits'
<1> DEFINE v == raw.num
<1> DEFINE vals == PatchLeaf(draft, f, v)
           srcs == With(draft.srcs, f, rev + 1)
<1>1. /\ rev < MaxRev /\ rev' = rev + 1 /\ v = rev + 1
      /\ draft' = [draft EXCEPT !.vals = vals, !.srcs = srcs]
      /\ status' = [status EXCEPT ![f] = "dirty"]
      /\ UNCHANGED <<lastSent, flight, canonical, inbox, server, disturbed>>
  <2>1. /\ rev < MaxRev /\ rev' = rev + 1 /\ v = rev + 1
        /\ draft' = PatchSource([draft EXCEPT !.vals = vals], f, rev')
        /\ status' = [status EXCEPT ![f] = "dirty"]
        /\ UNCHANGED <<lastSent, flight, canonical, inbox, server, disturbed>>
    BY DEF SetFieldValue, Typable, wire
  <2>2. draft = [vals |-> draft.vals, srcs |-> draft.srcs, modes |-> draft.modes]
    BY DraftIs DEF Typed
  <2>. QED  BY <2>1, <2>2 DEF PatchSource
<1>2. draft'.vals = vals /\ draft'.srcs = srcs /\ draft'.modes = draft.modes
  BY <1>1, DraftIs DEF Typed
<1>3. /\ f \in DOMAIN draft'.vals /\ draft'.vals[f] = rev + 1
      /\ DOMAIN draft.vals \subseteq DOMAIN draft'.vals
      /\ \A g \in DOMAIN draft.vals \ {f} : draft'.vals[g] = draft.vals[g]
      /\ \A g \in DOMAIN draft'.vals \ (DOMAIN draft.vals \cup {f}) :
           g \in Siblings(f) /\ draft'.vals[g] = canonical.vals[g]
  BY <1>1, <1>2, PatchIs
<1>4. Whole'
  <2>1. \A g \in DOMAIN vals : Siblings(g) \subseteq DOMAIN vals
    BY PatchWhole DEF Fits
  <2> HIDE DEF vals
  <2>. QED  BY <1>2, <2>1 DEF Whole
<1>5. /\ DOMAIN draft'.srcs = DOMAIN draft.srcs \cup {f} /\ draft'.srcs[f] = rev + 1
      /\ \A g \in DOMAIN draft.srcs \ {f} : draft'.srcs[g] = draft.srcs[g]
  <2>1. /\ DOMAIN srcs = DOMAIN draft.srcs \cup {f} /\ srcs[f] = rev + 1
        /\ \A g \in DOMAIN draft.srcs \ {f} : srcs[g] = draft.srcs[g]
    BY DEF With
  <2> HIDE DEF srcs
  <2>. QED  BY <1>2, <2>1
<1> HIDE DEF vals, srcs
<1>6. \A old : Old(old) => Old(old)'
  <2>1. \A i : i \notin (rev + 1)..MaxRev => i \notin (rev' + 1)..MaxRev
    BY <1>1, BoundsAssumption DEF Typed
  <2>. QED  BY <2>1 DEF Old
<1>7. \A g \in DOMAIN draft.srcs : g \in DOMAIN draft.vals /\ draft.srcs[g] = draft.vals[g]
  BY DEF Fits, Dated
<1>8. Dated'
  <2>1. \A g \in DOMAIN draft'.srcs : g \in DOMAIN draft'.vals /\ draft'.srcs[g] = draft'.vals[g]
    BY <1>3, <1>5, <1>7
  <2>2. Old(server.content.srcs)' /\ \A p \in Puts' : Old(p.body.srcs)'
    <3>1. Old(server.content.srcs) /\ \A p \in Puts : Old(p.body.srcs)
      BY DEF Fits, Dated
    <3>2. Puts' = Puts
      BY <1>1 DEF Puts
    <3>3. \A i : i \notin (rev + 1)..MaxRev => i \notin (rev' + 1)..MaxRev
      BY <1>1, BoundsAssumption DEF Typed
    <3>. QED  BY <1>1, <3>1, <3>2, <3>3 DEF Old
  <2>. QED  BY <1>1, <2>1, <2>2 DEF Fits, Dated, Old
<1>9. Sourced'
  BY <1>1, <1>2 DEF Fits, Sourced
<1>10. ASSUME ~disturbed' PROVE Quiet'
  <2>1. Quiet
    BY <1>1, <1>10 DEF Fits
  <2>2. Reached' = Reached
    BY <1>1 DEF Reached
  <2>3. \A g : (Held(g)' <=> Held(g)) /\ Val(g)' = Val(g)
    BY <1>1 DEF Held, NoSource, Puts, Val
  <2>4. Acceptable(flight.body)' <=> Acceptable(flight.body)
    BY <1>1 DEF Acceptable
  <2>5. f \in New(draft'.vals, Reached.vals)
    BY <1>1, <1>3, FreshIsNew DEF Sync, Aged, Reached
  <2>6. draft'.vals[f] # Val(f) /\ draft'.srcs[f] # server.content.srcs[f]
    <3>1. rev + 1 \in (rev + 1)..MaxRev
      BY <1>1, BoundsAssumption DEF Typed
    <3>2. DOMAIN server.content.vals = Fields /\ DOMAIN server.content.srcs = Fields
      BY StoredIs DEF Typed, Server
    <3>. QED  BY <1>3, <1>5, <3>1, <3>2 DEF Sync, Aged, Fits, Dated, Old, Val
  <2>7. ASSUME NEW g \in DOMAIN draft'.srcs
        PROVE  /\ g \in New(draft'.vals, Reached.vals) <=> draft'.vals[g] # Val(g)
               /\ g \in New(draft'.vals, Reached.vals) =>
                    draft'.srcs[g] # server.content.srcs[g]
    <3>1. CASE g = f
      BY <2>5, <2>6, <3>1
    <3>2. CASE g # f
      <4>1. g \in DOMAIN draft.srcs /\ g \in DOMAIN draft.vals
        BY <1>5, <1>7, <3>2
      <4>2. draft'.vals[g] = draft.vals[g] /\ draft'.srcs[g] = draft.srcs[g]
        BY <1>3, <1>5, <3>2, <4>1
      <4>3. g \in New(draft'.vals, Reached.vals) <=> g \in New(draft.vals, Reached.vals)
        BY <1>3, <4>1, <4>2 DEF New
      <4>. QED  BY <2>1, <4>1, <4>2, <4>3 DEF Quiet
    <3>. QED  BY <3>1, <3>2
  <2>8. ASSUME NEW g \in Fields \ DOMAIN draft'.srcs
        PROVE  Held(g) /\ Shown(g)' = Val(g)
    <3>1. g # f /\ g \notin DOMAIN draft.srcs
      BY <1>5
    <3>2. Shown(g)' = Shown(g)
      BY <1>1, <1>3, <3>1 DEF Shown
    <3>. QED  BY <2>1, <3>1, <3>2 DEF Quiet
  <2>9. \A g \in Fields : status'[g] # "save-failed"
    BY <1>1, <2>1 DEF Quiet, Typed
  <2>10. flight # NoFlight => DOMAIN flight.draft.srcs \subseteq DOMAIN draft'.srcs
    BY <1>5, <2>1 DEF Quiet
  <2>. QED  BY <1>1, <2>1, <2>2, <2>3, <2>4, <2>7, <2>8, <2>9, <2>10 DEF Quiet
<1>. QED  BY <1>4, <1>8, <1>9, <1>10 DEF Fits

LEMMA ToggleModeFits ==
  ASSUME Typed, Fits, NEW f \in ModeFields, ToggleMode(f)
  PROVE  Fits'
<1> DEFINE modes == With(draft.modes, f, Toggled(f))
<1>1. /\ rev < MaxRev /\ rev' = rev + 1 /\ canonical.srcs[f] # NoHash
      /\ draft' = [draft EXCEPT !.modes = modes]
      /\ status' = [status EXCEPT ![f] = "dirty"]
      /\ UNCHANGED <<lastSent, flight, canonical, inbox, server, disturbed>>
  BY DEF ToggleMode, wire, editor, history
<1>2. draft'.vals = draft.vals /\ draft'.srcs = draft.srcs /\ draft'.modes = modes
  BY <1>1, DraftIs DEF Typed
<1>3. DOMAIN modes = DOMAIN draft.modes \cup {f}
  BY DEF With
<1> HIDE DEF modes
<1>4. Dated'
  <2>1. \A i : i \notin (rev + 1)..MaxRev => i \notin (rev' + 1)..MaxRev
    BY <1>1, BoundsAssumption DEF Typed
  <2>2. Puts' = Puts
    BY <1>1 DEF Puts
  <2>. QED  BY <1>1, <1>2, <2>1, <2>2 DEF Fits, Dated, Old
<1>5. Whole'
  BY <1>2 DEF Fits, Whole
<1>6. Sourced'
  BY <1>1, <1>2, <1>3, ModeAssumption DEF Fits, Sourced
<1>7. ASSUME ~disturbed' PROVE Quiet'
  <2>1. Quiet
    BY <1>1, <1>7 DEF Fits
  <2>2. Reached' = Reached
    BY <1>1 DEF Reached
  <2>3. \A g : (Held(g)' <=> Held(g)) /\ Val(g)' = Val(g) /\ Shown(g)' = Shown(g)
    BY <1>1, <1>2 DEF Held, NoSource, Puts, Val, Shown
  <2>4. Acceptable(flight.body)' <=> Acceptable(flight.body)
    BY <1>1 DEF Acceptable
  <2>5. \A g \in Fields : status'[g] # "save-failed"
    BY <1>1, <2>1 DEF Quiet, Typed
  <2>. QED  BY <1>1, <1>2, <2>1, <2>2, <2>3, <2>4, <2>5 DEF Quiet
<1>. QED  BY <1>4, <1>5, <1>6, <1>7 DEF Fits

LEMMA ClearFieldValueFits ==
  ASSUME Typed, Fits, NEW f \in Fields, ClearFieldValue(f)
  PROVE  Fits'
<1> DEFINE S == Siblings(f)
<1>1. /\ rev < MaxRev /\ rev' = rev + 1 /\ disturbed' = TRUE
      /\ flight' = IF Aborts(f) THEN [flight EXCEPT !.aborted = TRUE] ELSE flight
      /\ draft' = [draft EXCEPT !.vals = Without(@, S), !.srcs = Without(@, S)]
      /\ UNCHANGED <<canonical, inbox, server>>
  BY DEF ClearFieldValue, ClearLeaf, wire
<1> HIDE DEF S
<1>2. /\ draft'.vals = Without(draft.vals, S) /\ draft'.srcs = Without(draft.srcs, S)
      /\ draft'.modes = draft.modes
  BY <1>1, DraftIs DEF Typed
<1>3. /\ DOMAIN draft'.vals = DOMAIN draft.vals \ S /\ DOMAIN draft'.srcs = DOMAIN draft.srcs \ S
      /\ \A g \in DOMAIN draft'.vals : draft'.vals[g] = draft.vals[g]
      /\ \A g \in DOMAIN draft'.srcs : draft'.srcs[g] = draft.srcs[g]
  <2> DEFINE vals == Without(draft.vals, S)
             srcs == Without(draft.srcs, S)
  <2>1. DOMAIN vals = DOMAIN draft.vals \ S /\ DOMAIN srcs = DOMAIN draft.srcs \ S
    BY WithoutIs
  <2>2. \A g \in DOMAIN draft.vals \ S : vals[g] = draft.vals[g]
    BY WithoutIs
  <2>3. \A g \in DOMAIN draft.srcs \ S : srcs[g] = draft.srcs[g]
    BY WithoutIs
  <2>4. draft'.vals = vals /\ draft'.srcs = srcs
    BY <1>2
  <2> HIDE DEF vals, srcs
  <2>. QED  BY <2>1, <2>2, <2>3, <2>4
<1>4. SameFlight
  <2>1. CASE Aborts(f)
    <3>1. flight \in InFlight /\ flight' = [flight EXCEPT !.aborted = TRUE] /\ flight # NoFlight
      BY <2>1, <1>1 DEF Aborts, Typed
    <3>. QED  BY <3>1 DEF SameFlight, InFlight
  <2>2. CASE ~Aborts(f)
    BY <2>2, <1>1 DEF SameFlight
  <2>. QED  BY <2>1, <2>2
<1>5. Dated'
  <2>1. \A i : i \notin (rev + 1)..MaxRev => i \notin (rev' + 1)..MaxRev
    BY <1>1, BoundsAssumption DEF Typed
  <2>2. Puts' = Puts
    BY <1>1 DEF Puts
  <2>3. \A g \in DOMAIN draft'.srcs : g \in DOMAIN draft'.vals /\ draft'.srcs[g] = draft'.vals[g]
    BY <1>3 DEF Fits, Dated
  <2>. QED  BY <1>1, <1>4, <2>1, <2>2, <2>3 DEF Fits, Dated, Old, SameFlight
<1>6. Whole'
  <2> SUFFICES ASSUME NEW g \in DOMAIN draft'.vals, NEW h \in Siblings(g)
               PROVE  h \in DOMAIN draft'.vals
    BY DEF Whole
  <2>1. g \in DOMAIN draft.vals /\ g \notin S /\ g \in Fields
    BY <1>3, DraftIs, PartIs DEF Typed
  <2>2. h \in DOMAIN draft.vals
    BY <2>1 DEF Fits, Whole
  <2>3. h \notin S
    BY <2>1 DEF S, Siblings
  <2>. QED  BY <1>3, <2>2, <2>3
<1>7. Sourced'
  BY <1>1, <1>2 DEF Fits, Sourced
<1>. QED  BY <1>1, <1>5, <1>6, <1>7 DEF Fits

LEMMA SettleSuccessFits ==
  ASSUME Typed, Sync, Fits, SettleSuccess
  PROVE  Fits'
<1>1. /\ flight # NoFlight /\ flight.answer \notin {NoAnswer, Failed}
      /\ canonical' = flight.answer
      /\ \/ draft' = Nothing /\ lastSent' = Nothing /\ status' = Mark("saved")
         \/ lastSent' = flight.draft /\ UNCHANGED <<draft, status>>
      /\ flight' = NoFlight
      /\ UNCHANGED <<rev, inbox, server, disturbed>>
  BY DEF SettleSuccess, Finally, wire, history
<1>2. inbox = << >> /\ flight.answer = server.content
  BY <1>1 DEF Sync, Carried
<1>3. Puts' = {} /\ Puts = {}
  BY <1>1, <1>2, NoPuts DEF Puts
<1>4. \A f : Held(f)'
  BY <1>1, <1>2, <1>3 DEF Held, NoSource, Val
<1>5. \/ draft' = draft
      \/ DOMAIN draft'.vals = {} /\ DOMAIN draft'.srcs = {} /\ DOMAIN draft'.modes = {}
  BY <1>1, NothingIs
<1>6. Dated'
  BY <1>1, <1>3, <1>5 DEF Fits, Dated, Old
<1>7. Whole' /\ Sourced'
  BY <1>1, <1>2, <1>5 DEF Fits, Whole, Sourced
<1>8. ASSUME ~disturbed' PROVE Quiet'
  <2>1. Quiet
    BY <1>1, <1>8 DEF Fits
  <2>2. Reached' = lastSent' /\ Reached = flight.draft
    BY <1>1 DEF Reached
  <2>3. \A f \in Fields : status'[f] # "save-failed"
    BY <1>1, <2>1 DEF Quiet, Mark
  <2>4. \A f \in DOMAIN draft'.srcs :
          /\ f \in New(draft'.vals, lastSent'.vals) <=> draft'.vals[f] # Val(f)'
          /\ f \in New(draft'.vals, lastSent'.vals) => draft'.srcs[f] # server'.content.srcs[f]
    <3>1. CASE draft' = Nothing
      BY <3>1, NothingIs
    <3>2. CASE lastSent' = flight.draft /\ draft' = draft
      BY <1>1, <2>1, <2>2, <3>2 DEF Quiet, Val
    <3>. QED  BY <1>1, <3>1, <3>2
  <2>5. \A f \in Fields \ DOMAIN draft'.srcs : Shown(f)' = Val(f)'
    <3>1. \A f \in Fields \ DOMAIN draft.srcs : Shown(f) = Val(f)
      BY <2>1 DEF Quiet
    <3>. QED  BY <1>1, <1>2, <1>5, <3>1 DEF Shown, Val
  <2>. QED  BY <1>1, <1>2, <1>4, <2>2, <2>3, <2>4, <2>5 DEF Quiet
<1>. QED  BY <1>6, <1>7, <1>8 DEF Fits

LEMMA SettleFailureFits ==
  ASSUME Typed, Fits, SettleAbort \/ SettleError
  PROVE  Fits'
<1>1. /\ flight # NoFlight /\ (flight.aborted \/ flight.answer = Failed)
      /\ flight' = NoFlight
      /\ UNCHANGED <<draft, lastSent, canonical, rev, inbox, server, disturbed>>
  BY DEF SettleAbort, SettleError, Finally, wire, editor, history
<1>2. disturbed
  BY <1>1 DEF Fits, Quiet
<1>3. Puts' = Puts /\ SameFlight
  BY <1>1 DEF Puts, SameFlight
<1>. QED  BY <1>1, <1>2, <1>3, SameFits

LEMMA InitFits == ASSUME FreshValues, Init PROVE Fits
<1>1. /\ draft = Nothing /\ lastSent = Nothing /\ status = [f \in Fields |-> "none"]
      /\ rev = 0 /\ flight = NoFlight /\ canonical = InitContent /\ inbox = << >>
      /\ server.content = InitContent
  BY DEF Init
<1>2. /\ DOMAIN draft.vals = {} /\ DOMAIN draft.srcs = {} /\ DOMAIN draft.modes = {}
  BY <1>1, NothingIs
<1>3. Puts = {}
  BY <1>1, NoPuts
<1>4. Dated
  <2>1. DOMAIN InitContent.srcs = Fields
    BY ContentAssumption, StoredIs
  <2>2. rev + 1 = 1
    BY <1>1
  <2>. QED  BY <2>1, <2>2, <1>1, <1>2, <1>3 DEF Dated, Old, FreshValues
<1>5. Whole /\ Sourced
  BY <1>1, <1>2 DEF Whole, Sourced
<1>6. Quiet
  BY <1>1, <1>2, <1>3 DEF Quiet, Held, NoSource, Shown, Val
<1>. QED  BY <1>4, <1>5, <1>6 DEF Fits

LEMMA FitsInductive == ASSUME FreshValues PROVE Spec => [](IInv /\ Sync /\ Fits)
<1>1. ASSUME IInv, IInv', Sync, Sync', Fits, Next PROVE Fits'
  <2> USE <1>1
  <2>1. Typed /\ Typed' /\ "retype" \notin UserOps
    BY DEF IInv, FreshValues
  <2>2. ASSUME NEW f \in Fields, NEW raw \in Numerals, SetFieldValue(f, raw) PROVE Fits'
    BY <2>1, <2>2, SetFieldValueFits
  <2>3. ASSUME NEW f \in Fields, ClearFieldValue(f) PROVE Fits'
    BY <2>1, <2>3, ClearFieldValueFits
  <2>4. ASSUME NEW f \in ModeFields, ToggleMode(f) PROVE Fits'
    BY <2>1, <2>4, ToggleModeFits
  <2>5. ASSUME TimerFires \/ ModEnter PROVE Fits'
    BY <2>1, <2>5, FlushFits DEF TimerFires, ModEnter
  <2>6. ASSUME ServerHandles \/ ConnectionLost \/ Vanish PROVE Fits'
    BY <2>1, <2>6, ServerHandlesFits, ConnectionLostFits, VanishFits
  <2>7. ASSUME Settle PROVE Fits'
    BY <2>1, <2>7, SettleSuccessFits, SettleFailureFits DEF Settle
  <2>. QED  BY <2>2, <2>3, <2>4, <2>5, <2>6, <2>7 DEF Next
<1>2. ASSUME IInv, Fits, UNCHANGED vars PROVE Fits'
  <2>1. Typed
    BY <1>2 DEF IInv
  <2>2. UNCHANGED <<draft, lastSent, status, rev, flight, canonical, inbox, server, disturbed>>
    BY <1>2 DEF vars, store, editor, wire, history
  <2>3. Puts' = Puts /\ SameFlight
    BY <2>2 DEF Puts, SameFlight
  <2>. QED  BY <1>2, <2>1, <2>2, <2>3, SameFits
<1>3. IInv /\ IInv' /\ Sync /\ Sync' /\ Fits /\ [Next]_vars => Fits'
  BY <1>1, <1>2
<1>4. Init => Fits
  BY InitFits
<1>. QED  BY <1>3, <1>4, SyncInductive, PTL DEF Spec

(* buildBodyFromDraft and assertProvenancePairing: while nothing is        *)
(* cleared and no connection breaks, every body the client builds, at any  *)
(* moment of an earlier PUT's round trip, is one the server accepts.       *)
THEOREM NeverRefused == ASSUME FreshValues PROVE Spec => []UndisturbedNeverRefused
<1>1. Fits => UndisturbedNeverRefused
  BY DEF Fits, Quiet, UndisturbedNeverRefused
<1>. QED  BY <1>1, FitsInductive, PTL
=============================================================================
