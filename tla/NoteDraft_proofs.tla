-------------------------- MODULE NoteDraft_proofs --------------------------
(***************************************************************************)
(* Theorems about NoteDraft, for any note paths, texts, bounds and any     *)
(* interleaving of the analyst, the browser, the network and the server.   *)
(***************************************************************************)
EXTENDS NoteDraft, SequenceTheorems, TLAPS

(* The PUTs of a path are numbered; the one not aborted is the last.       *)
Numbered(p) ==
    /\ \A f \in flights[p] : f.n <= sent[p] /\ f.rev <= state[p].rev
    /\ \A f, g \in flights[p] : f.n = g.n => f = g
    /\ \A f \in flights[p] : ~f.aborted => f.n = sent[p] /\ state[p].ctrl = sent[p]

(* A PUT carries the draft of its revision, or a deletion.                 *)
Carries(p) ==
    \A f \in flights[p] :
        /\ f.kind = "delete" => f.text = NoNote
        /\ f.kind = "upsert" /\ f.rev = state[p].rev => f.text = state[p].draft
        /\ f.kind = "delete" /\ f.rev = state[p].rev => state[p].draft = Empty

(* A saved draft is the baseline.                                          *)
Agrees(p) == state[p].status = "saved" => Shows(state[p], state[p].lastSent)

OnItsWay(p) ==
    state[p].status \in {"dirty", "saving"} =>
        \/ state[p].timer
        \/ \E f \in flights[p] : f.rev = state[p].rev /\ ~f.aborted

(* The server's queue of a path is a tail of the PUTs sent.                *)
Queued(p) ==
    /\ inbox[p] \in Seq([n : Nat, text : NoteOrNone])
    /\ Len(inbox[p]) <= sent[p]
    /\ \A i \in 1..Len(inbox[p]) : inbox[p][i].n = sent[p] - Len(inbox[p]) + i

(* Without a failure: the current PUT is the last in the queue until it is *)
(* answered, and has then been applied; and a path that waits for nothing  *)
(* agrees with the server and with the cache.                              *)
Faultless(p) ==
    faults = 0 =>
        /\ state[p].status # "save-failed"
        /\ \A f \in flights[p] : f.answer # "error"
        /\ \A f \in flights[p] : ~f.aborted =>
            IF f.answer = "none"
            THEN /\ inbox[p] # << >>
                 /\ inbox[p][Len(inbox[p])].text = f.text
            ELSE inbox[p] = << >> /\ server[p] = f.text
        /\ state[p].status # "saving" =>
            /\ inbox[p] = << >>
            /\ server[p] = state[p].lastSent
            /\ fulfilled[p] = state[p].lastSent

(* A deleted note stays deleted, as long as nobody presses Escape.         *)
Deleted(p) ==
    intent[p] = "delete" =>
        /\ ~state[p].timer /\ state[p].draft = Empty
        /\ state[p].status \in {"saving", "saved", "save-failed"}
        /\ state[p].status = "save-failed" => state[p].kind = "delete"
        /\ \A f \in flights[p] : ~f.aborted =>
              f.kind = "delete" /\ state[p].kind = "delete"

Path(p) == /\ Numbered(p) /\ Carries(p) /\ Agrees(p) /\ OnItsWay(p) /\ Queued(p)
           /\ Faultless(p)
           /\ "escape" \notin UserOps => Deleted(p)

IInv == /\ TypeOK
        /\ latest = fulfilled
        /\ \A p \in Paths : Path(p)
-----------------------------------------------------------------------------
(* A NotesPathState, a field at a time.                                    *)
LEMMA InitIInv == Init => IInv
  BY TextsAssumption, BoundsAssumption
     DEF Init, IInv, TypeOK, PathState, NoteOrNone, Seed, Path, Numbered, Carries,
         Agrees, Shows, OnItsWay, Queued, Faultless, Deleted, Flight

(* What the steps of a path do to it.                                      *)
Still(p) == /\ state'[p] = state[p] /\ flights'[p] = flights[p]
            /\ sent'[p] = sent[p] /\ inbox'[p] = inbox[p]

Starts(p, s) ==
    /\ state'[p] = s
    /\ sent'[p] = sent[p] + 1
    /\ flights'[p] = Aborting(flights[p], state[p].ctrl) \cup {Started(s, sent[p] + 1)}
    /\ inbox'[p] = Append(inbox[p], [n |-> sent[p] + 1,
                                     text |-> Started(s, sent[p] + 1).text])

(* The state of a path that starts a PUT.                                  *)
Sendable(p, s) ==
    /\ s \in PathState
    /\ s.status = "saving" /\ ~s.timer /\ s.ctrl = sent[p] + 1
    /\ \/ s.kind = "upsert" /\ s.rev = state[p].rev /\ s.draft = state[p].draft
       \/ s.kind = "delete" /\ s.rev = state[p].rev + 1 /\ s.draft = Empty

LEMMA StillPath ==
    ASSUME IInv, NEW p \in Paths, Still(p), server'[p] = server[p],
           fulfilled'[p] = fulfilled[p], faults' = 0 => faults = 0,
           intent'[p] = intent[p]
    PROVE  Path(p)'
<1>. Path(p)
  BY DEF IInv
<1>1. Numbered(p)' /\ Carries(p)' /\ OnItsWay(p)'
  BY DEF Path, Still, Numbered, Carries, OnItsWay
<1>5. Agrees(p)'
  BY DEF Path, Still, Agrees, Shows
<1>4. Queued(p)'
  BY DEF Path, Still, Queued
<1>2. Faultless(p)'
  BY DEF Path, Still, Faultless
<1>3. ASSUME "escape" \notin UserOps PROVE Deleted(p)'
  BY <1>3 DEF IInv, Path, Still, Deleted
<1>. QED  BY <1>1, <1>2, <1>3, <1>4, <1>5 DEF Path

LEMMA StartsPath ==
    ASSUME IInv, NEW p \in Paths, NEW s, Sendable(p, s), Starts(p, s),
           server' = server, faults' = faults,
           "escape" \notin UserOps /\ intent'[p] = "delete" => s.kind = "delete"
    PROVE  /\ Path(p)'
           /\ flights'[p] \subseteq Flight
<1> DEFINE g == Started(s, sent[p] + 1)
           old == Aborting(flights[p], state[p].ctrl)
<1>1. /\ state[p] \in PathState /\ sent[p] \in Nat /\ flights[p] \subseteq Flight
      /\ s.rev \in Nat /\ s.draft \in Texts
  BY DEF IInv, TypeOK, Sendable, PathState
<1>2. /\ g = [n |-> sent[p] + 1, rev |-> s.rev, kind |-> s.kind,
              text |-> IF s.kind = "delete" THEN NoNote ELSE s.draft,
              answer |-> "none", aborted |-> FALSE]
      /\ g \in Flight
  BY <1>1 DEF Started, Flight, Sendable, NoteOrNone
<1>3. \A f \in old : /\ f \in Flight /\ f.aborted
                     /\ \E e \in flights[p] : f = [e EXCEPT !.aborted = TRUE]
  <2> SUFFICES ASSUME NEW f \in old
               PROVE  /\ f \in Flight /\ f.aborted
                      /\ \E e \in flights[p] : f = [e EXCEPT !.aborted = TRUE]
    OBVIOUS
  <2>1. PICK e \in flights[p] : f = [e EXCEPT !.aborted = @ \/ e.n = state[p].ctrl]
    BY DEF Aborting
  <2>2. e.aborted \/ e.n = state[p].ctrl
    BY DEF IInv, Path, Numbered
  <2>3. e \in Flight
    BY <1>1
  <2>4. f = [e EXCEPT !.aborted = TRUE]
    BY <2>1, <2>2, <2>3 DEF Flight
  <2>. QED  BY <2>3, <2>4 DEF Flight
<1>4. flights'[p] = old \cup {g} /\ state'[p] = s /\ sent'[p] = sent[p] + 1
  BY DEF Starts
<1>5. Numbered(p)'
  <2>1. \A f \in old : f.n <= sent[p] /\ f.rev <= state[p].rev /\ f.n \in Nat
    BY <1>1, <1>3 DEF IInv, Path, Numbered, Flight
  <2>2. \A f, h \in old : f.n = h.n => f = h
    BY <1>1, <1>3 DEF IInv, Path, Numbered, Flight
  <2>3. g.n = sent[p] + 1 /\ g.rev = s.rev /\ ~g.aborted
    BY <1>2
  <2>4. s.ctrl = sent[p] + 1 /\ s.rev >= state[p].rev /\ state[p].rev \in Nat
    BY <1>1 DEF Sendable, PathState
  <2>5. \A f \in flights'[p] : f \in old \/ f = g
    BY <1>4
  <2>6. \A f \in flights'[p] : f.n <= sent'[p] /\ f.rev <= s.rev
    <3>1. s.rev \in Nat /\ \A f \in old : f.rev \in Nat
      BY <1>1, <1>3 DEF Flight
    <3>. QED  BY <1>1, <1>4, <2>1, <2>3, <2>4, <2>5, <3>1
  <2>7. \A f, h \in flights'[p] : f.n = h.n => f = h
    <3>1. \A f \in old : f.n # g.n
      BY <1>1, <2>1, <2>3
    <3>. QED  BY <2>2, <2>5, <3>1
  <2>8. \A f \in flights'[p] : ~f.aborted => f.n = sent'[p] /\ s.ctrl = sent'[p]
    BY <1>3, <1>4, <2>3, <2>4, <2>5
  <2>. QED  BY <1>4, <2>6, <2>7, <2>8 DEF Numbered
<1>6. Carries(p)'
  <2>1. \A f \in old : /\ f.kind = "delete" => f.text = NoNote
                       /\ f.kind = "upsert" /\ f.rev = state[p].rev => f.text = state[p].draft
                       /\ f.kind = "delete" /\ f.rev = state[p].rev => state[p].draft = Empty
                       /\ f.rev <= state[p].rev /\ f.rev \in Nat
    BY <1>1, <1>3 DEF IInv, Path, Numbered, Carries, Flight
  <2>2. /\ g.kind = "delete" => g.text = NoNote
        /\ g.kind = "upsert" => g.text = s.draft
        /\ g.kind = s.kind
    BY <1>2
  <2>3. state[p].rev \in Nat
    BY <1>1 DEF PathState
  <2>. QED  BY <1>4, <2>1, <2>2, <2>3 DEF Carries, Sendable
<1>7. OnItsWay(p)' /\ Agrees(p)'
  BY <1>2, <1>4 DEF OnItsWay, Agrees, Sendable
<1>8. Queued(p)' /\ inbox'[p] # << >> /\ inbox'[p][Len(inbox'[p])].text = g.text
  <2> DEFINE e == [n |-> sent[p] + 1, text |-> g.text]
  <2>1. inbox'[p] = Append(inbox[p], e)
    BY DEF Starts
  <2>2. e \in [n : Nat, text : NoteOrNone]
    BY <1>1, <1>2 DEF Flight
  <2>3. inbox[p] \in Seq([n : Nat, text : NoteOrNone])
    BY DEF IInv, Path, Queued
  <2>4. /\ inbox'[p] \in Seq([n : Nat, text : NoteOrNone])
        /\ Len(inbox'[p]) = Len(inbox[p]) + 1
        /\ \A i \in 1..Len(inbox[p]) : inbox'[p][i] = inbox[p][i]
        /\ inbox'[p][Len(inbox[p]) + 1] = e
    BY <2>1, <2>2, <2>3
  <2>5. \A i \in 1..Len(inbox'[p]) : inbox'[p][i].n = sent'[p] - Len(inbox'[p]) + i
    <3> SUFFICES ASSUME NEW i \in 1..Len(inbox'[p])
                 PROVE  inbox'[p][i].n = sent'[p] - Len(inbox'[p]) + i
      OBVIOUS
    <3>1. Len(inbox[p]) \in Nat
      BY <2>3
    <3>2. CASE i \in 1..Len(inbox[p])
      <4>1. inbox[p][i].n = sent[p] - Len(inbox[p]) + i
        BY <3>2 DEF IInv, Path, Queued
      <4>2. inbox'[p][i] = inbox[p][i]
        BY <2>4, <3>2
      <4>3. sent'[p] = sent[p] + 1 /\ Len(inbox'[p]) = Len(inbox[p]) + 1
        BY <1>4, <2>4
      <4>. QED  BY <1>1, <3>1, <4>1, <4>2, <4>3
    <3>3. CASE i = Len(inbox[p]) + 1
      BY <1>1, <1>4, <2>4, <3>1, <3>3
    <3>. QED  BY <2>4, <3>1, <3>2, <3>3
  <2>. QED  BY <1>1, <1>4, <2>3, <2>4, <2>5 DEF IInv, Path, Queued
<1>9. Faultless(p)'
  <2>1. ASSUME faults = 0 PROVE \A f \in old \cup {g} : f.answer # "error"
    BY <1>1, <1>2, <1>3, <2>1 DEF IInv, Path, Faultless, Flight
  <2>2. \A f \in old \cup {g} : ~f.aborted => f = g
    BY <1>3
  <2>3. g.answer = "none" /\ s.status = "saving"
    BY <1>2 DEF Sendable
  <2>. QED  BY <1>4, <1>8, <2>1, <2>2, <2>3 DEF Faultless
<1>10. ASSUME "escape" \notin UserOps PROVE Deleted(p)'
  BY <1>2, <1>3, <1>4, <1>10 DEF Deleted, Sendable
<1>. QED  BY <1>2, <1>3, <1>4, <1>5, <1>6, <1>7, <1>8, <1>9, <1>10 DEF Path

(* The state of a path that is typed at or that has nothing to send.       *)
Quiet(p, s) ==
    /\ s \in PathState
    /\ s.ctrl = state[p].ctrl /\ s.lastSent = state[p].lastSent
    /\ \/ s.rev = state[p].rev /\ s.draft = state[p].draft
       \/ s.rev = state[p].rev + 1
    /\ s.status \in {"dirty", "saving"} => s.timer
    /\ s.status # "save-failed"
    /\ s.status = "saved" => Shows(s, s.lastSent)
    /\ s.status # "saving" => state[p].status # "saving"
    /\ intent'[p] = "delete" =>
          /\ intent[p] = "delete"
          /\ s = [state[p] EXCEPT !.timer = FALSE, !.status = "saved"]

LEMMA QuietPath ==
    ASSUME IInv, NEW p \in Paths, NEW s, Quiet(p, s), state'[p] = s,
           flights'[p] = flights[p], sent'[p] = sent[p], inbox'[p] = inbox[p],
           server' = server, fulfilled' = fulfilled, faults' = faults
    PROVE  Path(p)'
<1>. Path(p) /\ state[p] \in PathState /\ flights[p] \subseteq Flight
  BY DEF IInv, TypeOK
<1>. /\ state[p].rev \in Nat /\ s.rev \in Nat
     /\ \A f \in flights[p] : f.rev \in Nat /\ f.rev <= state[p].rev
  BY DEF PathState, Flight, Path, Numbered, Quiet
<1>1. Numbered(p)'
  BY DEF Path, Numbered, Quiet
<1>2. Carries(p)' /\ OnItsWay(p)' /\ Agrees(p)'
  BY DEF Path, Carries, OnItsWay, Agrees, Shows, Quiet
<1>3. Queued(p)'
  BY DEF Path, Queued
<1>4. Faultless(p)'
  BY DEF Path, Faultless, Quiet
<1>5. ASSUME "escape" \notin UserOps PROVE Deleted(p)'
  BY <1>5 DEF Path, Deleted, Quiet, PathState
<1>. QED  BY <1>1, <1>2, <1>3, <1>4, <1>5 DEF Path

(* A step of the analyst or of the debounce keeps the invariant.           *)
LEMMA MoveIInv ==
    ASSUME IInv, NEW S \in SUBSET Paths, NEW T \in SUBSET S, NEW next,
           Move(S, T, next), intent' \in [Paths -> {"none", "text", "delete"}],
           \A p \in Paths \ S : intent'[p] = intent[p],
           \A p \in S \ T : Quiet(p, next[p]),
           \A p \in T :
             /\ Sendable(p, next[p])
             /\ "escape" \notin UserOps /\ intent'[p] = "delete" =>
                   next[p].kind = "delete"
    PROVE  IInv'
<1>1. server' = server /\ fulfilled' = fulfilled /\ latest' = latest /\ faults' = faults
  BY DEF Move, cache
<1>2. \A p \in Paths \ S : Path(p)' /\ Still(p)
  <2> SUFFICES ASSUME NEW p \in Paths \ S PROVE Path(p)' /\ Still(p)
    OBVIOUS
  <2>1. Still(p)
    BY DEF Move, Still
  <2>. QED  BY <1>1, <2>1, StillPath
<1>3. \A p \in S \ T : Path(p)' /\ state'[p] = next[p] /\ flights'[p] = flights[p]
  <2> SUFFICES ASSUME NEW p \in S \ T
               PROVE  Path(p)' /\ state'[p] = next[p] /\ flights'[p] = flights[p]
    OBVIOUS
  <2>1. /\ state'[p] = next[p] /\ flights'[p] = flights[p]
        /\ sent'[p] = sent[p] /\ inbox'[p] = inbox[p]
    BY DEF Move
  <2>. QED  BY <1>1, <2>1, QuietPath
<1>4. \A p \in T : Path(p)' /\ flights'[p] \subseteq Flight /\ state'[p] = next[p]
  <2> SUFFICES ASSUME NEW p \in T
               PROVE  Path(p)' /\ flights'[p] \subseteq Flight /\ state'[p] = next[p]
    OBVIOUS
  <2>1. state'[p] = next[p] /\ sent'[p] = sent[p] + 1
    BY DEF Move
  <2>2. flights'[p] = Aborting(flights[p], state[p].ctrl)
                        \cup {Started(next[p], sent[p] + 1)}
    BY DEF Move
  <2>3. inbox'[p] = Append(inbox[p], [n |-> sent[p] + 1,
                                      text |-> Started(next[p], sent[p] + 1).text])
    BY DEF Move, Started
  <2>4. Starts(p, next[p])
    BY <2>1, <2>2, <2>3 DEF Starts
  <2>. QED  BY <1>1, <2>1, <2>4, StartsPath
<1>5. \A p \in Paths : Path(p)' /\ flights'[p] \subseteq Flight
  BY <1>2, <1>3, <1>4 DEF IInv, TypeOK, Still
<1>6. state' \in [Paths -> PathState]
  <2>1. \A p \in Paths : state'[p] \in PathState
    BY <1>2, <1>3, <1>4 DEF IInv, TypeOK, Still, Quiet, Sendable
  <2>2. state' = [p \in Paths |-> state'[p]]
    BY DEF Move
  <2>. QED  BY <2>1, <2>2
<1>7. sent' \in [Paths -> Nat]
  BY DEF Move, IInv, TypeOK
<1>8. inbox' \in [Paths -> Seq([n : Nat, text : NoteOrNone])]
  <2>1. \A p \in Paths : inbox'[p] \in Seq([n : Nat, text : NoteOrNone])
    BY <1>5 DEF Path, Queued
  <2>2. inbox' = [p \in Paths |-> inbox'[p]]
    BY DEF Move
  <2>. QED  BY <2>1, <2>2
<1>9. flights' \in [Paths -> SUBSET Flight]
  <2>1. flights' = [p \in Paths |-> flights'[p]]
    BY DEF Move
  <2>. QED  BY <1>5, <2>1
<1>. QED  BY <1>1, <1>5, <1>6, <1>7, <1>8, <1>9 DEF IInv, TypeOK

LEMMA DeletingIs ==
    ASSUME NEW s \in PathState, NEW n \in Nat, NEW d, d = Deleting(s, n)
    PROVE  /\ d \in PathState /\ d.draft = Empty /\ d.status = "saving" /\ ~d.timer
           /\ d.ctrl = n /\ d.rev = s.rev + 1 /\ d.kind = "delete"
<1> DEFINE d1 == [s EXCEPT !.timer = FALSE]
           d2 == [d1 EXCEPT !.ctrl = n]
           d3 == [d2 EXCEPT !.status = "saving"]
           d4 == [d3 EXCEPT !.kind = "delete"]
           d5 == [d4 EXCEPT !.draft = Empty]
<1>1. d1 \in PathState /\ d1.rev = s.rev /\ ~d1.timer
  BY DEF PathState
<1>2. d2 \in PathState /\ d2.rev = s.rev /\ ~d2.timer /\ d2.ctrl = n
  BY <1>1 DEF PathState
<1>3. /\ d3 \in PathState /\ d3.rev = s.rev /\ ~d3.timer /\ d3.ctrl = n
      /\ d3.status = "saving"
  BY <1>2 DEF PathState
<1>4. /\ d4 \in PathState /\ d4.rev = s.rev /\ ~d4.timer /\ d4.ctrl = n
      /\ d4.status = "saving" /\ d4.kind = "delete"
  BY <1>3 DEF PathState
<1>5. /\ d5 \in PathState /\ d5.rev = s.rev /\ ~d5.timer /\ d5.ctrl = n
      /\ d5.status = "saving" /\ d5.kind = "delete" /\ d5.draft = Empty
  BY <1>4, TextsAssumption DEF PathState
<1>6. d = [d5 EXCEPT !.rev = @ + 1]
  BY DEF Deleting
<1> HIDE DEF d5
<1>. QED  BY <1>5, <1>6 DEF PathState

LEMMA SendingIs ==
    ASSUME NEW s \in PathState, NEW n \in Nat, NEW d, d = Sending(s, n)
    PROVE  /\ d \in PathState /\ d.draft = s.draft /\ d.status = "saving" /\ ~d.timer
           /\ d.ctrl = n /\ d.rev = s.rev /\ d.kind = "upsert"
<1> DEFINE d1 == [s EXCEPT !.timer = FALSE]
           d2 == [d1 EXCEPT !.ctrl = n]
           d3 == [d2 EXCEPT !.status = "saving"]
<1>1. d1 \in PathState /\ d1.rev = s.rev /\ ~d1.timer /\ d1.draft = s.draft
  BY DEF PathState
<1>2. /\ d2 \in PathState /\ d2.rev = s.rev /\ ~d2.timer /\ d2.draft = s.draft
      /\ d2.ctrl = n
  BY <1>1 DEF PathState
<1>3. /\ d3 \in PathState /\ d3.rev = s.rev /\ ~d3.timer /\ d3.draft = s.draft
      /\ d3.ctrl = n /\ d3.status = "saving"
  BY <1>2 DEF PathState
<1>4. d = [d3 EXCEPT !.kind = "upsert"]
  BY DEF Sending
<1> HIDE DEF d3
<1>. QED  BY <1>3, <1>4 DEF PathState

LEMMA FlushIInv ==
    ASSUME IInv, NEW S \in SUBSET Paths, FlushPaths(S), intent' = intent,
           "escape" \notin UserOps => \A p \in S : Pending(p)
    PROVE  IInv'
<1> DEFINE T == {p \in S : Sends(state[p])}
           next == [p \in S |-> Flushed(state[p], sent[p] + 1)]
<1>. \A p \in Paths : state[p] \in PathState /\ sent[p] \in Nat /\ Path(p)
  BY DEF IInv, TypeOK
<1>1. Move(S, T, next)
  BY DEF FlushPaths
<1>2. ASSUME NEW p \in S \ T PROVE Quiet(p, next[p])
  <2>1. next[p] = [state[p] EXCEPT !.timer = FALSE, !.status = "saved"]
    BY <1>2 DEF Flushed, Sends
  <2>2. /\ state[p].status \notin {"save-failed", "saving"}
        /\ Shows(state[p], state[p].lastSent)
    BY <1>2 DEF Sends, NothingToSend, Shows
  <2>. QED  BY <2>1, <2>2 DEF Quiet, PathState, Shows
<1>3. ASSUME NEW p \in T PROVE Sendable(p, next[p])
  <2>1. CASE RetriesDelete(state[p])
    BY <2>1, DeletingIs DEF Flushed, Sendable
  <2>2. CASE ~RetriesDelete(state[p])
    <3>1. next[p] = Sending(state[p], sent[p] + 1)
      BY <1>3, <2>2 DEF Flushed, Sends
    <3>2. state[p] \in PathState /\ sent[p] + 1 \in Nat
      OBVIOUS
    <3> DEFINE d == Sending(state[p], sent[p] + 1)
    <3>3. /\ d \in PathState /\ d.draft = state[p].draft /\ d.status = "saving"
          /\ ~d.timer /\ d.ctrl = sent[p] + 1 /\ d.rev = state[p].rev
          /\ d.kind = "upsert"
      <4> HIDE DEF T, next
      <4>. QED  BY <3>2, SendingIs
    <3>4. next[p] = d
      BY <3>1
    <3> HIDE DEF d, next
    <3>. QED  BY <3>3, <3>4 DEF Sendable
  <2>. QED  BY <2>1, <2>2
<1>4. ASSUME NEW p \in T, "escape" \notin UserOps, intent'[p] = "delete"
      PROVE  next[p].kind = "delete"
  <2>1. RetriesDelete(state[p])
    BY <1>4 DEF Path, Deleted, Pending, RetriesDelete
  <2>. QED  BY <2>1 DEF Flushed, Deleting, PathState
<1>5. intent' \in [Paths -> {"none", "text", "delete"}]
  BY DEF IInv, TypeOK
<1> HIDE DEF T, next
<1>6. T \in SUBSET S
  BY DEF T
<1>. QED  BY <1>1, <1>2, <1>3, <1>4, <1>5, <1>6, MoveIInv

LEMMA SetDraftIInv ==
    ASSUME IInv, NEW p \in Paths, NEW t \in Texts, SetDraft(p, t)
    PROVE  IInv'
<1> DEFINE next == [q \in {p} |-> Typed(state[p], t)]
<1>. state[p] \in PathState
  BY DEF IInv, TypeOK
<1>1. Move({p}, {}, next)
  BY DEF SetDraft
<1>2. /\ intent' \in [Paths -> {"none", "text", "delete"}] /\ intent'[p] = "text"
      /\ \A q \in Paths \ {p} : intent'[q] = intent[q]
  BY DEF SetDraft, IInv, TypeOK
<1>3. Quiet(p, next[p])
  <2> DEFINE s1 == [state[p] EXCEPT !.draft = t,
                                    !.status = IF @ = "saving" THEN "saving" ELSE "dirty"]
             s2 == [s1 EXCEPT !.rev = @ + 1]
             s3 == [s2 EXCEPT !.kind = "upsert"]
  <2>1. /\ s1 \in PathState /\ s1.ctrl = state[p].ctrl /\ s1.rev = state[p].rev
        /\ s1.lastSent = state[p].lastSent
        /\ s1.status = IF state[p].status = "saving" THEN "saving" ELSE "dirty"
    BY DEF PathState
  <2>2. /\ s2 \in PathState /\ s2.ctrl = state[p].ctrl /\ s2.rev = state[p].rev + 1
        /\ s2.lastSent = state[p].lastSent
        /\ s2.status = IF state[p].status = "saving" THEN "saving" ELSE "dirty"
    <3> HIDE DEF s1
    <3>. QED  BY <2>1 DEF PathState
  <2>3. /\ s3 \in PathState /\ s3.ctrl = state[p].ctrl /\ s3.rev = state[p].rev + 1
        /\ s3.lastSent = state[p].lastSent
        /\ s3.status = IF state[p].status = "saving" THEN "saving" ELSE "dirty"
    <3> HIDE DEF s2
    <3>. QED  BY <2>2 DEF PathState
  <2>4. next[p] = [s3 EXCEPT !.timer = TRUE]
    BY DEF Typed
  <2> HIDE DEF s3, next
  <2>. QED  BY <1>2, <2>3, <2>4 DEF Quiet, PathState
<1> HIDE DEF next
<1>. QED  BY <1>1, <1>2, <1>3, MoveIInv

LEMMA DeleteNoteIInv ==
    ASSUME IInv, NEW p \in Paths, DeleteNote(p)
    PROVE  IInv'
<1> DEFINE next == [q \in {p} |-> Deleting(state[p], sent[p] + 1)]
<1>1. Move({p}, {p}, next)
  BY DEF DeleteNote
<1>2. /\ intent' \in [Paths -> {"none", "text", "delete"}]
      /\ \A q \in Paths \ {p} : intent'[q] = intent[q]
  BY DEF DeleteNote, IInv, TypeOK
<1>3. Sendable(p, next[p]) /\ next[p].kind = "delete"
  <2>1. state[p] \in PathState /\ sent[p] + 1 \in Nat
    BY DEF IInv, TypeOK
  <2> DEFINE d == Deleting(state[p], sent[p] + 1)
  <2>2. /\ d \in PathState /\ d.draft = Empty /\ d.status = "saving" /\ ~d.timer
        /\ d.ctrl = sent[p] + 1 /\ d.rev = state[p].rev + 1 /\ d.kind = "delete"
    BY <2>1, DeletingIs
  <2>3. next[p] = d
    OBVIOUS
  <2> HIDE DEF d, next
  <2>. QED  BY <2>2, <2>3 DEF Sendable
<1> HIDE DEF next
<1>. QED  BY <1>1, <1>2, <1>3, MoveIInv
-----------------------------------------------------------------------------
(* The answers.  A PUT that only gets its answer stays what it was.        *)
Same(f, g) == f.n = g.n /\ f.rev = g.rev /\ f.kind = g.kind /\ f.text = g.text
                /\ f.aborted = g.aborted

LEMMA AnsweredPath ==
    ASSUME IInv, NEW p \in Paths, state' = state, sent' = sent, intent' = intent,
           \A f \in flights'[p] : \E g \in flights[p] : Same(f, g),
           \A g \in flights[p] : \E f \in flights'[p] : Same(f, g),
           \A f, g \in flights'[p] : f.n = g.n => f = g
    PROVE  /\ Numbered(p)' /\ Carries(p)' /\ OnItsWay(p)' /\ Agrees(p)'
           /\ "escape" \notin UserOps => Deleted(p)'
<1>. Path(p)
  BY DEF IInv
<1>1. Numbered(p)'
  BY DEF Path, Numbered, Same
<1>2. Carries(p)'
  BY DEF Path, Carries, Same
<1>3. OnItsWay(p)' /\ Agrees(p)'
  BY DEF Path, OnItsWay, Agrees, Same
<1>4. ASSUME "escape" \notin UserOps PROVE Deleted(p)'
  BY <1>4 DEF Path, Deleted, Same
<1>. QED  BY <1>1, <1>2, <1>3, <1>4

(* What Answered does to the PUTs of a path.                               *)
LEMMA AnsweredIs ==
    ASSUME IInv, NEW p \in Paths, NEW n, NEW a \in {"ok", "error"},
           flights' = Answered(p, n, a)
    PROVE  /\ flights'[p] \subseteq Flight
           /\ \A f \in flights'[p] :
                \E g \in flights[p] :
                  /\ Same(f, g)
                  /\ f.answer = IF g.n = n /\ g.answer = "none" THEN a ELSE g.answer
           /\ \A g \in flights[p] : \E f \in flights'[p] : Same(f, g)
           /\ \A f, g \in flights'[p] : f.n = g.n => f = g
           /\ \A q \in Paths \ {p} : flights'[q] = flights[q]
<1> DEFINE to(g) == IF g.n = n /\ g.answer = "none" THEN [g EXCEPT !.answer = a] ELSE g
<1>1. flights[p] \subseteq Flight
  BY DEF IInv, TypeOK
<1>2. \A g \in flights[p] :
        /\ to(g) \in Flight /\ Same(to(g), g)
        /\ to(g).answer = IF g.n = n /\ g.answer = "none" THEN a ELSE g.answer
  BY <1>1 DEF Flight, Same
<1>3. \A g, h \in flights[p] : g.n = h.n => g = h
  BY DEF IInv, Path, Numbered
<1>4. flights'[p] = {to(g) : g \in flights[p]}
  BY DEF Answered, IInv, TypeOK
<1>5. \A q \in Paths \ {p} : flights'[q] = flights[q]
  BY DEF Answered, IInv, TypeOK
<1> HIDE DEF to
<1>6. \A f \in flights'[p] : \E g \in flights[p] : f = to(g)
  BY <1>4
<1>7. \A g \in flights[p] : to(g) \in flights'[p]
  BY <1>4
<1>8. \A f, g \in flights'[p] : f.n = g.n => f = g
  BY <1>2, <1>3, <1>6 DEF Same
<1>. QED  BY <1>2, <1>5, <1>6, <1>7, <1>8

(* The next PUT leaves the server's queue.                                 *)
LEMMA TailQueued ==
    ASSUME IInv, NEW p \in Paths, inbox[p] # << >>, inbox' = [inbox EXCEPT ![p] = Tail(@)],
           sent' = sent
    PROVE  /\ Queued(p)'
           /\ inbox' \in [Paths -> Seq([n : Nat, text : NoteOrNone])]
           /\ \A q \in Paths \ {p} : inbox'[q] = inbox[q]
           /\ Head(inbox[p]) \in [n : Nat, text : NoteOrNone]
           /\ Len(inbox[p]) = 1 => inbox'[p] = << >> /\ Head(inbox[p]).n = sent[p]
                                      /\ Head(inbox[p]) = inbox[p][Len(inbox[p])]
           /\ Len(inbox[p]) # 1 => /\ inbox'[p] # << >> /\ Head(inbox[p]).n # sent[p]
                                   /\ inbox'[p][Len(inbox'[p])] = inbox[p][Len(inbox[p])]
<1> DEFINE R == [n : Nat, text : NoteOrNone]
           q == inbox[p]
<1>1. /\ q \in Seq(R) /\ inbox'[p] = Tail(q) /\ sent[p] \in Nat
      /\ \A r \in Paths \ {p} : inbox'[r] = inbox[r]
      /\ Len(q) <= sent[p] /\ \A i \in 1..Len(q) : q[i].n = sent[p] - Len(q) + i
      /\ inbox \in [Paths -> Seq(R)]
  BY DEF IInv, TypeOK, Path, Queued
<1> HIDE DEF R
<1>2. /\ Len(q) \in Nat \ {0} /\ Len(Tail(q)) = Len(q) - 1 /\ Tail(q) \in Seq(R)
      /\ \A i \in 1..Len(Tail(q)) : Tail(q)[i] = q[i + 1]
      /\ Head(q) = q[1] /\ Head(q) \in R
  BY <1>1
<1>3. inbox' \in [Paths -> Seq(R)]
  BY <1>1, <1>2
<1>4. \A i \in 1..Len(Tail(q)) : Tail(q)[i].n = sent[p] - Len(Tail(q)) + i
  <2> SUFFICES ASSUME NEW i \in 1..Len(Tail(q))
               PROVE  Tail(q)[i].n = sent[p] - Len(Tail(q)) + i
    OBVIOUS
  <2>1. Tail(q)[i] = q[i + 1] /\ i + 1 \in 1..Len(q)
    BY <1>2
  <2>2. q[i + 1].n = sent[p] - Len(q) + (i + 1)
    BY <1>1, <2>1
  <2>3. Len(q) \in Nat /\ Len(Tail(q)) = Len(q) - 1 /\ sent[p] \in Nat /\ i \in Nat
    BY <1>1, <1>2
  <2>. QED  BY <2>1, <2>2, <2>3
<1>5. Queued(p)'
  BY <1>1, <1>2, <1>4 DEF Queued, R
<1>6. Head(q).n = sent[p] - Len(q) + 1
  BY <1>1, <1>2
<1>7. ASSUME Len(q) = 1
      PROVE  Tail(q) = << >> /\ Head(q).n = sent[p] /\ Head(q) = q[Len(q)]
  BY <1>1, <1>2, <1>6, <1>7, EmptySeq
<1>8. ASSUME Len(q) # 1
      PROVE  Tail(q) # << >> /\ Head(q).n # sent[p] /\ Tail(q)[Len(Tail(q))] = q[Len(q)]
  <2>1. Len(Tail(q)) \in 1..Len(Tail(q)) /\ Len(Tail(q)) # 0
    <3>1. Len(q) \in Nat \ {0} /\ Len(q) # 1 /\ Len(Tail(q)) = Len(q) - 1
      BY <1>2, <1>8
    <3> HIDE DEF q
    <3>. QED  BY <3>1
  <2>2. Tail(q) # << >>
    BY <2>1, EmptySeq
  <2>3. Tail(q)[Len(Tail(q))] = q[Len(q)]
    <3>1. Tail(q)[Len(Tail(q))] = q[Len(Tail(q)) + 1]
      BY <1>2, <2>1
    <3>2. Len(Tail(q)) + 1 = Len(q)
      BY <1>2
    <3>. QED  BY <3>1, <3>2
  <2>4. Head(q).n # sent[p]
    BY <1>1, <1>2, <1>6, <1>8
  <2>. QED  BY <2>2, <2>3, <2>4
<1>. QED  BY <1>1, <1>2, <1>3, <1>5, <1>7, <1>8 DEF R

LEMMA OthersPath ==
    ASSUME IInv, NEW p \in Paths, NEW q \in Paths \ {p},
           state'[q] = state[q], flights'[q] = flights[q], sent' = sent,
           inbox'[q] = inbox[q], server'[q] = server[q], fulfilled'[q] = fulfilled[q],
           faults' = faults \/ faults' # 0, intent' = intent
    PROVE  Path(q)'
<1>1. Still(q)
  BY DEF Still
<1>. QED  BY <1>1, StillPath

LEMMA ServerApplyIInv ==
    ASSUME IInv, NEW p \in Paths, ServerApply(p)
    PROVE  IInv'
<1> DEFINE h == Head(inbox[p])
<1>1. /\ inbox[p] # << >> /\ inbox' = [inbox EXCEPT ![p] = Tail(@)]
      /\ flights' = Answered(p, h.n, "ok") /\ server' = [server EXCEPT ![p] = h.text]
      /\ state' = state /\ sent' = sent /\ fulfilled' = fulfilled /\ latest' = latest
      /\ intent' = intent /\ faults' = faults
  BY DEF ServerApply, cache
<1>2. /\ Queued(p)'
      /\ inbox' \in [Paths -> Seq([n : Nat, text : NoteOrNone])]
      /\ \A q \in Paths \ {p} : inbox'[q] = inbox[q]
      /\ h \in [n : Nat, text : NoteOrNone]
      /\ Len(inbox[p]) = 1 => inbox'[p] = << >> /\ h.n = sent[p]
                                 /\ h = inbox[p][Len(inbox[p])]
      /\ Len(inbox[p]) # 1 => /\ inbox'[p] # << >> /\ h.n # sent[p]
                              /\ inbox'[p][Len(inbox'[p])] = inbox[p][Len(inbox[p])]
  BY <1>1, TailQueued
<1>3. /\ flights'[p] \subseteq Flight
      /\ \A f \in flights'[p] :
           \E g \in flights[p] :
             /\ Same(f, g)
             /\ f.answer = IF g.n = h.n /\ g.answer = "none" THEN "ok" ELSE g.answer
      /\ \A g \in flights[p] : \E f \in flights'[p] : Same(f, g)
      /\ \A f, g \in flights'[p] : f.n = g.n => f = g
      /\ \A q \in Paths \ {p} : flights'[q] = flights[q]
  BY <1>1, AnsweredIs
<1>4. /\ Numbered(p)' /\ Carries(p)' /\ OnItsWay(p)' /\ Agrees(p)'
      /\ "escape" \notin UserOps => Deleted(p)'
  BY <1>1, <1>3, AnsweredPath
<1>5. server' \in [Paths -> NoteOrNone] /\ server'[p] = h.text
      /\ \A q \in Paths \ {p} : server'[q] = server[q]
  BY <1>1, <1>2 DEF IInv, TypeOK
<1>6. Faultless(p)'
  <2> SUFFICES ASSUME faults = 0
               PROVE  Faultless(p)'
    BY <1>1 DEF Faultless
  <2>1. Faultless(p) /\ Numbered(p)
    BY DEF IInv, Path
  <2>2. state[p].status = "saving" /\ state[p].status # "save-failed"
    BY <1>1, <2>1 DEF Faultless
  <2>3. \A f \in flights'[p] : f.answer # "error"
    BY <1>3, <2>1 DEF Faultless
  <2>4. ASSUME NEW f \in flights'[p], ~f.aborted
        PROVE  IF f.answer = "none"
               THEN /\ inbox'[p] # << >>
                    /\ inbox'[p][Len(inbox'[p])].text = f.text
               ELSE inbox'[p] = << >> /\ server'[p] = f.text
    <3>1. PICK g \in flights[p] :
             /\ Same(f, g)
             /\ f.answer = IF g.n = h.n /\ g.answer = "none" THEN "ok" ELSE g.answer
      BY <1>3
    <3>2. ~g.aborted /\ g.n = sent[p] /\ g.text = f.text
      BY <2>1, <2>4, <3>1 DEF Numbered, Same
    <3>3. g.answer = "none" /\ inbox[p][Len(inbox[p])].text = g.text
      BY <1>1, <2>1, <3>2 DEF Faultless
    <3>. QED  BY <1>2, <1>5, <3>1, <3>2, <3>3
  <2>. QED  BY <1>1, <2>2, <2>3, <2>4 DEF Faultless
<1>7. \A q \in Paths \ {p} : Path(q)'
  BY <1>1, <1>2, <1>3, <1>5, OthersPath
<1>8. \A q \in Paths : Path(q)'
  BY <1>2, <1>4, <1>6, <1>7 DEF Path
<1>9. flights' \in [Paths -> SUBSET Flight]
  <2>1. \A q \in Paths : flights'[q] \in SUBSET Flight
    BY <1>3 DEF IInv, TypeOK
  <2>2. flights' = [q \in Paths |-> flights'[q]]
    BY <1>1 DEF Answered, IInv, TypeOK
  <2>. QED  BY <2>1, <2>2
<1>. QED  BY <1>1, <1>2, <1>5, <1>8, <1>9 DEF IInv, TypeOK

LEMMA ServerRejectIInv ==
    ASSUME IInv, NEW p \in Paths, ServerReject(p)
    PROVE  IInv'
<1> DEFINE h == Head(inbox[p])
<1>1. /\ inbox[p] # << >> /\ inbox' = [inbox EXCEPT ![p] = Tail(@)]
      /\ flights' = Answered(p, h.n, "error") /\ server' = server
      /\ state' = state /\ sent' = sent /\ fulfilled' = fulfilled /\ latest' = latest
      /\ intent' = intent /\ faults' = faults + 1 /\ faults < MaxFaults
  BY DEF ServerReject, cache
<1>2. faults' \in 0..MaxFaults /\ faults' # 0
  BY <1>1, BoundsAssumption DEF IInv, TypeOK
<1>3. /\ Queued(p)'
      /\ inbox' \in [Paths -> Seq([n : Nat, text : NoteOrNone])]
      /\ \A q \in Paths \ {p} : inbox'[q] = inbox[q]
  BY <1>1, TailQueued
<1>4. /\ flights'[p] \subseteq Flight
      /\ \A f \in flights'[p] : \E g \in flights[p] : Same(f, g)
      /\ \A g \in flights[p] : \E f \in flights'[p] : Same(f, g)
      /\ \A f, g \in flights'[p] : f.n = g.n => f = g
      /\ \A q \in Paths \ {p} : flights'[q] = flights[q]
  BY <1>1, AnsweredIs
<1>5. /\ Numbered(p)' /\ Carries(p)' /\ OnItsWay(p)' /\ Agrees(p)'
      /\ "escape" \notin UserOps => Deleted(p)'
  BY <1>1, <1>4, AnsweredPath
<1>6. Faultless(p)'
  BY <1>2 DEF Faultless
<1>7. \A q \in Paths \ {p} : Path(q)'
  BY <1>1, <1>2, <1>3, <1>4, OthersPath
<1>8. \A q \in Paths : Path(q)'
  BY <1>3, <1>5, <1>6, <1>7 DEF Path
<1>9. flights' \in [Paths -> SUBSET Flight]
  <2>1. \A q \in Paths : flights'[q] \in SUBSET Flight
    BY <1>4 DEF IInv, TypeOK
  <2>2. flights' = [q \in Paths |-> flights'[q]]
    BY <1>1 DEF Answered, IInv, TypeOK
  <2>. QED  BY <2>1, <2>2
<1>. QED  BY <1>1, <1>2, <1>3, <1>8, <1>9 DEF IInv, TypeOK

LEMMA ConnectionLostIInv ==
    ASSUME IInv, NEW p \in Paths, NEW f \in flights[p], ConnectionLost(p, f)
    PROVE  IInv'
<1> DEFINE g == [f EXCEPT !.answer = "error"]
<1>1. /\ flights' = [flights EXCEPT ![p] = (@ \ {f}) \cup {g}]
      /\ inbox' = inbox /\ server' = server
      /\ state' = state /\ sent' = sent /\ fulfilled' = fulfilled /\ latest' = latest
      /\ intent' = intent /\ faults' = faults + 1 /\ faults < MaxFaults
  BY DEF ConnectionLost, cache
<1>2. faults' \in 0..MaxFaults /\ faults' # 0
  BY <1>1, BoundsAssumption DEF IInv, TypeOK
<1>3. f \in Flight /\ g \in Flight /\ Same(g, f)
  <2>1. f \in Flight
    BY DEF IInv, TypeOK
  <2>. QED  BY <2>1 DEF Flight, Same
<1>4. /\ flights' \in [Paths -> SUBSET Flight]
      /\ flights'[p] = (flights[p] \ {f}) \cup {g}
      /\ \A q \in Paths \ {p} : flights'[q] = flights[q]
  BY <1>1, <1>3 DEF IInv, TypeOK
<1> HIDE DEF g
<1>5. \A e \in flights'[p] : \E d \in flights[p] : Same(e, d)
  BY <1>3, <1>4 DEF Same
<1>6. \A d \in flights[p] : \E e \in flights'[p] : Same(e, d)
  BY <1>3, <1>4 DEF Same
<1>7. \A d, e \in flights'[p] : d.n = e.n => d = e
  BY <1>3, <1>4 DEF Same, IInv, Path, Numbered
<1>8. /\ Numbered(p)' /\ Carries(p)' /\ OnItsWay(p)' /\ Agrees(p)'
      /\ "escape" \notin UserOps => Deleted(p)'
  BY <1>1, <1>5, <1>6, <1>7, AnsweredPath
<1>9. Faultless(p)' /\ Queued(p)'
  BY <1>1, <1>2 DEF IInv, Path, Faultless, Queued
<1>10. \A q \in Paths \ {p} : Path(q)'
  BY <1>1, <1>2, <1>4, OthersPath
<1>11. \A q \in Paths : Path(q)'
  BY <1>8, <1>9, <1>10 DEF Path
<1>. QED  BY <1>1, <1>2, <1>4, <1>11 DEF IInv, TypeOK

LEMMA VanishIInv ==
    ASSUME IInv, NEW p \in Paths, Vanish(p)
    PROVE  IInv'
<1>1. /\ inbox[p] # << >> /\ inbox' = [inbox EXCEPT ![p] = Tail(@)]
      /\ \A f \in flights[p] : f.n = Head(inbox[p]).n => f.aborted \/ f.answer = "error"
      /\ state' = state /\ flights' = flights /\ sent' = sent /\ server' = server
      /\ fulfilled' = fulfilled /\ latest' = latest
      /\ intent' = intent /\ faults' = faults
  BY DEF Vanish, cache
<1>2. /\ Queued(p)'
      /\ inbox' \in [Paths -> Seq([n : Nat, text : NoteOrNone])]
      /\ \A q \in Paths \ {p} : inbox'[q] = inbox[q]
      /\ Len(inbox[p]) = 1 => Head(inbox[p]).n = sent[p]
      /\ Len(inbox[p]) # 1 => /\ inbox'[p] # << >>
                              /\ inbox'[p][Len(inbox'[p])] = inbox[p][Len(inbox[p])]
  BY <1>1, TailQueued
<1>. Path(p)
  BY DEF IInv
<1>3. /\ Numbered(p)' /\ Carries(p)' /\ OnItsWay(p)' /\ Agrees(p)'
      /\ "escape" \notin UserOps => Deleted(p)'
  BY <1>1 DEF Path, Numbered, Carries, OnItsWay, Agrees, Deleted
<1>4. Faultless(p)'
  <2> SUFFICES ASSUME faults = 0
               PROVE  Faultless(p)'
    BY <1>1 DEF Faultless
  <2>1. /\ state[p].status = "saving" /\ state[p].status # "save-failed"
        /\ \A f \in flights[p] : f.answer # "error"
    BY <1>1 DEF Path, Faultless
  <2>2. ASSUME NEW f \in flights[p], ~f.aborted
        PROVE  /\ f.answer = "none" /\ inbox'[p] # << >>
               /\ inbox'[p][Len(inbox'[p])].text = f.text
    <3>1. f.answer = "none" /\ inbox[p][Len(inbox[p])].text = f.text
      BY <1>1, <2>2 DEF Path, Faultless
    <3>2. f.n = sent[p]
      BY <2>2 DEF Path, Numbered
    <3>3. Len(inbox[p]) # 1
      BY <1>1, <1>2, <2>1, <2>2, <3>2
    <3>. QED  BY <1>2, <3>1, <3>3
  <2>. QED  BY <1>1, <2>1, <2>2 DEF Faultless
<1>5. \A q \in Paths \ {p} : Path(q)'
  BY <1>1, <1>2, OthersPath
<1>6. \A q \in Paths : Path(q)'
  BY <1>2, <1>3, <1>4, <1>5 DEF Path
<1>. QED  BY <1>1, <1>2, <1>6 DEF IInv, TypeOK
-----------------------------------------------------------------------------
(* A PUT settles: it leaves the path, and the path becomes s.              *)
Leaves(p, f, s) ==
    /\ flights' = [flights EXCEPT ![p] = @ \ {f}]
    /\ state' = [state EXCEPT ![p] = s]
    /\ sent' = sent /\ inbox' = inbox /\ server' = server
    /\ intent' = intent /\ faults' = faults

LEMMA LeavesIs ==
    ASSUME IInv, NEW p \in Paths, NEW f \in flights[p], NEW s \in PathState,
           Leaves(p, f, s), s.rev = state[p].rev, s.draft = state[p].draft,
           \A g \in flights[p] \ {f} : ~g.aborted => s.ctrl = state[p].ctrl
    PROVE  /\ flights' \in [Paths -> SUBSET Flight] /\ state' \in [Paths -> PathState]
           /\ state'[p] = s /\ flights'[p] = flights[p] \ {f}
           /\ \A q \in Paths \ {p} : state'[q] = state[q] /\ flights'[q] = flights[q]
           /\ Numbered(p)' /\ Carries(p)' /\ Queued(p)'
<1>1. /\ flights' \in [Paths -> SUBSET Flight] /\ state' \in [Paths -> PathState]
      /\ state'[p] = s /\ flights'[p] = flights[p] \ {f}
      /\ \A q \in Paths \ {p} : state'[q] = state[q] /\ flights'[q] = flights[q]
  BY DEF Leaves, IInv, TypeOK
<1>. Path(p) /\ sent' = sent /\ inbox' = inbox
  BY DEF IInv, Leaves
<1>2. Numbered(p)'
  BY <1>1 DEF Path, Numbered
<1>3. Carries(p)' /\ Queued(p)'
  BY <1>1 DEF Path, Carries, Queued
<1>. QED  BY <1>1, <1>2, <1>3

LEMMA ReleasedIs ==
    ASSUME IInv, NEW p \in Paths, NEW f \in flights[p], NEW s, s = Released(state[p], f)
    PROVE  /\ s \in PathState /\ s.rev = state[p].rev /\ s.draft = state[p].draft
           /\ s.status = state[p].status /\ s.timer = state[p].timer
           /\ s.kind = state[p].kind /\ s.lastSent = state[p].lastSent
           /\ \A g \in flights[p] \ {f} : ~g.aborted => s.ctrl = state[p].ctrl
<1>1. state[p] \in PathState
  BY DEF IInv, TypeOK
<1>2. \A g \in flights[p] \ {f} : ~g.aborted => state[p].ctrl # f.n
  BY DEF IInv, Path, Numbered
<1>. QED  BY <1>1, <1>2 DEF Released, PathState

(* A PUT that settles without a verdict on the draft.                      *)
LEMMA ReleasesIInv ==
    ASSUME IInv, NEW p \in Paths, NEW f \in flights[p],
           Leaves(p, f, Released(state[p], f)), fulfilled' = fulfilled, latest' = latest,
           f.aborted \/ f.rev # state[p].rev
    PROVE  IInv'
<1> DEFINE s == Released(state[p], f)
<1>1. /\ s \in PathState /\ s.rev = state[p].rev /\ s.draft = state[p].draft
      /\ s.status = state[p].status /\ s.timer = state[p].timer
      /\ s.kind = state[p].kind /\ s.lastSent = state[p].lastSent
      /\ \A g \in flights[p] \ {f} : ~g.aborted => s.ctrl = state[p].ctrl
  BY ReleasedIs
<1> HIDE DEF s
<1>2. /\ flights' \in [Paths -> SUBSET Flight] /\ state' \in [Paths -> PathState]
      /\ state'[p] = s /\ flights'[p] = flights[p] \ {f}
      /\ \A q \in Paths \ {p} : state'[q] = state[q] /\ flights'[q] = flights[q]
      /\ Numbered(p)' /\ Carries(p)' /\ Queued(p)'
  BY <1>1, LeavesIs DEF s
<1>3. sent' = sent /\ inbox' = inbox /\ server' = server /\ intent' = intent /\ faults' = faults
  BY DEF Leaves
<1>. Path(p)
  BY DEF IInv
<1>4. OnItsWay(p)' /\ Agrees(p)'
  BY <1>1, <1>2 DEF Path, OnItsWay, Agrees, Shows
<1>5. Faultless(p)'
  BY <1>1, <1>2, <1>3 DEF Path, Faultless
<1>6. "escape" \notin UserOps => Deleted(p)'
  BY <1>1, <1>2, <1>3 DEF Path, Deleted
<1>7. \A q \in Paths \ {p} : Path(q)'
  BY <1>2, <1>3, OthersPath
<1>8. \A q \in Paths : Path(q)'
  BY <1>2, <1>4, <1>5, <1>6, <1>7 DEF Path
<1>. QED  BY <1>2, <1>3, <1>8 DEF IInv, TypeOK

LEMMA SettleErrorIInv ==
    ASSUME IInv, NEW p \in Paths, NEW f \in flights[p], SettleError(p, f)
    PROVE  IInv'
<1> DEFINE s == IF f.rev = state[p].rev THEN [state[p] EXCEPT !.status = "save-failed"]
                ELSE state[p]
<1>. Path(p) /\ state[p] \in PathState
  BY DEF IInv, TypeOK
<1>1. /\ s \in PathState /\ s.rev = state[p].rev /\ s.draft = state[p].draft
      /\ s.timer = state[p].timer /\ s.ctrl = state[p].ctrl
      /\ s.kind = state[p].kind /\ s.lastSent = state[p].lastSent
      /\ s.status = IF f.rev = state[p].rev THEN "save-failed" ELSE state[p].status
  BY DEF PathState
<1>2. Leaves(p, f, s) /\ fulfilled' = fulfilled /\ latest' = latest
      /\ f.answer = "error" /\ ~f.aborted
  <2>1. state' = [state EXCEPT ![p] = s]
    <3>1. state = [state EXCEPT ![p] = state[p]]
      BY DEF IInv, TypeOK
    <3>2. CASE f.rev = state[p].rev
      BY <3>2 DEF SettleError
    <3>3. CASE f.rev # state[p].rev
      BY <3>1, <3>3 DEF SettleError
    <3>. QED  BY <3>2, <3>3
  <2>. QED  BY <2>1 DEF SettleError, Leaves, cache
<1> HIDE DEF s
<1>3. /\ flights' \in [Paths -> SUBSET Flight] /\ state' \in [Paths -> PathState]
      /\ state'[p] = s /\ flights'[p] = flights[p] \ {f}
      /\ \A q \in Paths \ {p} : state'[q] = state[q] /\ flights'[q] = flights[q]
      /\ Numbered(p)' /\ Carries(p)' /\ Queued(p)'
  BY <1>1, <1>2, LeavesIs
<1>4. sent' = sent /\ inbox' = inbox /\ server' = server /\ intent' = intent /\ faults' = faults
  BY <1>2 DEF Leaves
<1>5. OnItsWay(p)' /\ Agrees(p)'
  BY <1>1, <1>3 DEF Path, OnItsWay, Agrees, Shows
<1>6. faults # 0
  BY <1>2 DEF Path, Faultless
<1>7. Faultless(p)'
  BY <1>4, <1>6 DEF Faultless
<1>8. ASSUME "escape" \notin UserOps PROVE Deleted(p)'
  <2> SUFFICES ASSUME intent[p] = "delete"
               PROVE  Deleted(p)'
    BY <1>4 DEF Deleted
  <2>1. /\ ~state[p].timer /\ state[p].draft = Empty
        /\ state[p].status \in {"saving", "saved", "save-failed"}
        /\ state[p].status = "save-failed" => state[p].kind = "delete"
        /\ \A g \in flights[p] : ~g.aborted =>
              g.kind = "delete" /\ state[p].kind = "delete"
    BY <1>8 DEF Path, Deleted
  <2>2. f.rev = state[p].rev => state[p].kind = "delete"
    BY <1>2, <1>8, <2>1
  <2>. QED  BY <1>1, <1>3, <2>1, <2>2 DEF Deleted
<1>9. \A q \in Paths \ {p} : Path(q)'
  BY <1>2, <1>3, <1>4, OthersPath
<1>10. \A q \in Paths : Path(q)'
  BY <1>3, <1>5, <1>7, <1>8, <1>9 DEF Path
<1>. QED  BY <1>2, <1>3, <1>4, <1>10 DEF IInv, TypeOK

LEMMA SettleSuccessIInv ==
    ASSUME IInv, NEW p \in Paths, NEW f \in flights[p], SettleSuccess(p, f)
    PROVE  IInv'
<1> DEFINE r == Released(state[p], f)
           s == [r EXCEPT !.lastSent = IF f.kind = "upsert" THEN state[p].draft ELSE NoNote,
                          !.status = "saved", !.kind = "none"]
<1>. Path(p) /\ state[p] \in PathState /\ f \in Flight
  BY DEF IInv, TypeOK
<1>1. f.answer = "ok" /\ ~f.aborted
  BY DEF SettleSuccess
<1>2. CASE f.rev # state[p].rev
  BY <1>2, ReleasesIInv DEF SettleSuccess, Leaves, cache
<1>3. CASE f.rev = state[p].rev
  <2>1. /\ Leaves(p, f, s)
        /\ fulfilled' = [latest EXCEPT ![p] = f.text] /\ latest' = fulfilled'
    BY <1>3 DEF SettleSuccess, Leaves, Merged
  <2>2. /\ r \in PathState /\ r.rev = state[p].rev /\ r.draft = state[p].draft
        /\ r.timer = state[p].timer
        /\ \A g \in flights[p] \ {f} : ~g.aborted => r.ctrl = state[p].ctrl
    BY ReleasedIs
  <2>3. f.text = IF f.kind = "upsert" THEN state[p].draft ELSE NoNote
    BY <1>3 DEF Path, Carries, Flight
  <2>4. /\ s \in PathState /\ s.rev = state[p].rev /\ s.draft = state[p].draft
        /\ s.timer = state[p].timer /\ s.status = "saved" /\ s.lastSent = f.text
        /\ \A g \in flights[p] \ {f} : ~g.aborted => s.ctrl = state[p].ctrl
    <3>1. f.text \in NoteOrNone
      BY DEF Flight
    <3> HIDE DEF r
    <3>2. s = [r EXCEPT !.lastSent = f.text, !.status = "saved", !.kind = "none"]
      BY <2>3
    <3>3. /\ s \in PathState /\ s.rev = r.rev /\ s.draft = r.draft /\ s.timer = r.timer
          /\ s.status = "saved" /\ s.lastSent = f.text /\ s.ctrl = r.ctrl
      <4> HIDE DEF s
      <4>. QED  BY <2>2, <3>1, <3>2 DEF PathState
    <3>. QED  BY <2>2, <3>3
  <2> HIDE DEF s, r
  <2>5. /\ flights' \in [Paths -> SUBSET Flight] /\ state' \in [Paths -> PathState]
        /\ state'[p] = s /\ flights'[p] = flights[p] \ {f}
        /\ \A q \in Paths \ {p} : state'[q] = state[q] /\ flights'[q] = flights[q]
        /\ Numbered(p)' /\ Carries(p)' /\ Queued(p)'
    BY <2>1, <2>4, LeavesIs
  <2>6. /\ sent' = sent /\ inbox' = inbox /\ server' = server
        /\ intent' = intent /\ faults' = faults
    BY <2>1 DEF Leaves
  <2>7. OnItsWay(p)' /\ Agrees(p)'
    <3>1. Shows(s, f.text)
      BY <1>3, <2>3, <2>4 DEF Shows, Path, Carries, Flight
    <3>. QED  BY <2>4, <2>5, <3>1 DEF OnItsWay, Agrees
  <2>8. \A g \in flights'[p] : g.aborted
    BY <1>1, <2>5 DEF Path, Numbered
  <2>9. /\ fulfilled' \in [Paths -> NoteOrNone] /\ fulfilled'[p] = f.text
        /\ \A q \in Paths \ {p} : fulfilled'[q] = fulfilled[q]
    BY <2>1 DEF IInv, TypeOK, Flight
  <2>10. Faultless(p)'
    BY <1>1, <2>4, <2>5, <2>6, <2>8, <2>9 DEF Path, Faultless
  <2>11. ASSUME "escape" \notin UserOps PROVE Deleted(p)'
    BY <2>4, <2>5, <2>6, <2>8, <2>11 DEF Path, Deleted
  <2>12. \A q \in Paths \ {p} : Path(q)'
    BY <2>5, <2>6, <2>9, OthersPath
  <2>13. \A q \in Paths : Path(q)'
    BY <2>5, <2>7, <2>10, <2>11, <2>12 DEF Path
  <2>. QED  BY <2>1, <2>5, <2>6, <2>9, <2>13 DEF IInv, TypeOK
<1>. QED  BY <1>2, <1>3

LEMMA SettleAbortIInv ==
    ASSUME IInv, NEW p \in Paths, NEW f \in flights[p], SettleAbort(p, f)
    PROVE  IInv'
  BY ReleasesIInv DEF SettleAbort, Leaves, cache

LEMMA UnchangedIInv == IInv /\ UNCHANGED vars => IInv'
<1> SUFFICES ASSUME IInv, UNCHANGED vars
             PROVE  IInv'
  OBVIOUS
<1>1. /\ state' = state /\ flights' = flights /\ sent' = sent /\ inbox' = inbox
      /\ server' = server /\ fulfilled' = fulfilled /\ latest' = latest
      /\ intent' = intent /\ faults' = faults
  BY DEF vars, wire, cache
<1>2. \A p \in Paths : Path(p)'
  BY <1>1, StillPath DEF Still
<1>. QED  BY <1>1, <1>2 DEF IInv, TypeOK

LEMMA NextIInv == IInv /\ [Next]_vars => IInv'
<1> SUFFICES ASSUME IInv, [Next]_vars
             PROVE  IInv'
  OBVIOUS
<1>1. ASSUME NEW p \in Paths, NEW t \in Texts, SetDraft(p, t) PROVE IInv'
  BY <1>1, SetDraftIInv
<1>2. ASSUME NEW p \in Paths, DeleteNote(p) PROVE IInv'
  BY <1>2, DeleteNoteIInv
<1>3. ASSUME NEW p \in Paths, TimerFires(p) PROVE IInv'
  <2>1. FlushPaths({p}) /\ intent' = intent /\ Pending(p)
    BY <1>3 DEF TimerFires, Pending
  <2>. QED  BY <2>1, FlushIInv
<1>4. ASSUME NEW p \in Paths, Escape(p) PROVE IInv'
  <2>1. FlushPaths({p}) /\ intent' = intent /\ "escape" \in UserOps
    BY <1>4 DEF Escape
  <2>. QED  BY <2>1, FlushIInv
<1>5. ASSUME ModEnter PROVE IInv'
  <2> DEFINE S == {p \in Paths : Pending(p)}
  <2>1. FlushPaths(S) /\ intent' = intent /\ S \in SUBSET Paths /\ \A p \in S : Pending(p)
    BY <1>5 DEF ModEnter
  <2> HIDE DEF S
  <2>. QED  BY <2>1, FlushIInv
<1>6. ASSUME NEW p \in Paths, ServerApply(p) \/ ServerReject(p) \/ Vanish(p) PROVE IInv'
  BY <1>6, ServerApplyIInv, ServerRejectIInv, VanishIInv
<1>7. ASSUME NEW p \in Paths, NEW f \in flights[p], ConnectionLost(p, f) PROVE IInv'
  BY <1>7, ConnectionLostIInv
<1>8. ASSUME NEW p \in Paths, Settle(p) PROVE IInv'
  BY <1>8, SettleSuccessIInv, SettleErrorIInv, SettleAbortIInv DEF Settle
<1>9. ASSUME Render PROVE IInv'
  <2>1. UNCHANGED vars
    BY <1>9 DEF Render, vars, cache, IInv
  <2>. QED  BY <2>1, UnchangedIInv
<1>10. ASSUME UNCHANGED vars PROVE IInv'
  BY <1>10, UnchangedIInv
<1>. QED  BY <1>1, <1>2, <1>3, <1>4, <1>5, <1>6, <1>7, <1>8, <1>9, <1>10 DEF Next

LEMMA Inductive == Spec => []IInv
  BY InitIInv, NextIInv, PTL DEF Spec
-----------------------------------------------------------------------------
(* The hook's state is always of its type (NotesPathState).                *)
THEOREM TypeCorrect == Spec => []TypeOK
<1>1. IInv => TypeOK
  BY DEF IInv
<1>. QED  BY <1>1, Inductive, PTL

(* The controller kept for a path is that of its current PUT, so a later   *)
(* keystroke, a deletion or an unmount can still abort it.                 *)
THEOREM ControllerReach == Spec => []ControllerReachesFlight
<1>1. IInv => ControllerReachesFlight
  BY DEF IInv, Path, Numbered, ControllerReachesFlight
<1>. QED  BY <1>1, Inductive, PTL

(* No draft is left dirty or saving with nothing on its way.               *)
THEOREM OnTheWay == Spec => []UnsavedIsOnItsWay
<1>1. IInv => UnsavedIsOnItsWay
  BY DEF IInv, Path, OnItsWay, UnsavedIsOnItsWay
<1>. QED  BY <1>1, Inductive, PTL

(* Without Escape, no PUT brings a deleted note back.                      *)
THEOREM DeleteFinal ==
    ASSUME "escape" \notin UserOps
    PROVE  Spec => []DeleteIsFinal
<1>1. IInv => DeleteIsFinal
  BY DEF IInv, Path, Deleted, DeleteIsFinal
<1>. QED  BY <1>1, Inductive, PTL

(* The cache holds the server's note at a saved path until a PUT fails.    *)
THEOREM SavedCached == Spec => []SavedIsCached
<1>1. IInv => SavedIsCached
  BY DEF IInv, Path, Faultless, SavedIsCached
<1>. QED  BY <1>1, Inductive, PTL

(* Without a failed PUT, 'saved' is the truth: the server holds the draft. *)
THEOREM SavedStored ==
    ASSUME MaxFaults = 0
    PROVE  Spec => []SavedMeansStored
<1>1. ASSUME IInv PROVE SavedMeansStored
  <2> SUFFICES ASSUME NEW p \in Paths, state[p].status = "saved"
               PROVE  Shows(state[p], server[p])
    BY DEF SavedMeansStored
  <2>1. faults = 0
    BY <1>1 DEF IInv, TypeOK
  <2>2. server[p] = state[p].lastSent
    BY <1>1, <2>1 DEF IInv, Path, Faultless
  <2>. QED  BY <1>1, <2>2 DEF IInv, Path, Agrees
<1>. QED  BY <1>1, Inductive, PTL
=============================================================================
