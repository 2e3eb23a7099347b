------------------------- MODULE ResortDraft_proofs -------------------------
(***************************************************************************)
(* Theorems about ResortDraft, for any fields and parents, any resort at   *)
(* the start and any number of edits, PUTs and broken connections.         *)
(***************************************************************************)
EXTENDS ResortDraft, SequenceTheorems, TLAPS

Typed ==
    /\ draft \in Draft /\ lastSent \in Draft
    /\ status \in [Fields -> Statuses]
    /\ rev \in 0..MaxRev /\ sent \in Nat /\ faults \in Nat
    /\ timer \in BOOLEAN /\ queued \in BOOLEAN /\ disturbed \in BOOLEAN
    /\ flight # NoFlight => flight \in InFlight
    /\ canonical \in Stored
    /\ inbox \in Seq(Put)
    /\ server \in Server
    /\ cleared \in [Fields -> BOOLEAN]

(* The inputs; an edit has its value in the draft.                         *)
Inputs == /\ text \in [Fields -> Numerals \cup {Blank}]
          /\ DOMAIN draft.srcs \subseteq DOMAIN draft.vals
          /\ InputIsTheAnalysts

(* A cleared field has no source in the draft, so the next body has none.  *)
ClearedIsNotDrafted == \A f \in DOMAIN draft.srcs : ~cleared[f]

IInv == Typed /\ Inputs /\ ClearedIsNotDrafted /\ ClearedIsNotAwaited
-----------------------------------------------------------------------------
(* Partial functions.                                                      *)
LEMMA PartIs ==
  ASSUME NEW S, NEW T, NEW fn
  PROVE  fn \in Part(S, T) <=> DOMAIN fn \in SUBSET S /\ fn \in [DOMAIN fn -> T]
<1>1. ASSUME fn \in Part(S, T)
      PROVE  DOMAIN fn \in SUBSET S /\ fn \in [DOMAIN fn -> T]
  <2>1. PICK D \in SUBSET S : fn \in [D -> T]
    BY <1>1 DEF Part
  <2>2. DOMAIN fn = D
    BY <2>1
  <2>. QED  BY <2>1, <2>2
<1>2. ASSUME DOMAIN fn \in SUBSET S, fn \in [DOMAIN fn -> T]
      PROVE  fn \in Part(S, T)
  BY <1>2 DEF Part
<1>. QED  BY <1>1, <1>2

LEMMA RestrictPart ==
  ASSUME NEW S, NEW T, NEW fn \in Part(S, T), NEW D \in SUBSET DOMAIN fn
  PROVE  /\ Restrict(fn, D) \in Part(S, T)
         /\ DOMAIN Restrict(fn, D) = D
         /\ \A x \in D : Restrict(fn, D)[x] = fn[x]
<1>1. DOMAIN fn \in SUBSET S /\ fn \in [DOMAIN fn -> T]
  BY PartIs
<1> DEFINE g == [x \in D |-> fn[x]]
<1>2. g \in [D -> T] /\ DOMAIN g = D /\ D \in SUBSET S
  BY <1>1
<1>3. g \in Part(S, T)
  BY <1>2 DEF Part
<1>. QED  BY <1>3 DEF Restrict

LEMMA WithPart ==
  ASSUME NEW S, NEW T, NEW fn \in Part(S, T), NEW x \in S, NEW y \in T
  PROVE  /\ With(fn, x, y) \in Part(S, T)
         /\ DOMAIN With(fn, x, y) = DOMAIN fn \cup {x}
         /\ With(fn, x, y)[x] = y
<1>1. DOMAIN fn \in SUBSET S /\ fn \in [DOMAIN fn -> T]
  BY PartIs
<1> DEFINE D == DOMAIN fn \cup {x}
           g == [z \in D |-> IF z = x THEN y ELSE fn[z]]
<1>2. g \in [D -> T] /\ DOMAIN g = D /\ D \in SUBSET S /\ g[x] = y
  BY <1>1
<1>3. g \in Part(S, T)
  BY <1>2 DEF Part
<1>. QED  BY <1>2, <1>3 DEF With

LEMMA SourcePart ==
  ASSUME NEW srcs \in Part(Fields, Hashes), NEW f \in Fields, NEW hash \in Hashes
  PROVE  /\ With(srcs, f, hash) \in Part(Fields, Hashes)
         /\ DOMAIN With(srcs, f, hash) = DOMAIN srcs \cup {f}
<1>1. DOMAIN srcs \in SUBSET Fields /\ srcs \in [DOMAIN srcs -> Hashes]
  BY PartIs
<1> DEFINE D == DOMAIN srcs \cup {f}
           w == [z \in D |-> IF z = f THEN hash ELSE srcs[z]]
<1>2. w \in [D -> Hashes] /\ DOMAIN w = D /\ D \in SUBSET Fields
  BY <1>1
<1>3. w \in Part(Fields, Hashes)
  BY <1>2 DEF Part
<1>. QED  BY <1>2, <1>3 DEF With

LEMMA DraftIs ==
  ASSUME NEW d
  PROVE  d \in Draft <=>
           /\ d = [vals |-> d.vals, srcs |-> d.srcs, modes |-> d.modes]
           /\ d.vals \in Part(Fields, Values) /\ d.srcs \in Part(Fields, Hashes)
           /\ d.modes \in Part(ModeFields, Modes)
BY DEF Draft

LEMMA NothingIsDraft == Nothing \in Draft /\ DOMAIN Nothing.srcs = {}
<1>1. << >> \in [{} -> Values] /\ << >> \in [{} -> Hashes] /\ << >> \in [{} -> Modes]
  OBVIOUS
<1>2. /\ << >> \in Part(Fields, Values) /\ << >> \in Part(Fields, Hashes)
      /\ << >> \in Part(ModeFields, Modes)
  BY <1>1 DEF Part
<1>. QED  BY <1>2 DEF Nothing, Draft

(* A body is a draft, and carries no source that the draft has not.        *)
LEMMA DiffIsDraft ==
  ASSUME NEW d \in Draft, NEW base \in Draft
  PROVE  Diff(d, base) \in Draft /\ DOMAIN Diff(d, base).srcs \subseteq DOMAIN d.srcs
<1> DEFINE V == NewParents(d, base)
           S == DOMAIN d.srcs \cap New(d.vals, base.vals)
           M == New(d.modes, base.modes)
           v == Restrict(d.vals, V)
           s == Restrict(d.srcs, S)
           m == Restrict(d.modes, M)
<1>1. V \subseteq DOMAIN d.vals /\ S \subseteq DOMAIN d.srcs /\ M \subseteq DOMAIN d.modes
  BY DEF NewParents, New
<1>2. Diff(d, base) = [vals |-> v, srcs |-> s, modes |-> m]
  BY DEF Diff
<1>3. /\ d.vals \in Part(Fields, Values) /\ d.srcs \in Part(Fields, Hashes)
      /\ d.modes \in Part(ModeFields, Modes)
  BY DEF Draft
<1> HIDE DEF V, S, M
<1>4. v \in Part(Fields, Values)
  BY <1>1, <1>3, RestrictPart
<1>5. s \in Part(Fields, Hashes) /\ DOMAIN s = S
  BY <1>1, <1>3, RestrictPart
<1>6. m \in Part(ModeFields, Modes)
  BY <1>1, <1>3, RestrictPart
<1> HIDE DEF v, s, m
<1>. QED  BY <1>1, <1>2, <1>4, <1>5, <1>6 DEF Draft

LEMMA StoredIs ==
  ASSUME NEW c
  PROVE  c \in Stored <=>
           /\ c = [vals |-> c.vals, srcs |-> c.srcs, live |-> c.live]
           /\ c.vals \in [Fields -> Values]
           /\ c.srcs \in [Fields -> Hashes \cup {NoHash}] /\ c.live \in BOOLEAN
BY AbsenceAssumption DEF Stored, Content

(* What an accepted PUT leaves is a resort.                                *)
LEMMA MergedIsStored ==
  ASSUME NEW c \in Stored, NEW body \in Draft
  PROVE  MergeContent(c, AsUpsert(body)) \in Stored
<1> DEFINE m == MergeContent(c, AsUpsert(body))
           vals == [f \in Fields |-> IF f \in DOMAIN body.vals
                                     THEN body.vals[f] ELSE c.vals[f]]
           srcs == [f \in Fields |-> IF f \in DOMAIN body.srcs
                                     THEN body.srcs[f] ELSE c.srcs[f]]
<1>1. m = [vals |-> vals, srcs |-> srcs, live |-> c.live]
  BY DEF MergeContent, AsUpsert
<1>2. /\ body.vals \in [DOMAIN body.vals -> Values]
      /\ body.srcs \in [DOMAIN body.srcs -> Hashes]
  BY DraftIs, PartIs
<1>3. /\ c.vals \in [Fields -> Values]
      /\ c.srcs \in [Fields -> Hashes \cup {NoHash}] /\ c.live \in BOOLEAN
  BY StoredIs
<1>4. vals \in [Fields -> Values] /\ srcs \in [Fields -> Hashes \cup {NoHash}]
  BY <1>2, <1>3
<1> HIDE DEF m, vals, srcs
<1>5. m \in Stored
  BY <1>1, <1>3, <1>4, StoredIs
<1>. QED  BY <1>5 DEF m

(* The first edit below a parent takes its siblings from a resort.         *)
LEMMA PatchLeafPart ==
  ASSUME Typed, NEW f \in Fields, NEW v \in Values
  PROVE  /\ PatchLeaf(draft, f, v) \in Part(Fields, Values)
         /\ f \in DOMAIN PatchLeaf(draft, f, v) /\ PatchLeaf(draft, f, v)[f] = v
         /\ \A g \in DOMAIN draft.vals \ {f} :
              /\ g \in DOMAIN PatchLeaf(draft, f, v)
              /\ PatchLeaf(draft, f, v)[g] = draft.vals[g]
<1> DEFINE known == {g \in Siblings(f) : canonical.vals[g] # Absent}
           both == [g \in DOMAIN draft.vals \cup known |->
                      IF g \in known THEN canonical.vals[g] ELSE draft.vals[g]]
           whole == IF Siblings(f) \cap DOMAIN draft.vals # {} \/ Siblings(f) = {f}
                    THEN draft.vals ELSE both
<1>1. /\ draft.vals \in Part(Fields, Values)
      /\ DOMAIN draft.vals \in SUBSET Fields
      /\ draft.vals \in [DOMAIN draft.vals -> Values]
  BY DraftIs, PartIs DEF Typed
<1>2. canonical.vals \in [Fields -> Values]
  BY StoredIs DEF Typed
<1>3. known \subseteq Fields
  BY DEF Siblings
<1>4. both \in Part(Fields, Values)
  <2> DEFINE D == DOMAIN draft.vals \cup known
  <2>1. both \in [D -> Values] /\ D \in SUBSET Fields
    BY <1>1, <1>2, <1>3
  <2>. QED  BY <2>1 DEF Part
<1>5. PatchLeaf(draft, f, v) = With(whole, f, v)
  BY DEF PatchLeaf
<1>6. whole \in Part(Fields, Values)
  BY <1>1, <1>4
<1>9. \A g \in DOMAIN draft.vals : g \in DOMAIN whole /\ whole[g] = draft.vals[g]
  <2>1. CASE Siblings(f) \cap DOMAIN draft.vals = {}
    BY <2>1
  <2>. QED  BY <2>1
<1> HIDE DEF whole
<1> DEFINE w == With(whole, f, v)
<1>7. w \in Part(Fields, Values) /\ DOMAIN w = DOMAIN whole \cup {f} /\ w[f] = v
  BY <1>6, WithPart
<1>10. \A g \in DOMAIN whole \ {f} : w[g] = whole[g]
  BY DEF With
<1> HIDE DEF w
<1>8. PatchLeaf(draft, f, v) = w
  BY <1>5 DEF w
<1>. QED  BY <1>7, <1>8, <1>9, <1>10
-----------------------------------------------------------------------------
(* The inputs after a render.                                              *)
LEMMA RenderedInputs ==
  ASSUME Typed, draft' \in Draft, canonical' \in Stored,
         DOMAIN draft'.srcs \subseteq DOMAIN draft'.vals,
         NEW typed \in [Fields -> Numerals \cup {Blank}], Rendered(typed),
         \A f \in Fields :
            \/ cleared'[f] /\ typed[f] = Blank
            \/ ~cleared'[f] /\ typed[f] \in {AsText(Shown(f)), AsText(Shown(f)')}
            \/ /\ ~cleared'[f] /\ typed[f] \in Numerals /\ typed[f].as # Plain
               /\ f \in DOMAIN draft'.srcs => typed[f].num = draft'.vals[f]
  PROVE  Inputs'
<1>1. \A f \in Fields : Shown(f) \in Values /\ Shown(f)' \in Values
  BY DraftIs, PartIs, StoredIs DEF Typed, Shown
<1>2. \A v \in Values : /\ AsText(v) \in Numerals /\ AsText(v).as = Plain
                        /\ AsText(v) # Blank
  BY AbsenceAssumption, FormsAssumption, BlankAssumption DEF AsText, Numerals
<1>3. \A f \in Fields : Follows(f, typed[f]) \in Numerals \cup {Blank}
  BY <1>1, <1>2 DEF Follows
<1>4. text' = [f \in Fields |-> Follows(f, typed[f])]
  BY DEF Rendered
<1>5. ASSUME NEW f \in Fields
      PROVE  /\ text'[f] = Blank <=> cleared'[f]
             /\ ~cleared'[f] =>
                  \/ text'[f] = AsText(Shown(f)')
                  \/ /\ text'[f].as # Plain
                     /\ f \in DOMAIN draft'.srcs => text'[f].num = draft'.vals[f]
  <2> DEFINE before == AsText(Shown(f))
             after == AsText(Shown(f)')
  <2>1. text'[f] = IF typed[f] = before THEN after ELSE typed[f]
    BY <1>4 DEF Follows
  <2>2. before # Blank /\ before.as = Plain /\ after # Blank
    BY <1>1, <1>2
  <2>6. after = AsText(Shown(f)')
    OBVIOUS
  <2> HIDE DEF before, after
  <2>3. CASE cleared'[f] /\ typed[f] = Blank
    BY <2>1, <2>2, <2>3
  <2>4. CASE ~cleared'[f] /\ typed[f] \in {before, after}
    <3>1. text'[f] = after
      BY <2>1, <2>4
    <3>. QED  BY <3>1, <2>2, <2>4, <2>6
  <2>5. CASE /\ ~cleared'[f] /\ typed[f] \in Numerals /\ typed[f].as # Plain
             /\ f \in DOMAIN draft'.srcs => typed[f].num = draft'.vals[f]
    <3>1. text'[f] = typed[f]
      BY <2>1, <2>2, <2>5
    <3>. QED  BY <3>1, <2>5, BlankAssumption
  <2>. QED  BY <2>3, <2>4, <2>5 DEF before, after
<1>6. text' \in [Fields -> Numerals \cup {Blank}]
  BY <1>3, <1>4
<1>7. InputIsTheAnalysts'
  BY <1>5 DEF InputIsTheAnalysts
<1>. QED  BY <1>6, <1>7 DEF Inputs

(* An input before a step that keeps the value of the edit behind it.      *)
LEMMA KeptInput ==
  ASSUME Typed, Inputs, NEW f \in Fields, cleared'[f] = cleared[f],
         f \in DOMAIN draft'.srcs => f \in DOMAIN draft.srcs /\ draft'.vals[f] = draft.vals[f]
  PROVE  \/ cleared'[f] /\ text[f] = Blank
         \/ ~cleared'[f] /\ text[f] \in {AsText(Shown(f)), AsText(Shown(f)')}
         \/ /\ ~cleared'[f] /\ text[f] \in Numerals /\ text[f].as # Plain
            /\ f \in DOMAIN draft'.srcs => text[f].num = draft'.vals[f]
<1>1. cleared[f] \in BOOLEAN /\ text[f] \in Numerals \cup {Blank}
  BY DEF Typed, Inputs
<1>. QED  BY <1>1 DEF Inputs, InputIsTheAnalysts

(* Nothing the inputs depend on changes.                                   *)
LEMMA SameInputs ==
  ASSUME Inputs, UNCHANGED <<draft, canonical, text, cleared>>
  PROVE  Inputs'
BY DEF Inputs, InputIsTheAnalysts, Shown
-----------------------------------------------------------------------------
(* The actions.                                                            *)
LEMMA RevUp ==
  ASSUME Typed, rev < MaxRev
  PROVE  rev + 1 \in 0..MaxRev /\ rev + 1 \in Hashes
BY BoundsAssumption DEF Typed

LEMMA MarkTyped ==
  ASSUME Typed, NEW target \in Statuses
  PROVE  Mark(target) \in [Fields -> Statuses]
BY DEF Typed, Mark

LEMMA FlushIInv == ASSUME IInv, Flush PROVE IInv'
<1> DEFINE body == Diff(draft, lastSent)
           new == [n |-> sent + 1, rev |-> rev, draft |-> draft, body |-> body,
                   answer |-> NoAnswer, aborted |-> FALSE]
           put == [n |-> sent + 1, body |-> body]
<1>1. /\ timer' = FALSE
      /\ UNCHANGED <<draft, lastSent, rev, canonical, text, server, cleared, disturbed, faults>>
      /\ \/ queued' = TRUE /\ UNCHANGED <<status, flight, sent, inbox>>
         \/ status' = Mark("saved") /\ UNCHANGED <<queued, flight, sent, inbox>>
         \/ /\ status' = Mark("saving") /\ sent' = sent + 1 /\ flight' = new
            /\ inbox' = Append(inbox, put) /\ UNCHANGED queued
  BY DEF Flush, editor, history, wire
<1>2. Typed /\ Inputs /\ ClearedIsNotDrafted /\ ClearedIsNotAwaited
  BY DEF IInv
<1>3. body \in Draft /\ DOMAIN body.srcs \subseteq DOMAIN draft.srcs
  BY <1>2, DiffIsDraft DEF Typed
<1> HIDE DEF body
<1>4. new \in InFlight /\ put \in Put
  BY <1>2, <1>3 DEF Typed, InFlight, Put
<1>5. /\ new.aborted = FALSE /\ new.body = body
  OBVIOUS
<1> HIDE DEF new, put
<1>6. Mark("saved") \in [Fields -> Statuses] /\ Mark("saving") \in [Fields -> Statuses]
  BY <1>2, MarkTyped DEF Statuses
<1>7. Append(inbox, put) \in Seq(Put)
  BY <1>2, <1>4, AppendProperties DEF Typed
<1>8. flight' # NoFlight => flight' \in InFlight
  BY <1>1, <1>2, <1>4 DEF Typed
<1>9. Typed'
  <2>1. status' \in [Fields -> Statuses]
    BY <1>1, <1>2, <1>6 DEF Typed
  <2>2. sent' \in Nat /\ queued' \in BOOLEAN
    <3>1. sent' = sent \/ sent' = sent + 1
      BY <1>1
    <3>2. queued' = TRUE \/ queued' = queued
      BY <1>1
    <3>3. sent \in Nat /\ queued \in BOOLEAN
      BY <1>2 DEF Typed
    <3>4. sent' \in Nat
      BY <3>1, <3>3
    <3>5. queued' \in BOOLEAN
      BY <3>2, <3>3
    <3>. QED  BY <3>4, <3>5
  <2>3. inbox' \in Seq(Put)
    BY <1>1, <1>2, <1>7 DEF Typed
  <2>. QED  BY <2>1, <2>2, <2>3, <1>1, <1>2, <1>8 DEF Typed
<1>10. Inputs'
  BY <1>1, <1>2, SameInputs
<1>11. ClearedIsNotDrafted'
  BY <1>1, <1>2 DEF ClearedIsNotDrafted
<1>12. ClearedIsNotAwaited'
  BY <1>1, <1>2, <1>3, <1>5 DEF ClearedIsNotAwaited, ClearedIsNotDrafted
<1>. QED  BY <1>9, <1>10, <1>11, <1>12 DEF IInv

LEMMA SetFieldValueIInv ==
  ASSUME IInv, NEW f \in Fields, NEW raw \in Numerals, SetFieldValue(f, raw)
  PROVE  IInv'
<1> DEFINE v == raw.num
<1> DEFINE vals == PatchLeaf(draft, f, v)
           hash == rev + 1
           srcs == With(draft.srcs, f, hash)
           typed == [text EXCEPT ![f] = raw]
<1>1. /\ rev < MaxRev /\ rev' = rev + 1
      /\ draft' = PatchSource([draft EXCEPT !.vals = vals], f, rev')
      /\ status' = [status EXCEPT ![f] = "dirty"] /\ timer' = TRUE
      /\ cleared' = [cleared EXCEPT ![f] = FALSE]
      /\ UNCHANGED <<lastSent, queued, flight, canonical, sent, inbox, server, disturbed,
                     faults>>
      /\ Rendered(typed)
  BY DEF SetFieldValue, wire
<1>2. Typed /\ Inputs /\ ClearedIsNotDrafted /\ ClearedIsNotAwaited
  BY DEF IInv
<1>3. rev + 1 \in 0..MaxRev /\ rev + 1 \in Hashes
  BY <1>1, <1>2, RevUp
<1>4. /\ draft = [vals |-> draft.vals, srcs |-> draft.srcs, modes |-> draft.modes]
      /\ draft.srcs \in Part(Fields, Hashes) /\ draft.modes \in Part(ModeFields, Modes)
  BY <1>2, DraftIs DEF Typed
<1>14. v \in Values
  BY DEF Numerals
<1> HIDE DEF v
<1>5. /\ vals \in Part(Fields, Values) /\ f \in DOMAIN vals /\ vals[f] = v
      /\ \A g \in DOMAIN draft.vals \ {f} : g \in DOMAIN vals /\ vals[g] = draft.vals[g]
  BY <1>2, <1>14, PatchLeafPart
<1>6. srcs \in Part(Fields, Hashes) /\ DOMAIN srcs = DOMAIN draft.srcs \cup {f}
  <2>1. hash \in Hashes
    BY <1>3
  <2>2. draft.srcs \in Part(Fields, Hashes)
    BY <1>4
  <2> HIDE DEF hash
  <2>3. /\ With(draft.srcs, f, hash) \in Part(Fields, Hashes)
        /\ DOMAIN With(draft.srcs, f, hash) = DOMAIN draft.srcs \cup {f}
    BY <2>1, <2>2, SourcePart
  <2>. QED  BY <2>3
<1>7. draft' = [vals |-> vals, srcs |-> srcs, modes |-> draft.modes]
  <2>1. [draft EXCEPT !.vals = vals]
          = [vals |-> vals, srcs |-> draft.srcs, modes |-> draft.modes]
    BY <1>4
  <2>. QED  BY <2>1, <1>1 DEF PatchSource
<1> HIDE DEF vals, srcs
<1>8. draft' \in Draft
  BY <1>4, <1>5, <1>6, <1>7 DEF Draft
<1>9. /\ status' \in [Fields -> Statuses] /\ cleared' \in [Fields -> BOOLEAN]
  BY <1>1, <1>2 DEF Typed, Statuses
<1>10. Typed'
  BY <1>1, <1>2, <1>3, <1>8, <1>9 DEF Typed
<1>11. Inputs'
  <2>1. Shown(f)' = v /\ draft'.vals[f] = v
    BY <1>5, <1>7 DEF Shown
  <2>2. typed \in [Fields -> Numerals \cup {Blank}] /\ typed[f] = raw
    BY <1>2 DEF Inputs
  <2>3. ~cleared'[f] /\ \A g \in Fields \ {f} : cleared'[g] = cleared[g] /\ typed[g] = text[g]
    BY <1>1, <1>2 DEF Inputs, Typed
  <2> HIDE DEF typed
  <2>4. raw = AsText(v) \/ raw.as # Plain
    BY <1>14, AbsenceAssumption DEF AsText, Numerals, v
  <2>5. ASSUME NEW g \in Fields
        PROVE  \/ cleared'[g] /\ typed[g] = Blank
               \/ ~cleared'[g] /\ typed[g] \in {AsText(Shown(g)), AsText(Shown(g)')}
               \/ /\ ~cleared'[g] /\ typed[g] \in Numerals /\ typed[g].as # Plain
                  /\ g \in DOMAIN draft'.srcs => typed[g].num = draft'.vals[g]
    <3>1. CASE g = f
      BY <2>1, <2>2, <2>3, <2>4, <3>1 DEF v
    <3>2. CASE g # f
      <4>1. g \in DOMAIN draft'.srcs =>
              g \in DOMAIN draft.srcs /\ draft'.vals[g] = draft.vals[g]
        BY <1>2, <1>5, <1>6, <1>7, <3>2 DEF Inputs
      <4>2. cleared'[g] = cleared[g] /\ typed[g] = text[g]
        BY <2>3, <3>2
      <4>. QED  BY <4>1, <4>2, <1>2, KeptInput
    <3>. QED  BY <3>1, <3>2
  <2>6. canonical' \in Stored /\ DOMAIN draft'.srcs \subseteq DOMAIN draft'.vals
    <3>1. DOMAIN draft.srcs \subseteq DOMAIN draft.vals
      BY <1>2 DEF Inputs
    <3>. QED  BY <3>1, <1>1, <1>2, <1>5, <1>6, <1>7 DEF Typed
  <2>. QED  BY <1>1, <1>2, <1>8, <2>2, <2>5, <2>6, RenderedInputs
<1>12. ClearedIsNotDrafted'
  BY <1>1, <1>2, <1>6, <1>7 DEF ClearedIsNotDrafted, Typed
<1>13. ClearedIsNotAwaited'
  <2>1. \A g : cleared'[g] => cleared[g]
    BY <1>1, <1>2 DEF Typed
  <2>. QED  BY <1>1, <1>2, <2>1 DEF ClearedIsNotAwaited
<1>. QED  BY <1>10, <1>11, <1>12, <1>13 DEF IInv

LEMMA ToggleModeIInv ==
  ASSUME IInv, NEW f \in ModeFields, ToggleMode(f)
  PROVE  IInv'
<1> DEFINE modes == With(draft.modes, f, Toggled(f))
<1>1. /\ rev < MaxRev /\ rev' = rev + 1
      /\ draft' = [draft EXCEPT !.modes = modes]
      /\ status' = [status EXCEPT ![f] = "dirty"] /\ timer' = TRUE
      /\ UNCHANGED <<lastSent, queued, flight, canonical, text, sent, inbox, server,
                     cleared, disturbed, faults>>
  BY DEF ToggleMode, wire, editor, history
<1>2. Typed /\ Inputs /\ ClearedIsNotDrafted /\ ClearedIsNotAwaited
  BY DEF IInv
<1>3. rev + 1 \in 0..MaxRev
  BY <1>1, <1>2, RevUp
<1>4. /\ draft = [vals |-> draft.vals, srcs |-> draft.srcs, modes |-> draft.modes]
      /\ draft.vals \in Part(Fields, Values) /\ draft.srcs \in Part(Fields, Hashes)
      /\ draft.modes \in Part(ModeFields, Modes)
  BY <1>2, DraftIs DEF Typed
<1>5. Toggled(f) \in Modes
  <2>1. \E m \in Modes : m # ModeFor(f)
    BY DEF Modes
  <2>. QED  BY <2>1 DEF Toggled
<1>6. modes \in Part(ModeFields, Modes)
  BY <1>4, <1>5, WithPart
<1> HIDE DEF modes
<1>7. draft' = [vals |-> draft.vals, srcs |-> draft.srcs, modes |-> modes]
  BY <1>1, <1>4
<1>8. draft' \in Draft
  BY <1>4, <1>6, <1>7 DEF Draft
<1>9. status' \in [Fields -> Statuses]
  BY <1>1, <1>2, ModeAssumption DEF Typed, Statuses
<1>10. Typed'
  BY <1>1, <1>2, <1>3, <1>8, <1>9 DEF Typed
<1>11. Inputs'
  <2>1. \A g \in Fields : Shown(g)' = Shown(g)
    BY <1>1, <1>7 DEF Shown
  <2>2. draft'.vals = draft.vals /\ draft'.srcs = draft.srcs
    BY <1>7
  <2>. QED  BY <1>1, <1>2, <2>1, <2>2 DEF Inputs, InputIsTheAnalysts
<1>12. ClearedIsNotDrafted'
  BY <1>1, <1>2, <1>7 DEF ClearedIsNotDrafted
<1>13. ClearedIsNotAwaited'
  BY <1>1, <1>2 DEF ClearedIsNotAwaited
<1>. QED  BY <1>10, <1>11, <1>12, <1>13 DEF IInv

LEMMA ClearFieldValueIInv ==
  ASSUME IInv, NEW f \in Fields, ClearFieldValue(f)
  PROVE  IInv'
<1> DEFINE vals == Without(draft.vals, Siblings(f))
           srcs == Without(draft.srcs, Siblings(f))
           typed == [text EXCEPT ![f] = Blank]
<1>1. /\ rev < MaxRev /\ rev' = rev + 1
      /\ flight' = IF Aborts(f) THEN [flight EXCEPT !.aborted = TRUE] ELSE flight
      /\ draft' = [draft EXCEPT !.vals = vals, !.srcs = srcs]
      /\ status' = [g \in Fields |->
                      IF g \in Siblings(f) /\ status[g] \in {"dirty", "saving"}
                         THEN "none" ELSE status[g]]
      /\ timer' = TRUE
      /\ cleared' = [cleared EXCEPT ![f] = TRUE] /\ disturbed' = TRUE
      /\ UNCHANGED <<lastSent, queued, canonical, sent, inbox, server, faults>>
      /\ Rendered(typed)
  BY DEF ClearFieldValue, ClearLeaf, wire
<1>2. Typed /\ Inputs /\ ClearedIsNotDrafted /\ ClearedIsNotAwaited
  BY DEF IInv
<1>3. rev + 1 \in 0..MaxRev
  BY <1>1, <1>2, RevUp
<1>4. /\ draft = [vals |-> draft.vals, srcs |-> draft.srcs, modes |-> draft.modes]
      /\ draft.vals \in Part(Fields, Values) /\ draft.srcs \in Part(Fields, Hashes)
      /\ draft.modes \in Part(ModeFields, Modes)
  BY <1>2, DraftIs DEF Typed
<1>5. /\ vals \in Part(Fields, Values) /\ DOMAIN vals = DOMAIN draft.vals \ Siblings(f)
      /\ \A g \in DOMAIN vals : vals[g] = draft.vals[g]
  <2>1. DOMAIN draft.vals \ Siblings(f) \in SUBSET DOMAIN draft.vals
    OBVIOUS
  <2>. QED  BY <2>1, <1>4, RestrictPart DEF Without
<1>6. srcs \in Part(Fields, Hashes) /\ DOMAIN srcs = DOMAIN draft.srcs \ Siblings(f)
  <2>1. DOMAIN draft.srcs \ Siblings(f) \in SUBSET DOMAIN draft.srcs
    OBVIOUS
  <2>. QED  BY <2>1, <1>4, RestrictPart DEF Without
<1> HIDE DEF vals, srcs
<1>7. draft' = [vals |-> vals, srcs |-> srcs, modes |-> draft.modes]
  BY <1>1, <1>4
<1>8. draft' \in Draft
  BY <1>4, <1>5, <1>6, <1>7 DEF Draft
<1>9. status' \in [Fields -> Statuses] /\ cleared' \in [Fields -> BOOLEAN]
  BY <1>1, <1>2 DEF Typed, Statuses
<1>10. /\ flight' # NoFlight => flight' \in InFlight
       /\ Aborts(f) => flight'.aborted
  <2>1. CASE Aborts(f)
    <3>1. flight \in InFlight
      BY <2>1, <1>2 DEF Aborts, Typed
    <3>2. [flight EXCEPT !.aborted = TRUE] \in InFlight
      BY <3>1 DEF InFlight
    <3>3. [flight EXCEPT !.aborted = TRUE].aborted
      BY <3>1 DEF InFlight
    <3>. QED  BY <2>1, <3>2, <3>3, <1>1
  <2>2. CASE ~Aborts(f)
    BY <2>2, <1>1, <1>2 DEF Typed
  <2>. QED  BY <2>1, <2>2
<1>11. Typed'
  BY <1>1, <1>2, <1>3, <1>8, <1>9, <1>10 DEF Typed
<1>12. Inputs'
  <2>1. typed \in [Fields -> Numerals \cup {Blank}] /\ typed[f] = Blank /\ cleared'[f]
    BY <1>1, <1>2 DEF Inputs, Typed
  <2>2. \A g \in Fields \ {f} : cleared'[g] = cleared[g] /\ typed[g] = text[g]
    BY <1>1, <1>2 DEF Inputs, Typed
  <2> HIDE DEF typed
  <2>3. DOMAIN draft.srcs \subseteq DOMAIN draft.vals
    BY <1>2 DEF Inputs
  <2>4. \A g \in DOMAIN draft'.srcs : /\ g \in DOMAIN draft.srcs /\ g \in DOMAIN draft'.vals
                                     /\ draft'.vals[g] = draft.vals[g]
    BY <1>5, <1>6, <1>7, <2>3
  <2>5. ASSUME NEW g \in Fields
        PROVE  \/ cleared'[g] /\ typed[g] = Blank
               \/ ~cleared'[g] /\ typed[g] \in {AsText(Shown(g)), AsText(Shown(g)')}
               \/ /\ ~cleared'[g] /\ typed[g] \in Numerals /\ typed[g].as # Plain
                  /\ g \in DOMAIN draft'.srcs => typed[g].num = draft'.vals[g]
    <3>1. CASE g # f
      <4>1. cleared'[g] = cleared[g] /\ typed[g] = text[g]
        BY <2>2, <3>1
      <4>. QED  BY <4>1, <2>4, <1>2, KeptInput
    <3>. QED  BY <2>1, <3>1
  <2>6. canonical' \in Stored
    BY <1>1, <1>2 DEF Typed
  <2>. QED  BY <1>1, <1>2, <1>8, <2>1, <2>4, <2>5, <2>6, RenderedInputs
<1>13. ClearedIsNotDrafted'
  <2>1. f \in Siblings(f)
    BY DEF Siblings
  <2>. QED  BY <2>1, <1>1, <1>2, <1>6, <1>7 DEF ClearedIsNotDrafted, Typed
<1>14. ClearedIsNotAwaited'
  <2>1. CASE Aborts(f)
    BY <2>1, <1>10 DEF ClearedIsNotAwaited
  <2>2. CASE ~Aborts(f)
    BY <2>2, <1>1, <1>2 DEF ClearedIsNotAwaited, Aborts, Typed
  <2>. QED  BY <2>1, <2>2
<1>. QED  BY <1>11, <1>12, <1>13, <1>14 DEF IInv

LEMMA AnswerInFlight ==
  ASSUME Typed, ClearedIsNotAwaited, NEW n, NEW a \in Stored \cup {Failed}, Answer(n, a),
         UNCHANGED cleared
  PROVE  (flight' # NoFlight => flight' \in InFlight) /\ ClearedIsNotAwaited'
<1>1. CASE flight' = flight
  BY <1>1 DEF Typed, ClearedIsNotAwaited
<1>2. CASE flight' # flight
  <2>1. flight # NoFlight /\ flight' = [flight EXCEPT !.answer = a]
    BY <1>2 DEF Answer
  <2>2. flight \in InFlight
    BY <2>1 DEF Typed
  <2>3. /\ flight' \in InFlight /\ flight'.aborted = flight.aborted
        /\ flight'.body = flight.body
    BY <2>1, <2>2 DEF InFlight
  <2>. QED  BY <2>1, <2>3 DEF ClearedIsNotAwaited
<1>. QED  BY <1>1, <1>2

LEMMA ServerHandlesIInv == ASSUME IInv, ServerHandles PROVE IInv'
<1> DEFINE put == Head(inbox)
           merged == MergeContent(server.content, AsUpsert(put.body))
           modes == [f \in ModeFields |-> IF f \in DOMAIN put.body.modes
                                          THEN put.body.modes[f] ELSE server.modes[f]]
<1>1. /\ inbox # << >> /\ inbox' = Tail(inbox)
      /\ \/ server' = [content |-> merged, modes |-> modes] /\ Answer(put.n, merged)
         \/ Answer(put.n, Failed) /\ UNCHANGED server
      /\ UNCHANGED <<draft, lastSent, status, rev, timer, queued, canonical, text, sent,
                     cleared, disturbed, faults>>
  BY DEF ServerHandles, editor, history
<1>2. Typed /\ Inputs /\ ClearedIsNotDrafted /\ ClearedIsNotAwaited
  BY DEF IInv
<1>3. put \in Put /\ Tail(inbox) \in Seq(Put)
  BY <1>1, <1>2, HeadTailProperties DEF Typed
<1>4. put.body \in Draft
  BY <1>3 DEF Put
<1>5. server.content \in Stored /\ server.modes \in [ModeFields -> Modes]
  BY <1>2 DEF Typed, Server
<1>6. merged \in Stored
  BY <1>4, <1>5, MergedIsStored
<1>7. modes \in [ModeFields -> Modes]
  <2>1. put.body.modes \in [DOMAIN put.body.modes -> Modes]
    BY <1>4, DraftIs, PartIs
  <2>. QED  BY <2>1, <1>5
<1> HIDE DEF put, merged, modes
<1>8. server' \in Server
  BY <1>1, <1>2, <1>6, <1>7 DEF Typed, Server
<1>9. /\ flight' # NoFlight => flight' \in InFlight
      /\ ClearedIsNotAwaited'
  <2>1. PICK a \in Stored \cup {Failed} : Answer(put.n, a)
    BY <1>1, <1>6
  <2>. QED  BY <2>1, <1>1, <1>2, AnswerInFlight
<1>10. Typed'
  BY <1>1, <1>2, <1>3, <1>8, <1>9 DEF Typed
<1>11. Inputs'
  BY <1>1, <1>2, SameInputs
<1>12. ClearedIsNotDrafted'
  BY <1>1, <1>2 DEF ClearedIsNotDrafted
<1>. QED  BY <1>9, <1>10, <1>11, <1>12 DEF IInv

LEMMA ConnectionLostIInv == ASSUME IInv, ConnectionLost PROVE IInv'
<1>1. /\ flight # NoFlight /\ flight' = [flight EXCEPT !.answer = Failed]
      /\ faults' = faults + 1 /\ disturbed' = TRUE
      /\ UNCHANGED <<draft, lastSent, status, rev, timer, queued, canonical, text, sent,
                     inbox, server, cleared>>
  BY DEF ConnectionLost, editor, wire
<1>2. Typed /\ Inputs /\ ClearedIsNotDrafted /\ ClearedIsNotAwaited
  BY DEF IInv
<1>3. flight \in InFlight
  BY <1>1, <1>2 DEF Typed
<1>4. /\ flight' \in InFlight /\ flight'.aborted = flight.aborted
      /\ flight'.body = flight.body
  BY <1>1, <1>3 DEF InFlight
<1>5. Typed'
  BY <1>1, <1>2, <1>4 DEF Typed
<1>6. Inputs'
  BY <1>1, <1>2, SameInputs
<1>7. ClearedIsNotDrafted' /\ ClearedIsNotAwaited'
  BY <1>1, <1>2, <1>4 DEF ClearedIsNotDrafted, ClearedIsNotAwaited
<1>. QED  BY <1>5, <1>6, <1>7 DEF IInv

LEMMA VanishIInv == ASSUME IInv, Vanish PROVE IInv'
<1>1. /\ inbox # << >> /\ inbox' = Tail(inbox)
      /\ UNCHANGED <<draft, lastSent, status, rev, timer, queued, flight, canonical, text,
                     sent, server, cleared, disturbed, faults>>
  BY DEF Vanish, store, editor, history
<1>2. Typed /\ Inputs /\ ClearedIsNotDrafted /\ ClearedIsNotAwaited
  BY DEF IInv
<1>3. Tail(inbox) \in Seq(Put)
  BY <1>1, <1>2, HeadTailProperties DEF Typed
<1>4. Typed'
  BY <1>1, <1>2, <1>3 DEF Typed
<1>5. Inputs'
  BY <1>1, <1>2, SameInputs
<1>6. ClearedIsNotDrafted' /\ ClearedIsNotAwaited'
  BY <1>1, <1>2 DEF ClearedIsNotDrafted, ClearedIsNotAwaited
<1>. QED  BY <1>4, <1>5, <1>6 DEF IInv

LEMMA SettleSuccessIInv == ASSUME IInv, SettleSuccess PROVE IInv'
<1>1. /\ flight # NoFlight /\ flight.answer \notin {NoAnswer, Failed}
      /\ canonical' = flight.answer
      /\ \/ draft' = Nothing /\ lastSent' = Nothing /\ status' = Mark("saved")
         \/ lastSent' = flight.draft /\ UNCHANGED <<draft, status>>
      /\ Rendered(text)
      /\ flight' = NoFlight /\ queued' = FALSE
      /\ timer' = (timer \/ queued \/ rev # flight.rev)
      /\ UNCHANGED <<rev, sent, inbox, server, cleared, disturbed, faults>>
  BY DEF SettleSuccess, Finally, wire, history
<1>2. Typed /\ Inputs /\ ClearedIsNotDrafted /\ ClearedIsNotAwaited
  BY DEF IInv
<1>3. flight \in InFlight
  BY <1>1, <1>2 DEF Typed
<1>4. canonical' \in Stored /\ flight.draft \in Draft
  BY <1>1, <1>3 DEF InFlight
<1>5. draft' \in Draft /\ lastSent' \in Draft
  BY <1>1, <1>2, <1>4, NothingIsDraft DEF Typed
<1>6. status' \in [Fields -> Statuses]
  BY <1>1, <1>2, MarkTyped DEF Typed, Statuses
<1>7. timer' \in BOOLEAN /\ queued' \in BOOLEAN
  BY <1>1, <1>2 DEF Typed
<1>8. Typed'
  BY <1>1, <1>2, <1>4, <1>5, <1>6, <1>7 DEF Typed
<1>9. Inputs'
  <2>1. \A g \in DOMAIN draft'.srcs : /\ g \in DOMAIN draft.srcs /\ g \in DOMAIN draft'.vals
                                     /\ draft'.vals[g] = draft.vals[g]
    BY <1>1, <1>2, NothingIsDraft DEF Inputs
  <2>2. \A g \in Fields :
          \/ cleared'[g] /\ text[g] = Blank
          \/ ~cleared'[g] /\ text[g] \in {AsText(Shown(g)), AsText(Shown(g)')}
          \/ /\ ~cleared'[g] /\ text[g] \in Numerals /\ text[g].as # Plain
             /\ g \in DOMAIN draft'.srcs => text[g].num = draft'.vals[g]
    BY <1>1, <1>2, <2>1, KeptInput
  <2>3. text \in [Fields -> Numerals \cup {Blank}] /\ Rendered(text)
    BY <1>1, <1>2 DEF Inputs
  <2>. QED  BY <1>2, <1>4, <1>5, <2>1, <2>2, <2>3, RenderedInputs
<1>10. ClearedIsNotDrafted' /\ ClearedIsNotAwaited'
  BY <1>1, <1>2, NothingIsDraft DEF ClearedIsNotDrafted, ClearedIsNotAwaited
<1>. QED  BY <1>8, <1>9, <1>10 DEF IInv

LEMMA SettleFailureIInv == ASSUME IInv, SettleAbort \/ SettleError PROVE IInv'
<1>1. /\ status' \in {status, Mark("dirty"), Mark("save-failed")}
      /\ flight' = NoFlight /\ queued' = FALSE
      /\ timer' = (timer \/ queued \/ rev # flight.rev)
      /\ UNCHANGED <<draft, lastSent, canonical, text, rev, sent, inbox, server, cleared,
                     disturbed, faults>>
  BY DEF SettleAbort, SettleError, Finally, wire, history, editor
<1>2. Typed /\ Inputs /\ ClearedIsNotDrafted /\ ClearedIsNotAwaited
  BY DEF IInv
<1>3. status' \in [Fields -> Statuses]
  <2>1. Mark("dirty") \in [Fields -> Statuses] /\ Mark("save-failed") \in [Fields -> Statuses]
    BY <1>2, MarkTyped DEF Statuses
  <2>. QED  BY <2>1, <1>1, <1>2 DEF Typed
<1>4. timer' \in BOOLEAN /\ queued' \in BOOLEAN
  BY <1>1, <1>2 DEF Typed
<1>5. Typed'
  BY <1>1, <1>2, <1>3, <1>4 DEF Typed
<1>6. Inputs'
  BY <1>1, <1>2, SameInputs
<1>7. ClearedIsNotDrafted' /\ ClearedIsNotAwaited'
  BY <1>1, <1>2 DEF ClearedIsNotDrafted, ClearedIsNotAwaited
<1>. QED  BY <1>5, <1>6, <1>7 DEF IInv
-----------------------------------------------------------------------------
LEMMA InitIInv == Init => IInv
<1> SUFFICES ASSUME Init
             PROVE  IInv
  OBVIOUS
<1>1. /\ draft = Nothing /\ lastSent = Nothing
      /\ status = [f \in Fields |-> "none"]
      /\ rev = 0 /\ timer = FALSE /\ queued = FALSE /\ flight = NoFlight
      /\ canonical = InitContent
      /\ text = [f \in Fields |-> AsText(InitContent.vals[f])]
      /\ sent = 0 /\ inbox = << >>
      /\ cleared = [f \in Fields |-> FALSE]
      /\ disturbed = FALSE /\ faults = 0
  BY DEF Init
<1>2. server \in Server
  BY ContentAssumption DEF Init, Server
<1>3. rev \in 0..MaxRev
  BY <1>1, BoundsAssumption
<1>4. Typed
  <2>1. draft \in Draft /\ lastSent \in Draft /\ canonical \in Stored
    BY <1>1, NothingIsDraft, ContentAssumption
  <2>2. status \in [Fields -> Statuses] /\ cleared \in [Fields -> BOOLEAN]
    BY <1>1 DEF Statuses
  <2>3. inbox \in Seq(Put)
    BY <1>1
  <2>. QED  BY <1>1, <1>2, <1>3, <2>1, <2>2, <2>3 DEF Typed
<1>5. DOMAIN draft.vals = {}
  BY <1>1 DEF Nothing
<1>6. Inputs
  <2>1. \A f \in Fields : /\ AsText(InitContent.vals[f]) \in Numerals
                         /\ AsText(InitContent.vals[f]) # Blank
    BY ContentAssumption, StoredIs, AbsenceAssumption, FormsAssumption, BlankAssumption
       DEF AsText, Numerals
  <2>2. \A f \in Fields : text[f] = AsText(Shown(f)) /\ ~cleared[f]
    BY <1>1, <1>5 DEF Shown
  <2>3. text \in [Fields -> Numerals \cup {Blank}]
    BY <1>1, <2>1
  <2>4. DOMAIN draft.srcs \subseteq DOMAIN draft.vals
    BY <1>1, NothingIsDraft
  <2>. QED  BY <1>1, <2>1, <2>2, <2>3, <2>4 DEF Inputs, InputIsTheAnalysts
<1>7. ClearedIsNotDrafted /\ ClearedIsNotAwaited
  BY <1>1, NothingIsDraft DEF ClearedIsNotDrafted, ClearedIsNotAwaited
<1>. QED  BY <1>4, <1>6, <1>7 DEF IInv

LEMMA UnchangedIInv == ASSUME IInv, UNCHANGED vars PROVE IInv'
<1>1. UNCHANGED <<draft, lastSent, status, rev, timer, queued, flight, canonical, text,
                  sent, inbox, server, cleared, disturbed, faults>>
  BY DEF vars, store, editor, wire, history
<1>2. Typed /\ Inputs /\ ClearedIsNotDrafted /\ ClearedIsNotAwaited
  BY DEF IInv
<1>3. Typed'
  BY <1>1, <1>2 DEF Typed
<1>4. Inputs'
  BY <1>1, <1>2, SameInputs
<1>5. ClearedIsNotDrafted' /\ ClearedIsNotAwaited'
  BY <1>1, <1>2 DEF ClearedIsNotDrafted, ClearedIsNotAwaited
<1>. QED  BY <1>3, <1>4, <1>5 DEF IInv

LEMMA Inductive == Spec => []IInv
<1>1. ASSUME IInv, Next PROVE IInv'
  <2>1. ASSUME NEW f \in Fields, NEW raw \in Numerals, SetFieldValue(f, raw) PROVE IInv'
    BY <1>1, <2>1, SetFieldValueIInv
  <2>2. ASSUME NEW f \in Fields, ClearFieldValue(f) PROVE IInv'
    BY <1>1, <2>2, ClearFieldValueIInv
  <2>3. ASSUME NEW f \in ModeFields, ToggleMode(f) PROVE IInv'
    BY <1>1, <2>3, ToggleModeIInv
  <2>4. ASSUME TimerFires \/ ModEnter PROVE IInv'
    BY <1>1, <2>4, FlushIInv DEF TimerFires, ModEnter
  <2>5. ASSUME ServerHandles \/ ConnectionLost \/ Vanish PROVE IInv'
    BY <1>1, <2>5, ServerHandlesIInv, ConnectionLostIInv, VanishIInv
  <2>6. ASSUME Settle PROVE IInv'
    BY <1>1, <2>6, SettleSuccessIInv, SettleFailureIInv DEF Settle
  <2>. QED  BY <1>1, <2>1, <2>2, <2>3, <2>4, <2>5, <2>6 DEF Next
<1>2. IInv /\ [Next]_vars => IInv'
  BY <1>1, UnchangedIInv
<1>. QED  BY InitIInv, <1>2, PTL DEF Spec
-----------------------------------------------------------------------------
(* What the reader is told.                                                *)

(* The draft, the PUT in flight, the cached resort, the inputs and what    *)
(* the server holds keep their types; no PUT leaves a resort without one   *)
(* of its metrics.                                                         *)
THEOREM TypeCorrect == Spec => []TypeOK
<1>1. IInv => TypeOK
  <2> SUFFICES ASSUME IInv
               PROVE  TypeOK
    OBVIOUS
  <2>1. Typed /\ Inputs
    BY DEF IInv
  <2>. QED  BY <2>1 DEF Inputs, Typed, TypeOK, InFlight, Put
<1>. QED  BY <1>1, Inductive, PTL

(* FieldRow.tsx: a plainly written number in an input is the edit or the   *)
(* stored value its row stands for, any other text is the analyst's and    *)
(* denotes the edit as long as there is one, and an emptied input stays    *)
(* empty, whatever answers come in.                                        *)
THEOREM InputsKept == Spec => []InputIsTheAnalysts
<1>1. IInv => InputIsTheAnalysts
  BY DEF IInv, Inputs
<1>. QED  BY <1>1, Inductive, PTL

(* clearFieldValue: no PUT whose answer will be cached carries a value     *)
(* that was cleared since.                                                 *)
THEOREM ClearedNotAwaited == Spec => []ClearedIsNotAwaited
<1>1. IInv => ClearedIsNotAwaited
  BY DEF IInv
<1>. QED  BY <1>1, Inductive, PTL
=============================================================================
