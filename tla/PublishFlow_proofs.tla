------------------------- MODULE PublishFlow_proofs -------------------------
(***************************************************************************)
(* Theorems about PublishFlow, for any number of resorts and publish       *)
(* requests, any files and served datasets to start from, and any edits.   *)
(***************************************************************************)
EXTENDS PublishFlow, FiniteSetTheorems, TLAPS

(* No stamp is ahead of the clock, and a call's own is no earlier than that *)
(* of the dataset it read.                                                 *)
StampsPast ==
    /\ served.at <= clock
    /\ \A c \in Calls : base[c].at <= clock /\ input[c].at <= clock

(* What a call hands on contains what it read as served, and that is what  *)
(* is served until another call serves.                                    *)
Keeps(c) ==
    /\ pc[c] = "waiting" => /\ DOMAIN base[c].entries \subseteq DOMAIN input[c].entries
                            /\ base[c].at <= input[c].at
    /\ pc[c] \in {"merging", "waiting"} /\ c \notin overtaken => base[c] = served

(* What the call has of each resort was there at some moment.              *)
Of(entries, s) == IF s \in DOMAIN entries THEN entries[s] ELSE Absent

Saw(c, s, e) == e \in seen[c][s] \/ Corrupt \in seen[c][s]

Recent(c) ==
    /\ pc[c] = "idle" => read[c] = << >>
    /\ Running(c) => \A s \in Slugs : Contents(s) \subseteq seen[c][s]
    /\ pc[c] \in {"reading", "merging"} =>
        \A s \in DOMAIN read[c] : Saw(c, s, read[c][s])
    /\ pc[c] = "reading" =>
        \A s \in Slugs \ (DOMAIN read[c] \cup left[c]) : Saw(c, s, ServedEntry(s))
    /\ pc[c] = "merging" =>
        \A s \in Slugs \ DOMAIN read[c] : Saw(c, s, Of(base[c].entries, s))
    /\ pc[c] = "waiting" =>
        \A s \in Slugs : Saw(c, s, Of(input[c].entries, s))

IInv == /\ TypeOK /\ StampsPast
        /\ \A c \in Calls : Keeps(c) /\ Recent(c)
-----------------------------------------------------------------------------
LEMMA EmptyMap == EntryMap(<< >>)
<1>1. DOMAIN << >> = {}
  OBVIOUS
<1>. QED  BY <1>1 DEF EntryMap

LEMMA InitIInv == Init => IInv
<1> SUFFICES ASSUME Init
             PROVE  IInv
  OBVIOUS
<1>1. TypeOK
  BY FlowAssumption, EmptyMap DEF Init, TypeOK, NoDoc
<1>2. StampsPast
  BY FlowAssumption DEF Init, StampsPast, NoDoc
<1>3. \A c \in Calls : Keeps(c) /\ Recent(c)
  BY DEF Init, Keeps, Recent, Running
<1>. QED  BY <1>1, <1>2, <1>3 DEF IInv

(* Merging two maps of entries.                                            *)
LEMMA MergedIs ==
    ASSUME NEW ws, NEW pub, EntryMap(ws), EntryMap(pub)
    PROVE  /\ DOMAIN MergedEntries(ws, pub) = DOMAIN ws \cup DOMAIN pub
           /\ \A s \in DOMAIN ws : MergedEntries(ws, pub)[s] = ws[s]
           /\ \A s \in DOMAIN pub \ DOMAIN ws : MergedEntries(ws, pub)[s] = pub[s]
<1>1. ASSUME NEW e, Entry(e) PROVE [e EXCEPT !.live = e.live] = e
  BY <1>1 DEF Entry
<1>2. \A s \in DOMAIN ws : [ws[s] EXCEPT !.live = MergedLive(ws, pub, s)] = ws[s]
  BY <1>1 DEF EntryMap, MergedLive
<1>3. \A s \in DOMAIN pub \ DOMAIN ws :
        [pub[s] EXCEPT !.live = MergedLive(ws, pub, s)] = pub[s]
  BY <1>1 DEF EntryMap, MergedLive
<1>. QED  BY <1>2, <1>3 DEF MergedEntries

LEMMA MergedMap ==
    ASSUME NEW ws, NEW pub, EntryMap(ws), EntryMap(pub)
    PROVE  EntryMap(MergedEntries(ws, pub))
<1>1. /\ DOMAIN MergedEntries(ws, pub) = DOMAIN ws \cup DOMAIN pub
      /\ \A s \in DOMAIN ws : MergedEntries(ws, pub)[s] = ws[s]
      /\ \A s \in DOMAIN pub \ DOMAIN ws : MergedEntries(ws, pub)[s] = pub[s]
  BY MergedIs
<1>. QED  BY <1>1 DEF EntryMap
-----------------------------------------------------------------------------
LEMMA UnchangedIInv == IInv /\ UNCHANGED vars => IInv'
<1> SUFFICES ASSUME IInv, UNCHANGED vars
             PROVE  IInv'
  OBVIOUS
<1>1. /\ files' = files /\ served' = served /\ edits' = edits /\ clock' = clock /\ pc' = pc
      /\ left' = left /\ read' = read /\ base' = base /\ input' = input
      /\ began' = began /\ seen' = seen /\ overtaken' = overtaken
  BY DEF vars, disk, locals, history
<1>2. TypeOK' /\ StampsPast'
  BY <1>1 DEF IInv, TypeOK, StampsPast
<1>3. \A c, s, e : Saw(c, s, e)' <=> Saw(c, s, e)
  BY <1>1 DEF Saw
<1>4. \A s : Contents(s)' = Contents(s) /\ ServedEntry(s)' = ServedEntry(s)
  BY <1>1 DEF Contents, Holding, ParsedNames, ServedEntry, ServedEntries
<1>5. \A c \in Calls : Keeps(c)' /\ Recent(c)'
  BY <1>1, <1>3, <1>4 DEF IInv, Keeps, Recent, Running
<1>. QED  BY <1>2, <1>5 DEF IInv

(* A step that only changes the workspace files.                           *)
LEMMA EditIInv ==
    ASSUME IInv, NEW s \in Slugs, NEW f, files' = [files EXCEPT ![s] = f],
           Parsed(f) => f.slug \in Slugs /\ Entry(f.entry),
           Edited, UNCHANGED <<served, clock, pc, locals, began, overtaken>>, Witness
    PROVE  IInv'
<1>1. /\ served' = served /\ clock' = clock /\ pc' = pc /\ left' = left /\ read' = read
      /\ base' = base /\ input' = input /\ began' = began /\ overtaken' = overtaken
      /\ edits' = edits + 1 /\ edits < MaxEdits
  BY DEF locals, Edited
<1>2. /\ DOMAIN files' = Slugs /\ files'[s] = f
      /\ \A n \in Slugs \ {s} : files'[n] = files[n]
  BY DEF IInv, TypeOK
<1>3. /\ DOMAIN seen' = Calls /\ \A c \in Calls : DOMAIN seen'[c] = Slugs
      /\ \A c \in Calls : \A t \in Slugs :
            /\ seen[c][t] \subseteq seen'[c][t]
            /\ Running(c) => Contents(t)' \subseteq seen'[c][t]
  BY DEF Witness
<1>4. TypeOK'
  <2>1. edits' \in 0..MaxEdits
    BY <1>1, FlowAssumption DEF IInv, TypeOK
  <2>. QED  BY <1>1, <1>2, <1>3, <2>1 DEF IInv, TypeOK
<1>5. StampsPast'
  BY <1>1 DEF IInv, StampsPast
<1>6. ASSUME NEW c \in Calls PROVE Keeps(c)' /\ Recent(c)'
  <2>1. Keeps(c)'
    BY <1>1 DEF IInv, Keeps
  <2>2. \A t, e : t \in Slugs /\ Saw(c, t, e) => Saw(c, t, e)'
    BY <1>3 DEF Saw
  <2>3. \A t : ServedEntry(t)' = ServedEntry(t)
    BY <1>1 DEF ServedEntry, ServedEntries
  <2>4. DOMAIN read[c] \subseteq Slugs
    BY DEF IInv, TypeOK, EntryMap
  <2>5. (Running(c)' <=> Running(c)) /\ Recent(c)
    BY <1>1 DEF IInv, Running
  <2>. QED  BY <1>1, <1>3, <2>1, <2>2, <2>3, <2>4, <2>5 DEF Recent
<1>. QED  BY <1>4, <1>5, <1>6 DEF IInv

LEMMA PutIInv ==
    ASSUME IInv, NEW s \in Slugs, Put(s)
    PROVE  IInv'
<1>0. PICK e \in Edits \cup {Base(s)} : \E live \in {e.live, Base(s).live} :
         files' = [files EXCEPT ![s] = [slug |-> s, entry |-> [e EXCEPT !.live = live]]]
  BY DEF Put
<1>1. PICK live \in {e.live, Base(s).live} :
         files' = [files EXCEPT ![s] = [slug |-> s, entry |-> [e EXCEPT !.live = live]]]
  BY <1>0
<1>2. Entry(Base(s))
  BY DEF Put, Base, IInv, TypeOK, EntryMap, ServedEntries
<1>3. Entry(e) /\ (live = NoLive \/ Signal(live))
  BY <1>2, FlowAssumption DEF Entry
<1> DEFINE now == [e EXCEPT !.live = live]
           f == [slug |-> s, entry |-> now]
<1>4. Entry(now)
  <2>1. now = [rev |-> e.rev, srcs |-> e.srcs, live |-> live]
    BY <1>3 DEF Entry
  <2> HIDE DEF now
  <2>2. now.rev = e.rev /\ now.srcs = e.srcs /\ now.live = live
    BY <2>1
  <2>. QED  BY <1>3, <2>1, <2>2 DEF Entry
<1> HIDE DEF now
<1>5. f.slug \in Slugs /\ Entry(f.entry)
  BY <1>4
<1>6. files' = [files EXCEPT ![s] = f]
  BY <1>1 DEF now
<1> HIDE DEF f
<1>. QED  BY <1>5, <1>6, EditIInv DEF Put

LEMMA AuthorIInv ==
    ASSUME IInv, NEW s \in Slugs, Author(s)
    PROVE  IInv'
<1>1. PICK f \in {Corrupt} \cup {[slug |-> s, entry |-> e] : e \in Edits} :
         files' = [files EXCEPT ![s] = f]
  BY DEF Author
<1>2. Parsed(f) => f.slug \in Slugs /\ Entry(f.entry)
  BY FlowAssumption DEF Parsed
<1>. QED  BY <1>1, <1>2, EditIInv DEF Author

LEMMA RemoveIInv ==
    ASSUME IInv, NEW s \in Slugs, Remove(s)
    PROVE  IInv'
  BY EditIInv DEF Remove, Parsed

LEMMA TickIInv == IInv /\ Tick => IInv'
<1> SUFFICES ASSUME IInv, Tick
             PROVE  IInv'
  OBVIOUS
<1>1. /\ files' = files /\ served' = served /\ edits' = edits /\ pc' = pc /\ left' = left
      /\ read' = read /\ base' = base /\ input' = input /\ began' = began
      /\ seen' = seen /\ overtaken' = overtaken /\ clock' = clock + 1 /\ clock < MaxClock
  BY DEF Tick, disk, locals, history
<1>2. clock' \in 0..MaxClock /\ clock \in Nat
  BY <1>1, FlowAssumption DEF IInv, TypeOK
<1>3. TypeOK'
  BY <1>1, <1>2 DEF IInv, TypeOK
<1>5. StampsPast'
  BY <1>1, <1>2 DEF IInv, TypeOK, StampsPast
<1>6. \A c \in Calls : Keeps(c)' /\ Recent(c)'
  BY <1>1 DEF IInv, Keeps, Recent, Saw, Running, Contents, Holding, ParsedNames,
              ServedEntry, ServedEntries
<1>. QED  BY <1>3, <1>5, <1>6 DEF IInv
-----------------------------------------------------------------------------
(* A step of one call leaves the others as they are, unless it serves.     *)
LEMMA OtherCalls ==
    ASSUME IInv, NEW c \in Calls, NEW d \in Calls \ {c}, UNCHANGED disk,
           pc'[d] = pc[d], left'[d] = left[d], read'[d] = read[d], base'[d] = base[d],
           input'[d] = input[d], seen'[d] = seen[d],
           d \in overtaken => d \in overtaken'
    PROVE  Keeps(d)' /\ Recent(d)'
<1>1. files' = files /\ served' = served
  BY DEF disk
<1>2. /\ \A s : ServedEntry(s)' = ServedEntry(s) /\ Contents(s)' = Contents(s)
      /\ \A s, e : Saw(d, s, e)' <=> Saw(d, s, e)
      /\ Running(d)' <=> Running(d)
  BY <1>1 DEF ServedEntry, ServedEntries, Contents, Holding, ParsedNames, Saw, Running
<1>3. Keeps(d) /\ Recent(d)
  BY DEF IInv
<1>4. Keeps(d)'
  BY <1>1, <1>3 DEF Keeps
<1>5. Recent(d)'
  BY <1>2, <1>3 DEF Recent
<1>. QED  BY <1>4, <1>5

LEMMA SettleIInv ==
    ASSUME IInv, NEW c \in Calls, UNCHANGED <<disk, clock, began>>,
           NEW outcome \in {"internal", "workspace-corrupt", "publish-validation-failed"},
           Settle(c, outcome)
    PROVE  IInv'
<1>1. files' = files /\ served' = served /\ edits' = edits /\ clock' = clock /\ began' = began
  BY DEF disk
<1>2. /\ pc'[c] = outcome /\ left'[c] = {} /\ read'[c] = << >>
      /\ base'[c].entries = << >> /\ input'[c].entries = << >>
      /\ base'[c].at = 0 /\ input'[c].at = 0
      /\ \A d \in Calls \ {c} :
            /\ pc'[d] = pc[d] /\ left'[d] = left[d] /\ read'[d] = read[d]
            /\ base'[d] = base[d] /\ input'[d] = input[d] /\ seen'[d] = seen[d]
            /\ d \in overtaken => d \in overtaken'
  BY DEF Settle, NoDoc, IInv, TypeOK
<1>3. TypeOK'
  <2>1. /\ pc' \in [Calls -> {"idle", "reading", "merging", "waiting", "ok", "internal",
                             "workspace-corrupt", "publish-validation-failed"}]
        /\ left' \in [Calls -> SUBSET Slugs]
        /\ DOMAIN read' = Calls /\ DOMAIN base' = Calls /\ DOMAIN input' = Calls
        /\ DOMAIN seen' = Calls /\ \A d \in Calls : DOMAIN seen'[d] = Slugs
        /\ overtaken' \subseteq Calls
    BY DEF Settle, IInv, TypeOK
  <2>2. \A d \in Calls : /\ EntryMap(read'[d]) /\ EntryMap(base'[d].entries)
                         /\ EntryMap(input'[d].entries)
                         /\ base'[d].at \in Int /\ input'[d].at \in Int
    BY <1>2, EmptyMap DEF IInv, TypeOK
  <2>. QED  BY <1>1, <2>1, <2>2 DEF IInv, TypeOK
<1>4. StampsPast'
  BY <1>1, <1>2 DEF IInv, TypeOK, StampsPast
<1>5. Keeps(c)' /\ Recent(c)'
  BY <1>2 DEF Keeps, Recent, Running
<1>6. \A d \in Calls \ {c} : Keeps(d)' /\ Recent(d)'
  BY <1>2, OtherCalls
<1>. QED  BY <1>3, <1>4, <1>5, <1>6 DEF IInv

LEMMA BeginIInv ==
    ASSUME IInv, NEW c \in Calls, Begin(c)
    PROVE  IInv'
<1>1. /\ files' = files /\ served' = served /\ edits' = edits /\ clock' = clock
      /\ read' = read /\ base' = base /\ input' = input /\ overtaken' = overtaken
  BY DEF Begin, disk
<1>2. /\ pc'[c] = "reading" /\ left'[c] = {n \in Slugs : files[n] # Absent}
      /\ \A s \in Slugs : seen'[c][s] = Contents(s)
      /\ \A d \in Calls \ {c} : pc'[d] = pc[d] /\ left'[d] = left[d] /\ seen'[d] = seen[d]
  BY DEF Begin, IInv, TypeOK
<1>3. TypeOK'
  <2>1. /\ pc' \in [Calls -> {"idle", "reading", "merging", "waiting", "ok", "internal",
                             "workspace-corrupt", "publish-validation-failed"}]
        /\ left' \in [Calls -> SUBSET Slugs] /\ began' \in [Calls -> 0..MaxClock]
        /\ DOMAIN seen' = Calls /\ \A d \in Calls : DOMAIN seen'[d] = Slugs
    BY DEF Begin, IInv, TypeOK
  <2>. QED  BY <1>1, <2>1 DEF IInv, TypeOK
<1>4. StampsPast'
  BY <1>1 DEF IInv, StampsPast
<1>5. Keeps(c)'
  BY <1>2 DEF Keeps
<1>6. Recent(c)'
  <2>1. \A s : ServedEntry(s)' = ServedEntry(s) /\ Contents(s)' = Contents(s)
    BY <1>1 DEF ServedEntry, ServedEntries, Contents, Holding, ParsedNames
  <2>2. read[c] = << >> /\ DOMAIN << >> = {}
    BY DEF IInv, Recent, Begin
  <2>3. ASSUME NEW s \in Slugs, s \notin left'[c] PROVE Saw(c, s, ServedEntry(s))'
    <3>1. ~Parsed(files[s])
      BY <1>2, <2>3 DEF Parsed
    <3>2. CASE Holding(s) = {}
      BY <1>2, <2>1, <3>2 DEF Saw, Contents
    <3>3. CASE Holding(s) # {}
      <4>1. PICK n \in Holding(s) : n # s
        BY <3>1, <3>3 DEF Holding, ParsedNames
      <4>2. Corrupt \in Contents(s)
        BY <4>1 DEF Contents
      <4>. QED  BY <1>2, <4>2 DEF Saw
    <3>. QED  BY <3>2, <3>3
  <2>4. \A s \in Slugs : Contents(s)' \subseteq seen'[c][s]
    BY <1>2, <2>1
  <2>. QED  BY <1>1, <1>2, <2>2, <2>3, <2>4 DEF Recent
<1>7. \A d \in Calls \ {c} : Keeps(d)' /\ Recent(d)'
  <2>1. UNCHANGED disk
    BY DEF Begin
  <2>. QED  BY <1>1, <1>2, <2>1, OtherCalls
<1>. QED  BY <1>3, <1>4, <1>5, <1>6, <1>7 DEF IInv

LEMMA ReadFileIInv ==
    ASSUME IInv, NEW c \in Calls, NEW n \in Slugs, ReadFile(c, n)
    PROVE  IInv'
<1> DEFINE t == files[n].slug
           e == files[n].entry
<1>1. /\ files' = files /\ served' = served /\ edits' = edits /\ clock' = clock
      /\ pc' = pc /\ base' = base /\ input' = input /\ began' = began /\ seen' = seen
      /\ overtaken' = overtaken /\ pc[c] = "reading" /\ n \in left[c] /\ Parsed(files[n])
  BY DEF ReadFile, disk, history
<1>2. t \in Slugs /\ Entry(e)
  BY <1>1 DEF IInv, TypeOK
<1>3. /\ left'[c] = left[c] \ {n}
      /\ DOMAIN read'[c] = DOMAIN read[c] \cup {t} /\ read'[c][t] = e
      /\ \A s \in DOMAIN read[c] \ {t} : read'[c][s] = read[c][s]
      /\ \A d \in Calls \ {c} : left'[d] = left[d] /\ read'[d] = read[d]
      /\ left' \in [Calls -> SUBSET Slugs] /\ DOMAIN read' = Calls
  BY DEF ReadFile, IInv, TypeOK
<1> HIDE DEF e, t
<1>4. TypeOK'
  <2>1. EntryMap(read'[c])
    BY <1>2, <1>3 DEF IInv, TypeOK, EntryMap
  <2>2. \A d \in Calls : EntryMap(read'[d])
    BY <1>3, <2>1 DEF IInv, TypeOK
  <2>. QED  BY <1>1, <1>3, <2>2 DEF IInv, TypeOK
<1>5. StampsPast'
  BY <1>1 DEF IInv, StampsPast
<1>6. Keeps(c)'
  BY <1>1 DEF Keeps
<1>7. Recent(c)'
  <2>1. \A s : ServedEntry(s)' = ServedEntry(s) /\ Contents(s)' = Contents(s)
    BY <1>1 DEF ServedEntry, ServedEntries, Contents, Holding, ParsedNames
  <2>2. /\ \A s \in Slugs : Contents(s) \subseteq seen[c][s]
        /\ \A s \in DOMAIN read[c] : Saw(c, s, read[c][s])
        /\ \A s \in Slugs \ (DOMAIN read[c] \cup left[c]) : Saw(c, s, ServedEntry(s))
    BY <1>1 DEF IInv, Recent, Running
  <2>3. \A s, x : Saw(c, s, x)' <=> Saw(c, s, x)
    BY <1>1 DEF Saw
  <2>4. Saw(c, t, e)
    <3>1. n \in Holding(t)
      BY <1>1 DEF Holding, ParsedNames, t
    <3>2. e \in Contents(t) \/ Corrupt \in Contents(t)
      BY <3>1 DEF Contents, e
    <3>. QED  BY <1>2, <2>2, <3>2 DEF Saw
  <2>5. ASSUME n # t PROVE Saw(c, n, ServedEntry(n))
    <3>1. CASE Holding(n) = {}
      BY <2>2, <3>1 DEF Contents, Saw
    <3>2. CASE Holding(n) # {}
      <4>1. PICK m \in Holding(n) : m # n
        BY <2>5, <3>2 DEF Holding, t
      <4>2. Corrupt \in Contents(n)
        BY <4>1 DEF Contents
      <4>. QED  BY <2>2, <4>2 DEF Saw
    <3>. QED  BY <3>1, <3>2
  <2>6. \A s \in DOMAIN read'[c] : Saw(c, s, read'[c][s])
    BY <1>3, <2>2, <2>4
  <2>7. \A s \in Slugs \ (DOMAIN read'[c] \cup left'[c]) : Saw(c, s, ServedEntry(s))
    BY <1>3, <2>2, <2>5
  <2>. QED  BY <1>1, <2>1, <2>2, <2>3, <2>6, <2>7 DEF Recent
<1>8. \A d \in Calls \ {c} : Keeps(d)' /\ Recent(d)'
  <2>1. UNCHANGED disk
    BY DEF ReadFile
  <2>. QED  BY <1>1, <1>3, <2>1, OtherCalls
<1>. QED  BY <1>4, <1>5, <1>6, <1>7, <1>8 DEF IInv

LEMMA ReadServedIInv ==
    ASSUME IInv, NEW c \in Calls, ReadServed(c)
    PROVE  IInv'
<1>1. /\ files' = files /\ served' = served /\ edits' = edits /\ clock' = clock
      /\ left' = left /\ read' = read /\ input' = input /\ began' = began /\ seen' = seen
      /\ overtaken' = overtaken /\ pc[c] = "reading" /\ left[c] = {}
  BY DEF ReadServed, disk, history
<1>2. /\ pc'[c] = "merging" /\ base'[c] = served
      /\ \A d \in Calls \ {c} : pc'[d] = pc[d] /\ base'[d] = base[d]
      /\ pc' \in [Calls -> {"idle", "reading", "merging", "waiting", "ok", "internal",
                           "workspace-corrupt", "publish-validation-failed"}]
      /\ DOMAIN base' = Calls
  BY DEF ReadServed, IInv, TypeOK
<1>3. TypeOK'
  <2>1. \A d \in Calls : EntryMap(base'[d].entries) /\ base'[d].at \in Int
    BY <1>2 DEF IInv, TypeOK
  <2>. QED  BY <1>1, <1>2, <2>1 DEF IInv, TypeOK
<1>4. StampsPast'
  BY <1>1, <1>2 DEF IInv, StampsPast
<1>5. Keeps(c)'
  BY <1>1, <1>2 DEF Keeps
<1>6. Recent(c)'
  <2>1. \A s : ServedEntry(s)' = ServedEntry(s) /\ Contents(s)' = Contents(s)
    BY <1>1 DEF ServedEntry, ServedEntries, Contents, Holding, ParsedNames
  <2>2. \A s, x : Saw(c, s, x)' <=> Saw(c, s, x)
    BY <1>1 DEF Saw
  <2>3. \A s : Of(base'[c].entries, s) = ServedEntry(s)
    BY <1>2 DEF Of, ServedEntry, ServedEntries
  <2>4. /\ \A s \in Slugs : Contents(s) \subseteq seen[c][s]
        /\ \A s \in DOMAIN read[c] : Saw(c, s, read[c][s])
        /\ \A s \in Slugs \ DOMAIN read[c] : Saw(c, s, ServedEntry(s))
    BY <1>1 DEF IInv, Recent, Running
  <2>. QED  BY <1>1, <1>2, <2>1, <2>2, <2>3, <2>4 DEF Recent
<1>7. \A d \in Calls \ {c} : Keeps(d)' /\ Recent(d)'
  <2>1. UNCHANGED disk
    BY DEF ReadServed
  <2>. QED  BY <1>1, <1>2, <2>1, OtherCalls
<1>. QED  BY <1>3, <1>4, <1>5, <1>6, <1>7 DEF IInv

LEMMA ComposeIInv ==
    ASSUME IInv, NEW c \in Calls, Compose(c)
    PROVE  IInv'
<1> DEFINE doc == [at |-> PublishedAt(c), entries |-> Merged(c)]
<1>1. CASE ~Accepted(doc)
  BY <1>1, SettleIInv DEF Compose
<1>2. CASE Accepted(doc)
  <2>1. /\ files' = files /\ served' = served /\ edits' = edits /\ clock' = clock
        /\ left' = left /\ read' = read /\ base' = base /\ began' = began /\ seen' = seen
        /\ overtaken' = overtaken /\ pc[c] = "merging"
    BY <1>2 DEF Compose, disk
  <2>2. /\ pc'[c] = "waiting" /\ input'[c] = doc
        /\ \A d \in Calls \ {c} : pc'[d] = pc[d] /\ input'[d] = input[d]
        /\ pc' \in [Calls -> {"idle", "reading", "merging", "waiting", "ok", "internal",
                             "workspace-corrupt", "publish-validation-failed"}]
        /\ DOMAIN input' = Calls
    BY <1>2 DEF Compose, IInv, TypeOK
  <2>3. input'[c].entries = MergedEntries(read[c], base[c].entries)
    BY <2>2 DEF Merged
  <2> HIDE DEF doc
  <2>4. EntryMap(read[c]) /\ EntryMap(base[c].entries)
    BY DEF IInv, TypeOK
  <2>5. EntryMap(input'[c].entries) /\ input'[c].at = clock /\ clock \in Int
    BY <2>2, <2>3, <2>4, MergedMap DEF doc, PublishedAt, IInv, TypeOK
  <2>6. /\ DOMAIN input'[c].entries = DOMAIN read[c] \cup DOMAIN base[c].entries
        /\ \A s \in DOMAIN read[c] : input'[c].entries[s] = read[c][s]
        /\ \A s \in DOMAIN base[c].entries \ DOMAIN read[c] :
              input'[c].entries[s] = base[c].entries[s]
    <3> DEFINE m == MergedEntries(read[c], base[c].entries)
    <3>1. /\ DOMAIN m = DOMAIN read[c] \cup DOMAIN base[c].entries
          /\ \A s \in DOMAIN read[c] : m[s] = read[c][s]
          /\ \A s \in DOMAIN base[c].entries \ DOMAIN read[c] : m[s] = base[c].entries[s]
      BY <2>4, MergedIs
    <3> HIDE DEF m
    <3>2. input'[c].entries = m
      BY <2>3 DEF m
    <3>. QED  BY <3>1, <3>2
  <2>7. TypeOK'
    <3>1. \A d \in Calls : EntryMap(input'[d].entries) /\ input'[d].at \in Int
      BY <2>2, <2>5 DEF IInv, TypeOK
    <3>. QED  BY <2>1, <2>2, <3>1 DEF IInv, TypeOK
  <2>8. StampsPast'
    BY <2>1, <2>2, <2>5 DEF IInv, StampsPast
  <2>9. Keeps(c)'
    BY <2>1, <2>2, <2>5, <2>6 DEF IInv, Keeps, StampsPast
  <2>10. Recent(c)'
    <3>1. \A s \in Slugs : Contents(s)' \subseteq seen'[c][s]
      BY <2>1 DEF IInv, Recent, Running, Contents, Holding, ParsedNames,
                  ServedEntry, ServedEntries
    <3>2. \A s \in Slugs : Saw(c, s, Of(input'[c].entries, s))
      BY <2>1, <2>6 DEF IInv, Recent, Of
    <3>. QED  BY <2>1, <2>2, <3>1, <3>2 DEF Recent, Saw
  <2>11. \A d \in Calls \ {c} : Keeps(d)' /\ Recent(d)'
    <3>1. UNCHANGED disk
      BY DEF Compose
    <3>. QED  BY <2>1, <2>2, <3>1, OtherCalls
  <2>. QED  BY <2>7, <2>8, <2>9, <2>10, <2>11 DEF IInv
<1>. QED  BY <1>1, <1>2

LEMMA ServeIInv ==
    ASSUME IInv, NEW c \in Calls, Serve(c)
    PROVE  IInv'
<1>1. /\ files' = files /\ edits' = edits /\ clock' = clock /\ began' = began
      /\ served' = input[c] /\ pc[c] = "waiting"
  BY DEF Serve
<1>2. /\ pc'[c] = "ok" /\ read'[c] = << >>
      /\ base'[c].entries = << >> /\ input'[c].entries = << >>
      /\ base'[c].at = 0 /\ input'[c].at = 0
      /\ \A d \in Calls \ {c} :
            /\ pc'[d] = pc[d] /\ left'[d] = left[d] /\ read'[d] = read[d]
            /\ base'[d] = base[d] /\ input'[d] = input[d]
            /\ pc[d] \in {"merging", "waiting"} => d \in overtaken'
  BY DEF Serve, NoDoc, IInv, TypeOK
<1>3. TypeOK'
  <2>1. /\ pc' \in [Calls -> {"idle", "reading", "merging", "waiting", "ok", "internal",
                             "workspace-corrupt", "publish-validation-failed"}]
        /\ left' \in [Calls -> SUBSET Slugs]
        /\ DOMAIN read' = Calls /\ DOMAIN base' = Calls /\ DOMAIN input' = Calls
        /\ DOMAIN seen' = Calls /\ \A d \in Calls : DOMAIN seen'[d] = Slugs
        /\ overtaken' \subseteq Calls
    BY DEF Serve, IInv, TypeOK
  <2>2. \A d \in Calls : /\ EntryMap(read'[d]) /\ EntryMap(base'[d].entries)
                         /\ EntryMap(input'[d].entries)
                         /\ base'[d].at \in Int /\ input'[d].at \in Int
    BY <1>2, EmptyMap DEF IInv, TypeOK
  <2>. QED  BY <1>1, <2>1, <2>2 DEF IInv, TypeOK
<1>4. StampsPast'
  BY <1>1, <1>2 DEF IInv, TypeOK, StampsPast
<1>5. Keeps(c)' /\ Recent(c)'
  BY <1>2 DEF Keeps, Recent, Running
<1>6. ASSUME NEW d \in Calls \ {c} PROVE Keeps(d)' /\ Recent(d)'
  <2>1. Keeps(d)'
    BY <1>2 DEF IInv, Keeps
  <2>2. \A s \in Slugs :
          /\ seen[d][s] \subseteq seen'[d][s]
          /\ Running(d) => Contents(s)' \subseteq seen'[d][s] /\ ServedEntry(s)' \in seen'[d][s]
    BY <1>6 DEF Serve
  <2>4. \A s \in Slugs : Running(d) => Saw(d, s, ServedEntry(s))'
    BY <2>2 DEF Saw
  <2>5. DOMAIN read[d] \subseteq Slugs /\ Recent(d)
    BY DEF IInv, TypeOK, EntryMap
  <2>6. /\ Running(d)' <=> Running(d)
        /\ pc[d] = "reading" => Running(d)
    BY <1>2 DEF Running
  <2>7. pc'[d] \in {"reading", "merging"} =>
          \A s \in DOMAIN read'[d] : Saw(d, s, read[d][s])'
    BY <1>2, <2>2, <2>5 DEF Recent, Saw
  <2>8. pc'[d] = "merging" =>
          \A s \in Slugs \ DOMAIN read'[d] : Saw(d, s, Of(base[d].entries, s))'
    BY <1>2, <2>2, <2>5 DEF Recent, Saw, Of
  <2>9. pc'[d] = "waiting" => \A s \in Slugs : Saw(d, s, Of(input[d].entries, s))'
    BY <1>2, <2>2, <2>5 DEF Recent, Saw, Of
  <2>3. pc'[d] = "idle" => read'[d] = << >>
    BY <1>2, <2>5 DEF Recent
  <2>10. Running(d)' => \A s \in Slugs : Contents(s)' \subseteq seen'[d][s]
    BY <2>2, <2>6
  <2>11. pc'[d] = "reading" =>
           \A s \in Slugs \ (DOMAIN read'[d] \cup left'[d]) : Saw(d, s, ServedEntry(s))'
    BY <1>2, <2>4, <2>6
  <2>. QED  BY <2>3, <2>7, <2>8, <2>9, <2>10, <2>11, <2>1 DEF Recent
<1>. QED  BY <1>3, <1>4, <1>5, <1>6 DEF IInv

LEMMA NextIInv == IInv /\ [Next]_vars => IInv'
<1> SUFFICES ASSUME IInv, [Next]_vars
             PROVE  IInv'
  OBVIOUS
<1>1. ASSUME NEW s \in Slugs, Put(s) \/ Author(s) \/ Remove(s) PROVE IInv'
  BY <1>1, PutIInv, AuthorIInv, RemoveIInv
<1>2. ASSUME Tick PROVE IInv'
  BY <1>2, TickIInv
<1>3. ASSUME NEW c \in Calls,
             Begin(c) \/ ReadServed(c) \/ Compose(c) \/ Serve(c)
      PROVE  IInv'
  BY <1>3, BeginIInv, ReadServedIInv, ComposeIInv, ServeIInv
<1>4. ASSUME NEW c \in Calls, PublishFails(c) PROVE IInv'
  BY <1>4, SettleIInv DEF PublishFails
<1>5. ASSUME NEW c \in Calls, NEW n \in Slugs, ReadFile(c, n) PROVE IInv'
  BY <1>5, ReadFileIInv
<1>6. ASSUME NEW c \in Calls, NEW n \in Slugs, ReadRefused(c, n) PROVE IInv'
  BY <1>6, SettleIInv DEF ReadRefused
<1>7. ASSUME UNCHANGED vars PROVE IInv'
  BY <1>7, UnchangedIInv
<1>. QED  BY <1>1, <1>2, <1>3, <1>4, <1>5, <1>6, <1>7 DEF Next

LEMMA Inductive == Spec => []IInv
  BY InitIInv, NextIInv, PTL DEF Spec
-----------------------------------------------------------------------------
(* The files, the served dataset and what each call holds keep their types.*)
THEOREM TypeCorrect == Spec => []TypeOK
<1>1. IInv => TypeOK
  BY DEF IInv
<1>. QED  BY <1>1, Inductive, PTL

(* composePublishInput reads the resorts at different moments; each that   *)
(* it goes on to publish was there at some moment of the call.             *)
THEOREM RecentVersions == Spec => []VersionsAreRecent
<1>1. IInv => VersionsAreRecent
  BY DEF IInv, Recent, Saw, Of, VersionsAreRecent
<1>. QED  BY <1>1, Inductive, PTL

(* No publish drops a published resort unless another served in between.   *)
THEOREM KeepsResorts == Spec => PublishKeepsResorts
<1>1. ASSUME IInv, [Next]_vars, NEW c \in Calls, Serve(c), c \notin overtaken
      PROVE  DOMAIN ServedEntries \subseteq DOMAIN ServedEntries'
  BY <1>1 DEF IInv, Keeps, Serve, ServedEntries
<1>2. IInv /\ [Next]_vars =>
        [\A c \in Calls : Serve(c) /\ c \notin overtaken =>
            DOMAIN ServedEntries \subseteq DOMAIN ServedEntries']_vars
  BY <1>1
<1>. QED  BY <1>2, Inductive, PTL DEF Spec, PublishKeepsResorts

(* Nor is published_at ever moved back by a publish that read what the     *)
(* other had served, whichever of them began first.                        *)
THEOREM StampsNeverRunBack == Spec => StampsAdvance
<1>1. ASSUME IInv, [Next]_vars, NEW c \in Calls, Serve(c), c \notin overtaken
      PROVE  served.at <= served'.at
  BY <1>1 DEF IInv, Keeps, Serve
<1>2. IInv /\ [Next]_vars =>
        [\A c \in Calls : Serve(c) /\ c \notin overtaken => served.at <= served'.at]_vars
  BY <1>1
<1>. QED  BY <1>2, Inductive, PTL DEF Spec, StampsAdvance

(* A record is what it is with its own live signal put back.               *)
LEMMA OwnLive ==
  ASSUME NEW e, Entry(e)
  PROVE  [e EXCEPT !.live = e.live] = e
<1>1. e = [rev |-> e.rev, srcs |-> e.srcs, live |-> e.live]
  BY DEF Entry
<1>. QED  BY <1>1

(* What a publish makes of a resort in one file under its own name ...     *)
LEMMA MergedHeld ==
  ASSUME TypeOK, NEW s \in Slugs, NEW ws \in Readings, Holding(s) = {s}
  PROVE  /\ s \in DOMAIN MergedEntries(ws, ServedEntries)
         /\ MergedEntries(ws, ServedEntries)[s] = files[s].entry
<1>1. s \in DOMAIN ws /\ ws[s] = files[s].entry
  BY DEF Readings
<1>2. Entry(files[s].entry)
  BY DEF Holding, ParsedNames, TypeOK
<1>3. /\ s \in DOMAIN MergedEntries(ws, ServedEntries)
      /\ MergedEntries(ws, ServedEntries)[s] = [ws[s] EXCEPT !.live = ws[s].live]
  BY <1>1 DEF MergedEntries, MergedLive
<1>. QED  BY <1>1, <1>2, <1>3, OwnLive

(* ... and of one in no file.                                              *)
LEMMA MergedUnheld ==
  ASSUME TypeOK, NEW s \in Slugs, NEW ws \in Readings, Holding(s) = {}
  PROVE  /\ (s \in DOMAIN MergedEntries(ws, ServedEntries)) <=> (s \in DOMAIN ServedEntries)
         /\ s \in DOMAIN ServedEntries =>
              MergedEntries(ws, ServedEntries)[s] = ServedEntries[s]
<1>1. s \notin DOMAIN ws
  BY DEF Readings
<1>2. (s \in DOMAIN MergedEntries(ws, ServedEntries)) <=> (s \in DOMAIN ServedEntries)
  BY <1>1 DEF MergedEntries
<1>3. ASSUME s \in DOMAIN ServedEntries
      PROVE  MergedEntries(ws, ServedEntries)[s] = ServedEntries[s]
  <2>1. Entry(ServedEntries[s])
    BY <1>3 DEF TypeOK, EntryMap, ServedEntries
  <2>2. MergedEntries(ws, ServedEntries)[s]
          = [ServedEntries[s] EXCEPT !.live = ServedEntries[s].live]
    BY <1>1, <1>3 DEF MergedEntries, MergedLive
  <2>. QED  BY <2>1, <2>2, OwnLive
<1>. QED  BY <1>2, <1>3

(* The editor shows of a resort what a publish would ship of it.           *)
THEOREM EditorShows == Spec => []EditorShowsWhatPublishes
<1>1. ASSUME IInv PROVE EditorShowsWhatPublishes
  <2> SUFFICES ASSUME NEW s \in Slugs, NEW ws \in Readings,
                      Holding(s) = {s} \/ (Holding(s) = {} /\ files[s] = Absent)
               PROVE  IF s \in DOMAIN ServedEntries
                      THEN Detail(s) = MergedEntries(ws, ServedEntries)[s]
                      ELSE IF s \in DOMAIN MergedEntries(ws, ServedEntries)
                           THEN Detail(s) = [MergedEntries(ws, ServedEntries)[s]
                                                EXCEPT !.live = NoLive]
                           ELSE Detail(s) = Absent
    BY DEF EditorShowsWhatPublishes
  <2> DEFINE merged == MergedEntries(ws, ServedEntries)
  <2>1. TypeOK
    BY <1>1 DEF IInv
  <2>2. CASE Holding(s) = {s}
    <3>1. /\ s \in DOMAIN merged /\ merged[s] = files[s].entry
          /\ Entry(files[s].entry)
      <4>1. Entry(files[s].entry)
        BY <2>1, <2>2 DEF Holding, ParsedNames, TypeOK
      <4>. QED  BY <2>1, <2>2, <4>1, MergedHeld
    <3>2. /\ files[s] # Corrupt /\ ~Drifted(s) /\ Parsed(files[s])
      BY <2>2 DEF Holding, ParsedNames, Drifted, Parsed
    <3>3. s \in DOMAIN ServedEntries => Detail(s) = files[s].entry
      <4>1. s \in DOMAIN ServedEntries =>
              Detail(s) = [files[s].entry EXCEPT !.live = files[s].entry.live]
        BY <3>2 DEF Detail
      <4>. QED  BY <4>1, <3>1, OwnLive
    <3>4. s \notin DOMAIN ServedEntries =>
            Detail(s) = [files[s].entry EXCEPT !.live = NoLive]
      BY <3>2 DEF Detail
    <3>. QED  BY <3>1, <3>3, <3>4
  <2>3. CASE Holding(s) = {} /\ files[s] = Absent
    <3>1. /\ s \in DOMAIN merged <=> s \in DOMAIN ServedEntries
          /\ s \in DOMAIN ServedEntries => merged[s] = ServedEntries[s]
      BY <2>1, <2>3, MergedUnheld
    <3>2. Detail(s) = IF s \in DOMAIN ServedEntries THEN ServedEntries[s] ELSE Absent
      BY <2>3, FlowAssumption DEF Detail, Drifted, Parsed
    <3>. QED  BY <3>1, <3>2
  <2>. QED  BY <2>2, <2>3
<1>. QED  BY <1>1, Inductive, PTL

-----------------------------------------------------------------------------
(* What the health page counts.                                            *)
Lacking == {n \in ParsedNames : LacksProvenance(files[n].entry)}
ServedLacking == {s \in ServedOnly : LacksProvenance(ServedEntries[s])}
Ageing == {n \in ParsedNames : StaleFields(files[n].entry) # {}}
ServedAgeing == {s \in ServedOnly : StaleFields(ServedEntries[s]) # {}}

LEMMA HealthIs ==
    /\ Health.resorts_total =
          Cardinality({files[n].slug : n \in ParsedNames} \cup DOMAIN ServedEntries)
    /\ Health.resorts_with_stale_fields = Cardinality(Ageing) + Cardinality(ServedAgeing)
    /\ Health.resorts_with_missing_provenance = Cardinality(Lacking) + Cardinality(ServedLacking)
    /\ Health.resorts_with_corrupt_workspace = Cardinality({n \in Slugs : files[n] = Corrupt})
BY DEF Health, Lacking, ServedLacking, Ageing, ServedAgeing

LEMMA Counting ==
  ASSUME NEW S, IsFiniteSet(S)
  PROVE  Cardinality(S) \in Nat /\ (Cardinality(S) > 0 <=> S # {})
BY FS_CardinalityType, FS_EmptySet

LEMMA WithinSlugs ==
  ASSUME NEW S, S \subseteq Slugs
  PROVE  IsFiniteSet(S)
BY FS_Subset, FlowAssumption

LEMMA CountedAreSlugs ==
  ASSUME TypeOK
  PROVE  /\ {files[n].slug : n \in ParsedNames} \cup DOMAIN ServedEntries \subseteq Slugs
         /\ Lacking \subseteq Slugs /\ Ageing \subseteq Slugs
         /\ ServedLacking \subseteq Slugs /\ ServedAgeing \subseteq Slugs
         /\ {n \in Slugs : files[n] = Corrupt} \subseteq Slugs
BY DEF TypeOK, EntryMap, ParsedNames, ServedEntries, ServedOnly, Lacking, Ageing,
       ServedLacking, ServedAgeing

(* The dialog's blockers as what there is, no longer as counts.            *)
LEMMA BlockedIs ==
  ASSUME TypeOK
  PROVE  Blocked(Health) <=>
            \/ Lacking # {} \/ ServedLacking # {}
            \/ \E n \in Slugs : files[n] = Corrupt
            \/ {files[n].slug : n \in ParsedNames} \cup DOMAIN ServedEntries = {}
<1> DEFINE Total == {files[n].slug : n \in ParsedNames} \cup DOMAIN ServedEntries
           Bad == {n \in Slugs : files[n] = Corrupt}
<1>1. /\ IsFiniteSet(Lacking) /\ IsFiniteSet(ServedLacking)
      /\ IsFiniteSet(Total) /\ IsFiniteSet(Bad)
  BY CountedAreSlugs, WithinSlugs
<1>2. /\ Cardinality(Lacking) \in Nat /\ (Cardinality(Lacking) > 0 <=> Lacking # {})
      /\ Cardinality(ServedLacking) \in Nat
      /\ (Cardinality(ServedLacking) > 0 <=> ServedLacking # {})
      /\ Cardinality(Total) \in Nat /\ (Cardinality(Total) > 0 <=> Total # {})
      /\ Cardinality(Bad) \in Nat /\ (Cardinality(Bad) > 0 <=> Bad # {})
  BY <1>1, Counting
<1>3. Bad # {} <=> \E n \in Slugs : files[n] = Corrupt
  OBVIOUS
<1>4. Blocked(Health) <=>
        \/ Cardinality(Lacking) + Cardinality(ServedLacking) > 0
        \/ Cardinality(Bad) > 0 \/ Cardinality(Total) = 0
  BY HealthIs DEF Blocked
<1> HIDE DEF Total, Bad
<1>5. Blocked(Health) <=> Lacking # {} \/ ServedLacking # {} \/ Bad # {} \/ Total = {}
  BY <1>2, <1>4
<1>. QED  BY <1>3, <1>5 DEF Total

(* What one publish could read, and what it makes of it: of each resort a  *)
(* file's entry, or what is served of a resort in no file.                 *)
LEMMA ReadingIs ==
  ASSUME TypeOK, NEW ws \in Readings
  PROVE  /\ DOMAIN ws = {files[n].slug : n \in ParsedNames}
         /\ \A s \in DOMAIN ws :
              \E n \in ParsedNames : files[n].slug = s /\ ws[s] = files[n].entry
         /\ EntryMap(ws)
<1>1. DOMAIN ws = {s \in Slugs : Holding(s) # {}}
  BY DEF Readings
<1>2. \A n \in ParsedNames : files[n].slug \in Slugs /\ Entry(files[n].entry)
  BY DEF TypeOK, ParsedNames
<1>3. \A s \in Slugs : Holding(s) # {} <=> s \in {files[n].slug : n \in ParsedNames}
  BY DEF Holding
<1>4. DOMAIN ws = {files[n].slug : n \in ParsedNames}
  BY <1>1, <1>2, <1>3
<1>5. ASSUME NEW s \in DOMAIN ws
      PROVE  \E n \in ParsedNames : files[n].slug = s /\ ws[s] = files[n].entry
  <2>1. PICK n \in Holding(s) : ws[s] = files[n].entry
    BY <1>1, <1>5 DEF Readings
  <2>. QED  BY <2>1 DEF Holding
<1>6. EntryMap(ws)
  BY <1>1, <1>2, <1>5 DEF EntryMap
<1>. QED  BY <1>4, <1>5, <1>6

LEMMA MergedReading ==
  ASSUME TypeOK, NEW ws \in Readings
  PROVE  LET merged == MergedEntries(ws, ServedEntries)
         IN  /\ DOMAIN merged = {files[n].slug : n \in ParsedNames} \cup DOMAIN ServedEntries
             /\ DOMAIN merged = DOMAIN ws \cup ServedOnly
             /\ DOMAIN ws \cap ServedOnly = {}
             /\ \A s \in DOMAIN ws :
                  /\ merged[s] = ws[s]
                  /\ \E n \in ParsedNames : files[n].slug = s /\ merged[s] = files[n].entry
             /\ \A s \in ServedOnly : merged[s] = ServedEntries[s]
             /\ EntryMap(merged)
<1>1. EntryMap(ServedEntries)
  BY DEF TypeOK, ServedEntries
<1>2. /\ DOMAIN ws = {files[n].slug : n \in ParsedNames}
      /\ \A s \in DOMAIN ws :
           \E n \in ParsedNames : files[n].slug = s /\ ws[s] = files[n].entry
      /\ EntryMap(ws)
  BY ReadingIs
<1> DEFINE merged == MergedEntries(ws, ServedEntries)
<1>3. /\ DOMAIN merged = DOMAIN ws \cup DOMAIN ServedEntries
      /\ \A s \in DOMAIN ws : merged[s] = ws[s]
      /\ \A s \in DOMAIN ServedEntries \ DOMAIN ws : merged[s] = ServedEntries[s]
      /\ EntryMap(merged)
  <2>1. EntryMap(ws)
    BY <1>2
  <2>2. /\ DOMAIN merged = DOMAIN ws \cup DOMAIN ServedEntries
        /\ \A s \in DOMAIN ws : merged[s] = ws[s]
        /\ \A s \in DOMAIN ServedEntries \ DOMAIN ws : merged[s] = ServedEntries[s]
    BY <1>1, <2>1, MergedIs
  <2>3. EntryMap(merged)
    BY <1>1, <2>1, MergedMap
  <2>. QED  BY <2>2, <2>3
<1> HIDE DEF merged
<1>4. ServedOnly = DOMAIN ServedEntries \ DOMAIN ws
  BY <1>2 DEF ServedOnly
<1>5. /\ DOMAIN merged = {files[n].slug : n \in ParsedNames} \cup DOMAIN ServedEntries
      /\ DOMAIN merged = DOMAIN ws \cup ServedOnly
      /\ DOMAIN ws \cap ServedOnly = {}
  BY <1>2, <1>3, <1>4
<1>6. \A s \in DOMAIN ws :
        /\ merged[s] = ws[s]
        /\ \E n \in ParsedNames : files[n].slug = s /\ merged[s] = files[n].entry
  BY <1>2, <1>3
<1>7. \A s \in ServedOnly : merged[s] = ServedEntries[s]
  BY <1>3, <1>4
<1>. QED  BY <1>3, <1>5, <1>6, <1>7 DEF merged

(* If no resort is in two files, each file is read.                        *)
OneFileEach == \A s \in Slugs : Cardinality(Holding(s)) <= 1

LEMMA OneFile ==
  ASSUME TypeOK, OneFileEach, NEW ws \in Readings
  PROVE  /\ \A n, m \in ParsedNames : files[n].slug = files[m].slug => n = m
         /\ \A n \in ParsedNames : ws[files[n].slug] = files[n].entry
<1>1. ASSUME NEW n \in ParsedNames, NEW m \in ParsedNames, files[n].slug = files[m].slug
      PROVE  n = m
  <2> DEFINE s == files[n].slug
  <2>1. s \in Slugs /\ n \in Holding(s) /\ m \in Holding(s)
    BY <1>1 DEF TypeOK, ParsedNames, Holding
  <2>2. IsFiniteSet(Holding(s))
    BY WithinSlugs DEF Holding, ParsedNames
  <2>3. Cardinality(Holding(s)) = 1
    <3>1. Cardinality(Holding(s)) <= 1
      BY <2>1 DEF OneFileEach
    <3>2. Cardinality(Holding(s)) \in Nat /\ Cardinality(Holding(s)) > 0
      BY <2>1, <2>2, Counting
    <3>. QED  BY <3>1, <3>2
  <2>4. PICK x : Holding(s) = {x}
    BY <2>2, <2>3, FS_Singleton
  <2>. QED  BY <2>1, <2>4
<1>2. ASSUME NEW n \in ParsedNames
      PROVE  ws[files[n].slug] = files[n].entry
  <2>1. files[n].slug \in DOMAIN ws
    BY ReadingIs
  <2>2. PICK m \in ParsedNames : /\ files[m].slug = files[n].slug
                                 /\ ws[files[n].slug] = files[m].entry
    BY <2>1, ReadingIs
  <2>. QED  BY <1>1, <2>2
<1>. QED  BY <1>1, <1>2

(* The validator asks of each path what the health page asks of two sets.  *)
MissingIn(issues) == \E i \in issues : i[1] = "metric_field_missing_source"

LEMMA MissingSource ==
  ASSUME NEW e, Entry(e), NEW t
  PROVE  MissingIn(EntryIssues(e, t)) <=> LacksProvenance(e)
<1> DEFINE bare == {p \in DurablePaths \cup LivePaths : HasValue(e, p) /\ ~Attributed(e, p)}
<1>1. MissingIn(EntryIssues(e, t)) <=> bare # {}
  <2>1. ASSUME NEW p \in bare PROVE MissingIn(EntryIssues(e, t))
    <3>1. <<"metric_field_missing_source", p>> \in EntryIssues(e, t)
      BY DEF EntryIssues
    <3>. QED  BY <3>1 DEF MissingIn
  <2>2. ASSUME NEW i \in EntryIssues(e, t), i[1] = "metric_field_missing_source"
        PROVE  bare # {}
    BY <2>2 DEF EntryIssues
  <2>. QED  BY <2>1, <2>2 DEF MissingIn
<1>2. PopulatedLivePaths(e.live) \subseteq LivePaths
  BY DEF Entry, Signal, PopulatedLivePaths
<1>3. \A p \in DurablePaths :
        /\ HasValue(e, p)
        /\ Attributed(e, p) <=> p \in DOMAIN e.srcs
  BY DEF HasValue, Attributed, SourcesFor
<1>4. \A p \in LivePaths :
        /\ HasValue(e, p) <=> p \in PopulatedLivePaths(e.live)
        /\ Attributed(e, p) <=> p \in DOMAIN LiveSources(e.live)
  BY ViewsAssumption DEF HasValue, Attributed, SourcesFor
<1>5. bare # {} <=> LacksProvenance(e)
  BY <1>2, <1>3, <1>4 DEF LacksProvenance
<1>. QED  BY <1>1, <1>5

(* The issues of the merged dataset the gate is about, and where they are. *)
Refusals(ws) == {i \in Issues(MergedEntries(ws, ServedEntries), clock) :
                    i[1] \in {"metric_field_missing_source", "dataset_empty"}}

LEMMA RefusalsAre ==
  ASSUME TypeOK, NEW ws \in Readings
  PROVE  LET merged == MergedEntries(ws, ServedEntries)
         IN  Refusals(ws) # {} <=> \/ \E s \in DOMAIN merged : LacksProvenance(merged[s])
                                   \/ DOMAIN merged = {}
<1> DEFINE merged == MergedEntries(ws, ServedEntries)
<1>1. EntryMap(merged)
  BY MergedReading
<1>2. Refusals(ws) = {i \in Issues(merged, clock) :
                        i[1] \in {"metric_field_missing_source", "dataset_empty"}}
  BY DEF Refusals
<1> HIDE DEF merged
<1>3. \A s \in DOMAIN merged :
        MissingIn(EntryIssues(merged[s], clock)) <=> LacksProvenance(merged[s])
  <2> TAKE s \in DOMAIN merged
  <2>1. Entry(merged[s])
    BY <1>1 DEF EntryMap
  <2>. QED  BY <2>1, MissingSource
<1>4. \A s \in DOMAIN merged : \A i \in EntryIssues(merged[s], clock) : i[1] # "dataset_empty"
  BY DEF EntryIssues
<1>5. \A i : i \in Issues(merged, clock) <=>
        \/ \E s \in DOMAIN merged : i \in EntryIssues(merged[s], clock)
        \/ i = <<"dataset_empty">> /\ DOMAIN merged = {}
  BY DEF Issues
<1>6. <<"dataset_empty">>[1] = "dataset_empty"
  OBVIOUS
<1>7. Refusals(ws) # {} <=>
        \/ \E s \in DOMAIN merged : MissingIn(EntryIssues(merged[s], clock))
        \/ DOMAIN merged = {}
  BY <1>2, <1>4, <1>5, <1>6 DEF MissingIn
<1>8. Refusals(ws) # {} <=>
        \/ \E s \in DOMAIN merged : LacksProvenance(merged[s])
        \/ DOMAIN merged = {}
  BY <1>3, <1>7
<1>. QED  BY <1>8 DEF merged

(* health.ts against publish.ts and validatePublishedDataset.ts: the counts *)
(* that block the publish dialog and the publish itself agree about corrupt *)
(* files, missing sources and an empty dataset, whatever the files.         *)
THEOREM GateAgrees == Spec => []GateAgreesWithPublish
<1>1. ASSUME TypeOK PROVE GateAgreesWithPublish
  <2> DEFINE corrupt == \E n \in Slugs : files[n] = Corrupt
  <2>1. ASSUME NEW ws \in Readings
        PROVE  /\ Health.resorts_total = Cardinality(DOMAIN MergedEntries(ws, ServedEntries))
               /\ ~Blocked(Health) => ~corrupt /\ Refusals(ws) = {}
               /\ OneFileEach /\ Blocked(Health) => corrupt \/ Refusals(ws) # {}
    <3> DEFINE merged == MergedEntries(ws, ServedEntries)
    <3>1. /\ DOMAIN merged = {files[n].slug : n \in ParsedNames} \cup DOMAIN ServedEntries
          /\ DOMAIN merged = DOMAIN ws \cup ServedOnly
          /\ \A s \in DOMAIN ws :
               /\ merged[s] = ws[s]
               /\ \E n \in ParsedNames : files[n].slug = s /\ merged[s] = files[n].entry
          /\ \A s \in ServedOnly : merged[s] = ServedEntries[s]
      BY <1>1, MergedReading
    <3>2. Refusals(ws) # {} <=> \/ \E s \in DOMAIN merged : LacksProvenance(merged[s])
                                \/ DOMAIN merged = {}
      BY <1>1, RefusalsAre
    <3>3. Health.resorts_total = Cardinality(DOMAIN merged)
      BY <3>1, HealthIs
    <3> HIDE DEF merged
    <3>4. Blocked(Health) <=> \/ Lacking # {} \/ ServedLacking # {}
                              \/ corrupt \/ DOMAIN merged = {}
      BY <1>1, <3>1, BlockedIs
    <3>5. ASSUME NEW s \in DOMAIN merged, LacksProvenance(merged[s])
          PROVE  Lacking # {} \/ ServedLacking # {}
      BY <3>1, <3>5 DEF Lacking, ServedLacking
    <3>6. ASSUME OneFileEach, NEW n \in Lacking
          PROVE  \E s \in DOMAIN merged : LacksProvenance(merged[s])
      <4>1. n \in ParsedNames /\ LacksProvenance(files[n].entry)
        BY DEF Lacking
      <4>2. files[n].slug \in DOMAIN ws /\ ws[files[n].slug] = files[n].entry
        BY <1>1, <3>6, <4>1, OneFile, ReadingIs
      <4>. QED  BY <3>1, <4>1, <4>2
    <3>7. ASSUME NEW s \in ServedLacking
          PROVE  \E t \in DOMAIN merged : LacksProvenance(merged[t])
      BY <3>1 DEF ServedLacking
    <3> HIDE DEF corrupt
    <3>8. ~Blocked(Health) => ~corrupt /\ Refusals(ws) = {}
      BY <3>2, <3>4, <3>5
    <3>9. OneFileEach /\ Blocked(Health) => corrupt \/ Refusals(ws) # {}
      BY <3>2, <3>4, <3>6, <3>7
    <3>. QED  BY <3>3, <3>8, <3>9 DEF merged
  <2>. QED  BY <2>1 DEF GateAgreesWithPublish, Refusals, OneFileEach
<1>2. IInv => GateAgreesWithPublish
  BY <1>1 DEF IInv
<1>. QED  BY <1>2, Inductive, PTL
-----------------------------------------------------------------------------
(* Freshness.                                                              *)

(* A metric that has its source is shown by the loader and the projection  *)
(* alike, and counted if it is shown as stale.                             *)
LEMMA SameState ==
  ASSUME NEW e, Entry(e), ~LacksProvenance(e), NEW manual,
         NEW path \in DurablePaths \cup LivePaths, AgedBy[path] \notin manual
  PROVE  LoaderField(e, path) = ToFieldValue(ProjectField(e, manual, AgedBy[path]))
<1> DEFINE by == AgedBy[path]
<1>1. /\ by \in DurablePaths \cup LivePaths /\ by \notin manual
      /\ path \in DurablePaths <=> by \in DurablePaths
  BY ViewsAssumption
<1>2. CASE path \in DurablePaths
  <2>1. HasValue(e, by) /\ Attributed(e, by)
    BY <1>1, <1>2 DEF HasValue, Attributed, SourcesFor, LacksProvenance
  <2>2. ProjectField(e, manual, by) = "live"
    BY <1>1, <1>2, <2>1 DEF ProjectField
  <2>. QED  BY <1>2, <2>2 DEF LoaderField, ToFieldValue
<1>3. path \notin DurablePaths =>
        (path \in PopulatedLivePaths(e.live) <=> by \in PopulatedLivePaths(e.live))
  BY DEF Entry, Signal, PopulatedLivePaths
<1>4. CASE path \notin DurablePaths /\ path \notin PopulatedLivePaths(e.live)
  <2>1. ProjectField(e, manual, by) = "failed"
    BY <1>1, <1>3, <1>4 DEF ProjectField, HasValue
  <2>. QED  BY <1>4, <2>1 DEF LoaderField, ToFieldValue
<1>5. CASE path \notin DurablePaths /\ path \in PopulatedLivePaths(e.live)
  <2>1. /\ e.live # NoLive /\ SourcesFor(e, by) = e.live.srcs
        /\ HasValue(e, by) /\ Attributed(e, by)
    BY <1>1, <1>3, <1>5 DEF PopulatedLivePaths, SourcesFor, LiveSources, HasValue, Attributed,
                           LacksProvenance
  <2> DEFINE age == e.live.srcs[by]
             over == age > TTL_MAX_STALE
             old == age > TTL_DEFAULT
  <2>2. ProjectField(e, manual, by) =
          IF over THEN "failed" ELSE IF old THEN "stale" ELSE "live"
    BY <1>1, <1>5, <2>1 DEF ProjectField
  <2>3. LoaderField(e, path) =
          IF over THEN "never_fetched" ELSE IF old THEN "stale" ELSE "fresh"
    BY <1>5 DEF LoaderField
  <2> HIDE DEF over, old
  <2>. QED  BY <2>2, <2>3 DEF ToFieldValue
<1>. QED  BY <1>2, <1>4, <1>5

LEMMA StaleShown ==
  ASSUME NEW e, Entry(e), ~LacksProvenance(e)
  PROVE  StaleFields(e) = {p \in DurablePaths \cup LivePaths : ProjectField(e, {}, p) = "stale"}
<1> DEFINE populated == PopulatedLivePaths(e.live)
           own == LiveSources(e.live)
<1>1. /\ populated \subseteq LivePaths /\ populated \subseteq DOMAIN own
      /\ \A p \in DOMAIN own : own[p] \in Int
  BY DEF Entry, Signal, PopulatedLivePaths, LiveSources, LacksProvenance
<1>2. StaleFields(e) = {p \in populated : TTL_DEFAULT < own[p] /\ own[p] <= TTL_MAX_STALE}
  BY <1>1 DEF StaleFields
<1>3. ASSUME NEW p \in DurablePaths \cup LivePaths
      PROVE  ProjectField(e, {}, p) = "stale" <=>
                p \in populated /\ TTL_DEFAULT < own[p] /\ own[p] <= TTL_MAX_STALE
  <2>1. CASE p \in DurablePaths
    <3>1. p \notin populated
      BY <1>1, <2>1, ViewsAssumption
    <3>2. ProjectField(e, {}, p) # "stale"
      BY <2>1 DEF ProjectField
    <3>. QED  BY <3>1, <3>2
  <2>2. CASE p \notin DurablePaths /\ p \notin populated
    <3>1. ProjectField(e, {}, p) # "stale"
      BY <2>2 DEF ProjectField, HasValue
    <3>. QED  BY <2>2, <3>1
  <2>3. CASE p \notin DurablePaths /\ p \in populated
    <3>1. SourcesFor(e, p) = own /\ HasValue(e, p) /\ Attributed(e, p)
      BY <1>1, <2>3 DEF SourcesFor, HasValue, Attributed
    <3>2. ProjectField(e, {}, p) = IF own[p] > TTL_MAX_STALE THEN "failed"
                                   ELSE IF own[p] > TTL_DEFAULT THEN "stale" ELSE "live"
      BY <2>3, <3>1 DEF ProjectField
    <3>3. own[p] \in Int
      BY <1>1, <2>3
    <3> HIDE DEF own, populated
    <3>. QED  BY <2>3, <3>2, <3>3, ViewsAssumption
  <2>. QED  BY <2>1, <2>2, <2>3
<1>4. populated \subseteq DurablePaths \cup LivePaths
  BY <1>1
<1> HIDE DEF populated, own
<1>. QED  BY <1>2, <1>3, <1>4

LEMMA StaleCounts ==
  ASSUME NEW e, Entry(e)
  PROVE  Cardinality(StaleFields(e)) > 0 <=> StaleFields(e) # {}
<1>1. StaleFields(e) \subseteq LivePaths
  BY DEF Entry, Signal, PopulatedLivePaths, StaleFields
<1>2. IsFiniteSet(StaleFields(e))
  BY <1>1, FS_Subset, FlowAssumption
<1>. QED  BY <1>2, Counting

(* A reading maps the files of ageing resorts one to one to their slugs.   *)
LEMMA AgeingCounted ==
  ASSUME TypeOK, OneFileEach, NEW ws \in Readings
  PROVE  LET merged == MergedEntries(ws, ServedEntries)
         IN  Cardinality(Ageing) + Cardinality(ServedAgeing)
               = Cardinality({s \in DOMAIN merged : StaleFields(merged[s]) # {}})
<1> DEFINE merged == MergedEntries(ws, ServedEntries)
           Held == {s \in DOMAIN ws : StaleFields(ws[s]) # {}}
           slugOf == [n \in Ageing |-> files[n].slug]
<1>1. /\ DOMAIN merged = DOMAIN ws \cup ServedOnly
      /\ DOMAIN ws \cap ServedOnly = {}
      /\ \A s \in DOMAIN ws : merged[s] = ws[s]
      /\ \A s \in ServedOnly : merged[s] = ServedEntries[s]
  BY MergedReading
<1>2. DOMAIN ws \subseteq Slugs /\ DOMAIN ws = {files[n].slug : n \in ParsedNames}
  BY ReadingIs DEF EntryMap
<1> HIDE DEF merged
<1>3. {s \in DOMAIN merged : StaleFields(merged[s]) # {}} = Held \cup ServedAgeing
  BY <1>1 DEF ServedAgeing
<1>4. Held \cap ServedAgeing = {}
  BY <1>1 DEF ServedAgeing
<1>5. IsFiniteSet(Ageing) /\ IsFiniteSet(Held) /\ IsFiniteSet(ServedAgeing)
  <2>1. Held \subseteq Slugs
    BY <1>2
  <2>. QED  BY <2>1, CountedAreSlugs, WithinSlugs
<1>6. Cardinality(Held) = Cardinality(Ageing)
  <2>1. \A n \in Ageing : /\ n \in ParsedNames /\ StaleFields(files[n].entry) # {}
                          /\ ws[files[n].slug] = files[n].entry
                          /\ files[n].slug \in DOMAIN ws
    BY <1>2, OneFile DEF Ageing
  <2>2. slugOf \in [Ageing -> Held]
    BY <2>1
  <2>3. \A n, m \in Ageing : slugOf[n] = slugOf[m] => n = m
    BY <2>1, OneFile
  <2>4. ASSUME NEW s \in Held PROVE \E n \in Ageing : slugOf[n] = s
    <3>1. PICK n \in ParsedNames : files[n].slug = s /\ ws[s] = files[n].entry
      BY ReadingIs
    <3>2. n \in Ageing
      BY <3>1 DEF Ageing
    <3>. QED  BY <3>1, <3>2
  <2> HIDE DEF Held, slugOf
  <2>5. slugOf \in Bijection(Ageing, Held)
    BY <2>2, <2>3, <2>4 DEF Bijection, Injection, Surjection, IsInjective
  <2>6. ExistsBijection(Ageing, Held)
    BY <2>5 DEF ExistsBijection
  <2>. QED  BY <1>5, <2>6, FS_Bijection
<1> HIDE DEF Held
<1>7. Cardinality(Held \cup ServedAgeing) = Cardinality(Held) + Cardinality(ServedAgeing)
  <2>1. Cardinality(Held \cup ServedAgeing)
          = Cardinality(Held) + Cardinality(ServedAgeing) - Cardinality(Held \cap ServedAgeing)
    BY <1>5, FS_Union
  <2>2. Cardinality(Held \cap ServedAgeing) = 0
    BY <1>4, FS_EmptySet
  <2>3. Cardinality(Held) \in Nat /\ Cardinality(ServedAgeing) \in Nat
    BY <1>5, FS_CardinalityType
  <2>. QED  BY <2>1, <2>2, <2>3
<1>. QED  BY <1>3, <1>6, <1>7 DEF merged

(* Whatever the files and the ages of their sources, resortView.ts,        *)
(* listResorts.ts and health.ts decide alike which metrics are fresh, and  *)
(* loadResortDatasetFromObject.ts gives each metric the state of the path  *)
(* whose source it looks at.                                               *)
THEOREM FreshnessAgreed == Spec => []FreshnessAgrees
<1> DEFINE paths == DurablePaths \cup LivePaths
<1>1. ASSUME TypeOK, NEW ws \in Readings
      PROVE  LET merged == MergedEntries(ws, ServedEntries)
                 listed == Summaries(ws)
             IN  /\ \A s \in {t \in DOMAIN merged : ~LacksProvenance(merged[t])} :
                     /\ \A path \in paths :
                           LoaderField(merged[s], path)
                             = ToFieldValue(ProjectField(merged[s], {}, AgedBy[path]))
                     /\ listed[s] = Cardinality({p \in paths :
                                       ProjectField(merged[s], {}, p) = "stale"})
                 /\ OneFileEach =>
                      Health.resorts_with_stale_fields =
                         Cardinality({s \in DOMAIN listed : listed[s] > 0})
  <2> DEFINE merged == MergedEntries(ws, ServedEntries)
             listed == Summaries(ws)
  <2>1. /\ DOMAIN merged = DOMAIN ws \cup ServedOnly
        /\ DOMAIN ws \cap ServedOnly = {}
        /\ \A s \in DOMAIN ws : merged[s] = ws[s]
        /\ \A s \in ServedOnly : merged[s] = ServedEntries[s]
        /\ \A s \in DOMAIN merged : Entry(merged[s])
    BY <1>1, MergedReading DEF EntryMap
  <2>2. DOMAIN merged = DOMAIN ws \cup DOMAIN ServedEntries
    BY <1>1, MergedReading, ReadingIs
  <2> HIDE DEF merged
  <2>3. /\ DOMAIN listed = DOMAIN merged
        /\ \A s \in DOMAIN merged : listed[s] = Cardinality(StaleFields(merged[s]))
    <3>1. DOMAIN listed = DOMAIN ws \cup DOMAIN ServedEntries
      BY DEF Summaries
    <3>2. \A s \in DOMAIN ws : listed[s] = Cardinality(StaleFields(ws[s]))
      BY DEF Summaries
    <3>3. \A s \in ServedOnly : listed[s] = Cardinality(StaleFields(ServedEntries[s]))
      BY <2>1 DEF Summaries, ServedOnly
    <3>. QED  BY <2>1, <2>2, <3>1, <3>2, <3>3
  <2> HIDE DEF listed
  <2>4. ASSUME NEW s \in DOMAIN merged, ~LacksProvenance(merged[s])
        PROVE  /\ \A path \in paths :
                     LoaderField(merged[s], path)
                       = ToFieldValue(ProjectField(merged[s], {}, AgedBy[path]))
               /\ listed[s] = Cardinality({p \in paths :
                                 ProjectField(merged[s], {}, p) = "stale"})
    <3>1. Entry(merged[s])
      BY <2>1
    <3>2. \A path \in paths :
            LoaderField(merged[s], path)
              = ToFieldValue(ProjectField(merged[s], {}, AgedBy[path]))
      BY <2>4, <3>1, SameState
    <3>3. StaleFields(merged[s]) = {p \in paths : ProjectField(merged[s], {}, p) = "stale"}
      BY <2>4, <3>1, StaleShown
    <3>. QED  BY <2>3, <3>2, <3>3
  <2>5. ASSUME OneFileEach
        PROVE  Health.resorts_with_stale_fields
                 = Cardinality({s \in DOMAIN listed : listed[s] > 0})
    <3>1. {s \in DOMAIN listed : listed[s] > 0}
            = {s \in DOMAIN merged : StaleFields(merged[s]) # {}}
      BY <2>1, <2>3, StaleCounts
    <3>2. Cardinality(Ageing) + Cardinality(ServedAgeing)
            = Cardinality({s \in DOMAIN merged : StaleFields(merged[s]) # {}})
      BY <1>1, <2>5, AgeingCounted DEF merged
    <3>. QED  BY <3>1, <3>2, HealthIs
  <2>. QED  BY <2>4, <2>5 DEF merged, listed
<1>2. IInv => FreshnessAgrees
  BY <1>1 DEF IInv, FreshnessAgrees, OneFileEach
<1>. QED  BY <1>2, Inductive, PTL
=============================================================================
