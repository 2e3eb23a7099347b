----------------------- MODULE WorkspaceServer_proofs -----------------------
(***************************************************************************)
(* Proofs about WorkspaceServer.  The inductive invariant has two halves.  *)
(* Order says what the promise chain of a resort looks like: the map holds *)
(* the latest request, each queued request chained on the one that asked   *)
(* just before it, and whoever started has only finished ones before it.   *)
(* So at most one handler of a resort is inside, and Fresh follows: what a *)
(* handler read is still what the disk holds when it writes (of            *)
(* current.v1.json only while there is no workspace file, the only time it *)
(* matters).                                                               *)
(***************************************************************************)
EXTENDS WorkspaceServer, TLAPS

Sent(r) == phase[r] # "unsent"
Before(q, r) == Sent(q) /\ slug[q] = slug[r] /\ arrival[q] < arrival[r]
Started(r) == phase[r] \in {"reading", "writing", "settled", "done"}

Requested ==
    \A r \in Requests :
        /\ ~Sent(r) => slug[r] = NoSlug /\ reply[r] = "none"
        /\ Sent(r) => slug[r] \in Slugs /\ body[r] \in Bodies /\ arrival[r] <= clock

Distinct == \A r, q \in Requests :
               Sent(r) /\ Sent(q) /\ arrival[r] = arrival[q] => r = q

(* What a queued request chained on.                                       *)
Chained ==
    \A r \in Requests : phase[r] = "queued" =>
        /\ prev[r] = NoRequest =>
              \A q \in Requests : Before(q, r) => Settled(q)
        /\ prev[r] # NoRequest =>
              /\ Before(prev[r], r)
              /\ phase[prev[r]] # "lost"
              /\ \A q \in Requests : Before(q, r) => arrival[q] <= arrival[prev[r]]

InOrder ==
    \A r, q \in Requests : Started(r) /\ Before(q, r) => Settled(q)

(* The map holds the latest request of each resort that is not finished.   *)
LatestHeld ==
    \A s \in Slugs :
        /\ slugLocks[s] = NoRequest =>
              \A q \in Requests : Sent(q) /\ slug[q] = s => Settled(q)
        /\ slugLocks[s] # NoRequest =>
              /\ slug[slugLocks[s]] = s
              /\ phase[slugLocks[s]] \notin {"unsent", "done", "lost"}
              /\ \A q \in Requests :
                    Sent(q) /\ slug[q] = s => arrival[q] <= arrival[slugLocks[s]]

Order == Requested /\ Distinct /\ Chained /\ InOrder /\ LatestHeld

Undecided(r) == phase[r] \in {"queued", "reading", "writing"}

Fresh ==
    \A r \in Requests :
        /\ ~Inside(r) => seenFile[r] = Unread /\ seenPublished[r] = Unread
        /\ seenFile[r] # Unread => seenFile[r] = file[slug[r]]
        /\ seenPublished[r] # Unread /\ file[slug[r]] = NoFile =>
              seenPublished[r] = published[slug[r]]
        /\ phase[r] = "writing" =>
              /\ seenFile[r] # Unread /\ seenPublished[r] # Unread
              /\ Writes(seenFile[r], seenPublished[r], body[r])
        /\ Undecided(r) => reply[r] = "none"
        /\ reply[r] = "none" => ~Sent(r) \/ Undecided(r)

Composed == \A s \in Slugs : composed[s] # NotPublished => file[s] \in File

IInv == TypeOK /\ Order /\ Fresh /\ Composed
-----------------------------------------------------------------------------
(* Facts about the merge operators.                                        *)

(* A merged resort is a resort again.                                      *)
LEMMA MergeContentType ==
    ASSUME NEW c \in Content, NEW b \in ResortBody
    PROVE  MergeContent(c, b) \in Content
<1>1. b.vals \in Partial(Values) /\ b.srcs \in Partial(Hashes)
  BY DEF ResortBody
<1>2. PICK D \in SUBSET Fields : b.vals \in [D -> Values]
  BY <1>1 DEF Partial
<1>3. PICK E \in SUBSET Fields : b.srcs \in [E -> Hashes]
  BY <1>1 DEF Partial
<1>4. /\ c.vals \in [Fields -> Values \cup {Absent}]
      /\ c.srcs \in [Fields -> Hashes \cup {NoHash}]
      /\ c.live \in BOOLEAN
  BY DEF Content
<1>5. MergeContent(c, b).vals \in [Fields -> Values \cup {Absent}]
  BY <1>2, <1>4 DEF MergeContent
<1>6. MergeContent(c, b).srcs \in [Fields -> Hashes \cup {NoHash}]
  BY <1>3, <1>4 DEF MergeContent
<1>7. MergeContent(c, b).live \in BOOLEAN
  BY <1>4 DEF MergeContent
<1> QED
  BY <1>5, <1>6, <1>7 DEF MergeContent, Content

(* The file an accepted body leaves is a workspace file.                   *)
LEMMA WrittenType ==
    ASSUME NEW f \in File \cup {NoFile, Corrupt},
           NEW p \in Content \cup {NotPublished},
           NEW b \in Bodies,
           Writes(f, p, b)
    PROVE  Written(f, p, b) \in File
<1>1. f # Corrupt /\ (f = NoFile => p # NotPublished)
  BY StatesAssumption DEF Writes, Verdict
<1>2. Base(f, p) \in File
  BY <1>1, AbsenceAssumption DEF Base, File, Notes
<1>3. Written(f, p, b) = Patched(Base(f, p), b)
  BY DEF Written
<1>4. CASE b.kind = "resort"
  <2>1. b \in ResortBody
    BY <1>4, BodiesAssumption DEF NoteBody
  <2>2. MergeContent(Base(f, p).content, b) \in Content
    BY <1>2, <2>1, MergeContentType DEF File
  <2> QED
    BY <1>2, <1>3, <1>4, <2>2 DEF Patched, File
<1>5. CASE b.kind # "resort"
  <2>1. b \in NoteBody
    BY <1>5, BodiesAssumption DEF ResortBody
  <2> QED
    BY <1>2, <1>3, <1>5, <2>1 DEF Patched, File, Notes, NoteBody
<1> QED
  BY <1>4, <1>5

(* current.v1.json matters only while there is no workspace file.          *)
LEMMA PublishedMatters ==
    ASSUME NEW f, NEW p, NEW q, NEW b, f = NoFile => p = q
    PROVE  /\ Verdict(f, p, b) = Verdict(f, q, b)
           /\ Writes(f, p, b) = Writes(f, q, b)
           /\ Written(f, p, b) = Written(f, q, b)
<1>1. Base(f, p) = Base(f, q)
  BY DEF Base
<1>2. Verdict(f, p, b) = Verdict(f, q, b)
  BY <1>1 DEF Verdict
<1> QED
  BY <1>1, <1>2 DEF Writes, Written

(* A verdict is one of the five.                                           *)
LEMMA VerdictType ==
    ASSUME NEW f, NEW p, NEW b
    PROVE  Verdict(f, p, b) \in Verdicts
BY DEF Verdict, ResortVerdict, Verdicts
-----------------------------------------------------------------------------
(* The promise chain.                                                      *)

LEMMA OrderArrive ==
    ASSUME TypeOK, Order, NEW r \in Requests, NEW s \in Slugs, NEW b \in Bodies,
           Arrive(r, s, b)
    PROVE  Order'
<1> USE DEF Order, Arrive, Sent, Before, Settled, Started, TypeOK
<1>1. Requested'
  BY NonesAssumption DEF Requested
<1>2. Distinct'
  BY DEF Distinct, Requested
<1>3. Chained'
  <2> SUFFICES ASSUME NEW q \in Requests, phase'[q] = "queued"
               PROVE  /\ prev'[q] = NoRequest =>
                            \A t \in Requests : Before(t, q)' => Settled(t)'
                      /\ prev'[q] # NoRequest =>
                            /\ Before(prev[q], q)'
                            /\ phase'[prev'[q]] # "lost"
                            /\ \A t \in Requests :
                                  Before(t, q)' => arrival'[t] <= arrival'[prev'[q]]
    BY DEF Chained
  <2>1. CASE q = r
    BY <2>1, NonesAssumption DEF LatestHeld, Requested
  <2>2. CASE q # r
    BY <2>2, NonesAssumption DEF Chained, Requested
  <2> QED
    BY <2>1, <2>2
<1>4. InOrder'
  BY DEF InOrder, Requested
<1>5. LatestHeld'
  BY NonesAssumption DEF LatestHeld, Requested
<1> QED
  BY <1>1, <1>2, <1>3, <1>4, <1>5

LEMMA OrderStart ==
    ASSUME TypeOK, Order, NEW r \in Requests, Start(r)
    PROVE  Order'
<1> USE DEF Order, Start, asked, Sent, Before, Settled, Started, TypeOK
<1>1. Requested' /\ Distinct'
  BY DEF Requested, Distinct, disk
<1>2. Chained'
  BY DEF Chained
<1>3. InOrder'
  <2> SUFFICES ASSUME NEW q \in Requests, Before(q, r)
               PROVE  Settled(q)
    BY DEF InOrder
  <2>1. CASE prev[r] = NoRequest
    BY <2>1 DEF Chained
  <2>2. CASE prev[r] # NoRequest
    <3>1. Started(prev[r]) /\ slug[prev[r]] = slug[r] /\ arrival[q] <= arrival[prev[r]]
      BY <2>2 DEF Chained
    <3>2. CASE q = prev[r]
      BY <2>2, <3>2
    <3>3. CASE q # prev[r]
      <4>1. prev[r] \in Requests /\ Sent(prev[r])
        BY <2>2, <3>1
      <4>2. arrival[q] # arrival[prev[r]]
        BY <3>3, <4>1 DEF Distinct
      <4>3. Before(q, prev[r])
        BY <3>1, <4>1, <4>2
      <4> QED
        BY <3>1, <4>1, <4>3 DEF InOrder
    <3> QED
      BY <3>2, <3>3
  <2> QED
    BY <2>1, <2>2
<1>4. LatestHeld'
  BY DEF LatestHeld
<1> QED
  BY <1>1, <1>2, <1>3, <1>4

(* A handler that is running goes on or settles.                           *)
LEMMA OrderMove ==
    ASSUME TypeOK, Order, NEW r \in Requests, NEW to \in {"writing", "settled"},
           Inside(r), phase' = [phase EXCEPT ![r] = to],
           UNCHANGED <<asked, slugLocks>>,
           \A q \in Requests : q # r => reply'[q] = reply[q]
    PROVE  Order'
<1> USE DEF Order, asked, Sent, Before, Settled, Started, Inside, TypeOK
<1>1. Requested' /\ Distinct'
  BY DEF Requested, Distinct
<1>2. Chained'
  BY DEF Chained
<1>3. InOrder'
  BY DEF InOrder
<1>4. LatestHeld'
  BY DEF LatestHeld
<1> QED
  BY <1>1, <1>2, <1>3, <1>4

LEMMA OrderCleanup ==
    ASSUME TypeOK, Order, NEW r \in Requests, Cleanup(r)
    PROVE  Order'
<1> USE DEF Order, Cleanup, asked, Sent, Before, Settled, Started, TypeOK
<1>1. Requested' /\ Distinct'
  BY DEF Requested, Distinct
<1>2. Chained'
  BY DEF Chained
<1>3. InOrder'
  BY DEF InOrder
<1>4. LatestHeld'
  <2>1. slug[r] \in Slugs
    BY DEF Requested
  <2>2. CASE slugLocks[slug[r]] = r
    <3>1. ASSUME NEW q \in Requests, Sent(q), slug[q] = slug[r]
          PROVE  Settled(q)
      <4>1. arrival[q] <= arrival[r]
        BY <2>1, <2>2, <3>1, NonesAssumption DEF LatestHeld
      <4>2. CASE arrival[q] = arrival[r]
        <5>1. q = r
          BY <3>1, <4>2 DEF Distinct
        <5> QED
          BY <5>1
      <4>3. CASE arrival[q] # arrival[r]
        <5>0. arrival[q] \in Nat /\ arrival[r] \in Nat
          BY <3>1
        <5>1. arrival[q] < arrival[r]
          BY ONLY <5>0, <4>1, <4>3
        <5>2. Started(r)
          OBVIOUS
        <5>3. Before(q, r)
          BY <3>1, <5>1
        <5> QED
          BY <5>2, <5>3 DEF InOrder
      <4> QED
        BY <4>2, <4>3
    <3> QED
      BY <2>1, <2>2, <3>1 DEF LatestHeld
  <2>3. CASE slugLocks[slug[r]] # r
    BY <2>1, <2>3 DEF LatestHeld
  <2> QED
    BY <2>2, <2>3
<1> QED
  BY <1>1, <1>2, <1>3, <1>4

LEMMA OrderRestart ==
    ASSUME TypeOK, Order, Restart
    PROVE  Order'
<1> USE DEF Order, Restart, asked, Sent, Before, Settled, Started, TypeOK
<1>1. Requested' /\ Distinct'
  BY DEF Requested, Distinct
<1>2. Chained'
  BY DEF Chained
<1>3. InOrder'
  BY DEF InOrder
<1>4. LatestHeld'
  BY DEF LatestHeld, Phases
<1> QED
  BY <1>1, <1>2, <1>3, <1>4

LEMMA OrderSame ==
    ASSUME Order, UNCHANGED <<asked, phase, slugLocks, reply>>
    PROVE  Order'
BY DEF Order, asked, Requested, Distinct, Chained, InOrder, LatestHeld, Sent, Before,
       Settled, Started

(* At most one handler of a resort is between its read and its write.      *)
LEMMA Alone ==
    ASSUME Order, TypeOK, NEW r \in Requests, NEW q \in Requests,
           Inside(r), Inside(q), slug[r] = slug[q]
    PROVE  r = q
<1>1. arrival[r] \in Int /\ arrival[q] \in Int
  BY DEF TypeOK
<1>2. Sent(r) /\ Sent(q) /\ Started(r) /\ Started(q) /\ ~Settled(r) /\ ~Settled(q)
  BY DEF Inside, Sent, Started, Settled
<1>3. CASE arrival[r] = arrival[q]
  BY <1>2, <1>3 DEF Order, Distinct
<1>4. CASE arrival[q] < arrival[r]
  BY <1>2, <1>4 DEF Order, InOrder, Before
<1>5. CASE arrival[r] < arrival[q]
  BY <1>2, <1>5 DEF Order, InOrder, Before
<1> QED
  BY <1>1, <1>3, <1>4, <1>5
-----------------------------------------------------------------------------
(* The disk.                                                               *)

(* What a handler decided from its two reads is what it would decide now.  *)
LEMMA StillCurrent ==
    ASSUME IInv, NEW r \in Requests, Inside(r),
           seenFile[r] # Unread, seenPublished[r] # Unread
    PROVE  /\ slug[r] \in Slugs /\ body[r] \in Bodies /\ reply[r] = "none"
           /\ seenFile[r] \in File \cup {NoFile}
           /\ seenPublished[r] \in Content \cup {NotPublished}
           /\ Verdict(seenFile[r], seenPublished[r], body[r])
                = Verdict(file[slug[r]], published[slug[r]], body[r])
           /\ Writes(seenFile[r], seenPublished[r], body[r])
                = Writes(file[slug[r]], published[slug[r]], body[r])
           /\ Written(seenFile[r], seenPublished[r], body[r])
                = Written(file[slug[r]], published[slug[r]], body[r])
<1>1. slug[r] \in Slugs /\ body[r] \in Bodies
  BY DEF IInv, Order, Requested, Sent, Inside
<1>2. reply[r] = "none"
  BY DEF IInv, Fresh, Inside, Undecided
<1>3. /\ seenFile[r] = file[slug[r]]
      /\ file[slug[r]] = NoFile => seenPublished[r] = published[slug[r]]
  BY DEF IInv, Fresh
<1>4. /\ seenFile[r] \in File \cup {NoFile}
      /\ seenPublished[r] \in Content \cup {NotPublished}
  BY DEF IInv, TypeOK
<1> QED
  BY <1>1, <1>2, <1>3, <1>4, PublishedMatters

LEMMA CandidateType ==
    ASSUME IInv, NEW r \in Requests, phase[r] = "writing"
    PROVE  /\ Candidate(r) \in File
           /\ Candidate(r) = Written(file[slug[r]], published[slug[r]], body[r])
           /\ Writes(file[slug[r]], published[slug[r]], body[r])
           /\ slug[r] \in Slugs
<1>1. /\ Inside(r) /\ seenFile[r] # Unread /\ seenPublished[r] # Unread
      /\ Writes(seenFile[r], seenPublished[r], body[r])
  BY DEF IInv, Fresh, Inside
<1> QED
  BY <1>1, StillCurrent, WrittenType DEF Candidate

(* What a restart leaves of a resort's file.                               *)
LEMMA RestartLeaves ==
    ASSUME IInv, Restart
    PROVE  /\ file' \in [Slugs -> File \cup {NoFile, Corrupt}]
           /\ \A s \in Slugs :
                 \/ file'[s] = file[s]
                 \/ \E r \in Requests :
                       phase[r] = "writing" /\ slug[r] = s /\ file'[s] = Candidate(r)
<1>1. PICK left \in [Slugs -> UNION {Landing(s) : s \in Slugs}] :
         (\A s \in Slugs : left[s] \in Landing(s)) /\ file' = left
  BY DEF Restart
<1>2. \A s \in Slugs :
         \/ file'[s] = file[s]
         \/ \E r \in Requests :
               phase[r] = "writing" /\ slug[r] = s /\ file'[s] = Candidate(r)
  BY <1>1 DEF Landing
<1>3. \A s \in Slugs : file'[s] \in File \cup {NoFile, Corrupt}
  BY <1>2, CandidateType DEF IInv, TypeOK
<1> QED
  BY <1>1, <1>2, <1>3

LEMMA TypeStep ==
    ASSUME IInv, [Next]_vars
    PROVE  TypeOK'
<1> USE DEF IInv, TypeOK, disk, asked, Phases
<1>1. ASSUME NEW r \in Requests, NEW s \in Slugs, NEW b \in Bodies, Arrive(r, s, b)
      PROVE  TypeOK'
  BY <1>1 DEF Arrive
<1>2. ASSUME NEW r \in Requests, Start(r)
      PROVE  TypeOK'
  BY <1>2 DEF Start
<1>3. ASSUME NEW r \in Requests, ReadWorkspaceFile(r)
      PROVE  TypeOK'
  <2>1. slug[r] \in Slugs
    BY <1>3 DEF ReadWorkspaceFile, Order, Requested, Sent
  <2> QED
    BY <1>3, <2>1 DEF ReadWorkspaceFile
<1>4. ASSUME NEW r \in Requests, ReadCorruptFile(r)
      PROVE  TypeOK'
  BY <1>4 DEF ReadCorruptFile, Settle, Verdicts
<1>5. ASSUME NEW r \in Requests, ReadPublished(r)
      PROVE  TypeOK'
  <2>1. slug[r] \in Slugs
    BY <1>5 DEF ReadPublished, Order, Requested, Sent
  <2> QED
    BY <1>5, <2>1 DEF ReadPublished
<1>6. ASSUME NEW r \in Requests, Decide(r)
      PROVE  TypeOK'
  BY <1>6, VerdictType DEF Decide, Settle
<1>7. ASSUME NEW r \in Requests, Write(r)
      PROVE  TypeOK'
  <2>1. Candidate(r) \in File /\ slug[r] \in Slugs
    BY <1>7, CandidateType DEF Write
  <2> QED
    BY <1>7, <2>1 DEF Write, Settle, Verdicts
<1>8. ASSUME NEW r \in Requests, WriteFails(r)
      PROVE  TypeOK'
  <2>1. Candidate(r) \in File /\ slug[r] \in Slugs
    BY <1>8, CandidateType DEF WriteFails
  <2> QED
    BY <1>8, <2>1 DEF WriteFails, Settle
<1>9. ASSUME NEW r \in Requests, Cleanup(r)
      PROVE  TypeOK'
  BY <1>9 DEF Cleanup
<1>10. CASE Restart
  <2>1. file' \in [Slugs -> File \cup {NoFile, Corrupt}]
    BY <1>10, RestartLeaves
  <2> QED
    BY <1>10, <2>1 DEF Restart
<1>11. ASSUME NEW s \in Slugs, ComposePublish(s)
       PROVE  TypeOK'
  <2>1. file[s].content \in Content
    BY <1>11 DEF ComposePublish, File
  <2> QED
    BY <1>11, <2>1 DEF ComposePublish
<1>12. ASSUME NEW s \in Slugs, FinishPublish(s)
       PROVE  TypeOK'
  BY <1>12 DEF FinishPublish
<1>13. CASE UNCHANGED vars
  BY <1>13 DEF vars
<1> QED
  BY <1>1, <1>2, <1>3, <1>4, <1>5, <1>6, <1>7, <1>8, <1>9, <1>10, <1>11, <1>12,
     <1>13 DEF Next, Step

LEMMA OrderStep ==
    ASSUME IInv, [Next]_vars
    PROVE  Order'
<1> USE DEF IInv
<1>1. ASSUME NEW r \in Requests, NEW s \in Slugs, NEW b \in Bodies, Arrive(r, s, b)
      PROVE  Order'
  BY <1>1, OrderArrive
<1>2. ASSUME NEW r \in Requests, Start(r)
      PROVE  Order'
  BY <1>2, OrderStart
<1>3. ASSUME NEW r \in Requests,
             ReadCorruptFile(r) \/ Decide(r) \/ Write(r) \/ WriteFails(r)
      PROVE  Order'
  <2>1. \E to \in {"writing", "settled"} : phase' = [phase EXCEPT ![r] = to]
    BY <1>3 DEF ReadCorruptFile, Decide, Write, WriteFails, Settle
  <2>2. Inside(r) /\ UNCHANGED <<asked, slugLocks>>
    BY <1>3 DEF ReadCorruptFile, Decide, Write, WriteFails, Inside
  <2>3. \A q \in Requests : q # r => reply'[q] = reply[q]
    BY <1>3 DEF ReadCorruptFile, Decide, Write, WriteFails, Settle, TypeOK
  <2> QED
    BY <2>1, <2>2, <2>3, OrderMove
<1>4. ASSUME NEW r \in Requests, ReadWorkspaceFile(r) \/ ReadPublished(r)
      PROVE  Order'
  BY <1>4, OrderSame DEF ReadWorkspaceFile, ReadPublished
<1>5. ASSUME NEW r \in Requests, Cleanup(r)
      PROVE  Order'
  BY <1>5, OrderCleanup
<1>6. CASE Restart
  BY <1>6, OrderRestart
<1>7. ASSUME NEW s \in Slugs, ComposePublish(s) \/ FinishPublish(s)
      PROVE  Order'
  BY <1>7, OrderSame DEF ComposePublish, FinishPublish
<1>8. CASE UNCHANGED vars
  BY <1>8, OrderSame DEF vars
<1> QED
  BY <1>1, <1>2, <1>3, <1>4, <1>5, <1>6, <1>7, <1>8 DEF Next, Step

(* A write of one handler leaves what the others read of other resorts     *)
(* alone, and on its own resort nobody else has read anything.             *)
LEMMA FreshWrite ==
    ASSUME IInv, TypeOK', NEW r \in Requests, Write(r) \/ WriteFails(r)
    PROVE  Fresh' /\ Composed'
<1>1. /\ phase[r] = "writing" /\ Inside(r) /\ UNCHANGED <<published, composed, asked>>
      /\ \E v \in {"ok", "internal"} : Settle(r, v)
      /\ file' = file \/ file' = [file EXCEPT ![slug[r]] = Candidate(r)]
  BY DEF Write, WriteFails, Inside
<1>2. Candidate(r) \in File /\ slug[r] \in Slugs /\ Candidate(r) # NoFile
  BY <1>1, CandidateType, StatesAssumption
<1>3. Composed'
  BY <1>1, <1>2 DEF IInv, TypeOK, Composed
<1>4. Fresh'
  <2> SUFFICES ASSUME NEW q \in Requests
               PROVE  /\ ~Inside(q)' => seenFile'[q] = Unread /\ seenPublished'[q] = Unread
                      /\ seenFile'[q] # Unread => seenFile'[q] = file'[slug'[q]]
                      /\ seenPublished'[q] # Unread /\ file'[slug'[q]] = NoFile =>
                            seenPublished'[q] = published'[slug'[q]]
                      /\ phase'[q] = "writing" =>
                            /\ seenFile'[q] # Unread /\ seenPublished'[q] # Unread
                            /\ Writes(seenFile'[q], seenPublished'[q], body'[q])
                      /\ Undecided(q)' => reply'[q] = "none"
                      /\ reply'[q] = "none" => ~Sent(q)' \/ Undecided(q)'
    BY DEF Fresh
  <2>1. CASE q = r
    BY <1>1, <2>1 DEF Settle, IInv, TypeOK, Inside, Undecided, Sent
  <2>2. CASE q # r
    <3>1. /\ phase'[q] = phase[q] /\ seenFile'[q] = seenFile[q]
          /\ seenPublished'[q] = seenPublished[q] /\ reply'[q] = reply[q]
          /\ slug'[q] = slug[q] /\ body'[q] = body[q] /\ published' = published
      BY <1>1, <2>2 DEF Settle, asked, IInv, TypeOK
    <3>2. CASE Inside(q)
      <4>1. slug[q] # slug[r] /\ slug[q] \in Slugs
        BY <1>1, <2>2, <3>2, Alone DEF IInv, Order, Requested, Inside, Sent
      <4>2. file'[slug[q]] = file[slug[q]]
        BY <1>1, <4>1 DEF IInv, TypeOK
      <4> QED
        BY <3>1, <3>2, <4>2 DEF IInv, Fresh, Inside, Undecided, Sent
    <3>3. CASE ~Inside(q)
      BY <3>1, <3>3 DEF IInv, Fresh, Inside, Undecided, Sent
    <3> QED
      BY <3>2, <3>3
  <2> QED
    BY <2>1, <2>2
<1> QED
  BY <1>3, <1>4

LEMMA FreshStep ==
    ASSUME IInv, [Next]_vars
    PROVE  Fresh' /\ Composed'
<1> USE DEF IInv, TypeOK, Fresh, Composed, disk, asked, Inside, Undecided, Sent
<1>1. ASSUME NEW r \in Requests, NEW s \in Slugs, NEW b \in Bodies, Arrive(r, s, b)
      PROVE  Fresh' /\ Composed'
  BY <1>1 DEF Arrive, Order, Requested
<1>2. ASSUME NEW r \in Requests, Start(r)
      PROVE  Fresh' /\ Composed'
  BY <1>2 DEF Start
<1>3. ASSUME NEW r \in Requests, ReadWorkspaceFile(r)
      PROVE  Fresh' /\ Composed'
  BY <1>3 DEF ReadWorkspaceFile
<1>4. ASSUME NEW r \in Requests, ReadCorruptFile(r)
      PROVE  Fresh' /\ Composed'
  BY <1>4 DEF ReadCorruptFile, Settle
<1>5. ASSUME NEW r \in Requests, ReadPublished(r)
      PROVE  Fresh' /\ Composed'
  BY <1>5 DEF ReadPublished
<1>6. ASSUME NEW r \in Requests, Decide(r)
      PROVE  Fresh' /\ Composed'
  BY <1>6, VerdictType DEF Decide, Settle, Verdicts
<1>7. ASSUME NEW r \in Requests, Write(r) \/ WriteFails(r)
      PROVE  Fresh' /\ Composed'
  BY <1>7, FreshWrite, TypeStep
<1>8. ASSUME NEW r \in Requests, Cleanup(r)
      PROVE  Fresh' /\ Composed'
  BY <1>8 DEF Cleanup
<1>9. CASE Restart
  BY <1>9 DEF Restart, Phases
<1>10. ASSUME NEW s \in Slugs, ComposePublish(s)
       PROVE  Fresh' /\ Composed'
  BY <1>10 DEF ComposePublish
<1>11. ASSUME NEW s \in Slugs, FinishPublish(s)
       PROVE  Fresh' /\ Composed'
  <2>1. file[s] # NoFile
    BY <1>11, StatesAssumption DEF FinishPublish
  <2> QED
    BY <1>11, <2>1 DEF FinishPublish
<1>12. CASE UNCHANGED vars
  BY <1>12 DEF vars
<1> QED
  BY <1>1, <1>2, <1>3, <1>4, <1>5, <1>6, <1>7, <1>8, <1>9, <1>10, <1>11, <1>12
     DEF Next, Step

LEMMA Initial == Init => IInv
<1> SUFFICES ASSUME Init
             PROVE  IInv
  OBVIOUS
<1>1. TypeOK
  BY InitAssumption DEF Init, TypeOK, Phases
<1>2. Order
  BY DEF Init, Order, Requested, Distinct, Chained, InOrder, LatestHeld, Sent,
         Before, Started, Settled
<1>3. Fresh /\ Composed
  BY DEF Init, Fresh, Composed, Inside, Undecided, Sent
<1> QED
  BY <1>1, <1>2, <1>3 DEF IInv

LEMMA Inductive == IInv /\ [Next]_vars => IInv'
BY TypeStep, OrderStep, FreshStep DEF IInv

(* The inductive invariant holds in every reachable state.                 *)
THEOREM Invariance == Spec => []IInv
BY Initial, Inductive, PTL DEF Spec
-----------------------------------------------------------------------------
(* Handlers of one resort run one at a time, in the order they asked.      *)
THEOREM ArrivalOrder == Spec => []RunsInArrivalOrder
<1>1. IInv => RunsInArrivalOrder
  <2> SUFFICES ASSUME IInv, NEW r \in Requests, NEW q \in Requests,
                      Inside(r), slug[q] = slug[r], arrival[q] < arrival[r]
               PROVE  Settled(q)
    BY DEF RunsInArrivalOrder
  <2>1. Started(r) /\ Sent(r)
    BY DEF Inside, Started, Sent
  <2>2. Sent(q)
    BY <2>1, NonesAssumption DEF IInv, Order, Requested
  <2> QED
    BY <2>1, <2>2 DEF IInv, Order, InOrder, Before
<1> QED
  BY <1>1, Invariance, PTL

(* withSlugLock's map does not leak.                                       *)
THEOREM LockMapClean == Spec => []NoLockLeak
<1>1. IInv => NoLockLeak
  BY DEF IInv, Order, LatestHeld, NoLockLeak
<1> QED
  BY <1>1, Invariance, PTL

(* The variables keep their types.                                         *)
THEOREM TypeCorrect == Spec => []TypeOK
<1>1. IInv => TypeOK
  BY DEF IInv
<1> QED
  BY <1>1, Invariance, PTL
-----------------------------------------------------------------------------
(* What a reader of a resort is shown changes only by the write of an      *)
(* accepted body, also when the process stopped right after it.            *)
LEMMA ShownSteps ==
    ASSUME IInv, [Next]_vars, NEW s \in Slugs,
           Shown(s)' # Shown(s) \/ ShownNotes(s)' # ShownNotes(s)
    PROVE  \E r \in Requests :
              /\ phase[r] = "writing" /\ slug[r] = s
              /\ file'[s] = Candidate(r)
<1>1. ASSUME NEW r \in Requests, Write(r) \/ WriteFails(r)
      PROVE  \E q \in Requests : /\ phase[q] = "writing" /\ slug[q] = s
                                 /\ file'[s] = Candidate(q)
  <2>1. phase[r] = "writing" /\ published' = published
    BY <1>1 DEF Write, WriteFails
  <2>2. file'[s] # file[s]
    BY <2>1 DEF Shown, ShownNotes
  <2>3. slug[r] = s /\ file'[s] = Candidate(r)
    BY <1>1, <2>2 DEF Write, WriteFails, IInv, TypeOK
  <2> QED
    BY <2>1, <2>3
<1>2. ASSUME NEW t \in Slugs, FinishPublish(t)
      PROVE  FALSE
  <2>1. file' = file /\ file[t] # NoFile
    BY <1>2, StatesAssumption DEF FinishPublish, IInv, Composed
  <2>2. s # t => published'[s] = published[s]
    BY <1>2 DEF FinishPublish, IInv, TypeOK
  <2> QED
    BY <2>1, <2>2 DEF Shown, ShownNotes
<1>3. CASE UNCHANGED <<file, published>>
  BY <1>3 DEF Shown, ShownNotes
<1>4. CASE Restart
  <2>1. file'[s] # file[s]
    BY <1>4 DEF Restart, Shown, ShownNotes
  <2> QED
    BY <1>4, <2>1, RestartLeaves
<1>5. \/ \E r \in Requests : Write(r) \/ WriteFails(r)
      \/ \E t \in Slugs : FinishPublish(t)
      \/ Restart
      \/ UNCHANGED <<file, published>>
  BY DEF Next, Step, vars, disk, Arrive, Start, ReadWorkspaceFile, ReadPublished,
         ReadCorruptFile, Decide, Cleanup, ComposePublish
<1> QED
  BY <1>1, <1>2, <1>3, <1>4, <1>5

(* What the write leaves, seen from what was shown before it.              *)
LEMMA WriteShown ==
    ASSUME IInv, NEW r \in Requests, NEW s \in Slugs,
           phase[r] = "writing", slug[r] = s,
           file'[s] = Candidate(r)
    PROVE  /\ file[s] # Corrupt
           /\ Shown(s) \in Content
           /\ Shown(s)' = Candidate(r).content
           /\ ShownNotes(s)' = Candidate(r).notes
           /\ Base(file[s], published[s])
                 = [content |-> Shown(s), notes |-> ShownNotes(s)]
           /\ Candidate(r) = Patched(Base(file[s], published[s]), body[r])
           /\ Verdict(file[s], published[s], body[r]) = "ok"
<1> DEFINE f == file[s]
           p == published[s]
<1>1. /\ Candidate(r) \in File /\ Candidate(r) = Written(f, p, body[r])
      /\ Writes(f, p, body[r])
  BY CandidateType
<1>2. Verdict(f, p, body[r]) = "ok" /\ Candidate(r) = Patched(Base(f, p), body[r])
  BY <1>1 DEF Writes, Written
<1>3. f # Corrupt /\ (f = NoFile => p # NotPublished)
  BY <1>2, StatesAssumption DEF Verdict
<1>4. f \in File \cup {NoFile} /\ p \in Content \cup {NotPublished}
  BY <1>1, <1>3 DEF IInv, TypeOK
<1>5. /\ Shown(s) \in Content
      /\ Base(f, p) = [content |-> Shown(s), notes |-> ShownNotes(s)]
  <2>1. CASE f = NoFile
    BY <1>3, <1>4, <2>1, StatesAssumption DEF Shown, ShownNotes, Base
  <2>2. CASE f # NoFile
    BY <1>3, <1>4, <2>2, StatesAssumption DEF Shown, ShownNotes, Base, File
  <2> QED
    BY <2>1, <2>2
<1>6. /\ Shown(s)' = Candidate(r).content
      /\ ShownNotes(s)' = Candidate(r).notes
  <2>1. file'[s] \in File
    BY <1>1
  <2> QED
    BY <1>1, <2>1, StatesAssumption DEF Shown, ShownNotes
<1> QED
  BY <1>2, <1>3, <1>5, <1>6

(* Values and provenance entries of a resort change together.              *)
THEOREM Provenance == Spec => ProvenanceMovesWithValue
<1>1. ASSUME IInv, [Next]_vars, NEW s \in Slugs, NEW f \in Fields,
             Shown(s).vals[f] # Absent, Shown(s)'.vals[f] # Absent
      PROVE  Shown(s).vals[f] # Shown(s)'.vals[f]
               <=> Shown(s).srcs[f] # Shown(s)'.srcs[f]
  <2>1. CASE Shown(s)' = Shown(s)
    BY <2>1
  <2>2. CASE Shown(s)' # Shown(s)
    <3>1. PICK r \in Requests : /\ phase[r] = "writing" /\ slug[r] = s
                                /\ file'[s] = Candidate(r)
      BY <1>1, <2>2, ShownSteps
    <3> DEFINE c == Shown(s)
               b == body[r]
    <3>2. /\ c \in Content /\ file[s] # Corrupt
          /\ Base(file[s], published[s]).content = c
          /\ Shown(s)' = Patched(Base(file[s], published[s]), b).content
          /\ Verdict(file[s], published[s], b) = "ok"
          /\ b \in Bodies
      <4>1. Sent(r)
        BY <3>1 DEF Sent
      <4>2. b \in Bodies
        BY <1>1, <4>1 DEF IInv, Order, Requested
      <4>3. /\ Shown(s)' = Candidate(r).content
            /\ Candidate(r) = Patched(Base(file[s], published[s]), b)
            /\ c \in Content /\ file[s] # Corrupt
            /\ Base(file[s], published[s])
                  = [content |-> c, notes |-> ShownNotes(s)]
            /\ Verdict(file[s], published[s], b) = "ok"
        BY <1>1, <3>1, WriteShown
      <4> QED
        BY <4>2, <4>3
    <3>3. b.kind = "resort"
      BY <2>2, <3>2 DEF Patched
    <3>4. b \in ResortBody
      BY <3>2, <3>3, BodiesAssumption DEF NoteBody
    <3>5. Shown(s)' = MergeContent(c, b)
      BY <3>2, <3>3 DEF Patched
    <3>6. Paired(c, b, f)
      BY <3>2, <3>3 DEF Verdict, ResortVerdict
    <3>7. MergeContent(c, b).vals[f] # Absent
      BY <1>1, <3>5
    <3>8. MergeContent(c, b).srcs[f] =
             IF f \in DOMAIN b.srcs THEN b.srcs[f] ELSE c.srcs[f]
      BY <3>7 DEF MergeContent
    <3> QED
      BY <3>5, <3>6, <3>7, <3>8 DEF Paired
  <2> QED
    BY <2>1, <2>2
<1>2. IInv /\ [Next]_vars =>
        [\A s \in Slugs :
          Shown(s) # NotPublished /\ Shown(s)' # NotPublished =>
            \A f \in Fields :
               Shown(s).vals[f] # Absent /\ Shown(s)'.vals[f] # Absent =>
                  (Shown(s).vals[f] # Shown(s)'.vals[f]
                     <=> Shown(s).srcs[f] # Shown(s)'.srcs[f])]_vars
  BY <1>1
<1> QED
  BY <1>2, Invariance, PTL DEF Spec, ProvenanceMovesWithValue

(* The notes and the values of a resort never change in the same step.     *)
THEOREM HalvesCarried == Spec => EachHalfIsCarried
<1>1. ASSUME IInv, [Next]_vars, NEW s \in Slugs,
             Shown(s)' # Shown(s), ShownNotes(s)' # ShownNotes(s)
      PROVE  FALSE
  <2>1. PICK r \in Requests : /\ phase[r] = "writing" /\ slug[r] = s
                              /\ file'[s] = Candidate(r)
    BY <1>1, ShownSteps
  <2>2. /\ Shown(s)' = Candidate(r).content /\ ShownNotes(s)' = Candidate(r).notes
        /\ Candidate(r) = Patched([content |-> Shown(s), notes |-> ShownNotes(s)],
                                  body[r])
    BY <1>1, <2>1, WriteShown
  <2> QED
    BY <1>1, <2>2 DEF Patched
<1>2. IInv /\ [Next]_vars =>
        [\A s \in Slugs :
          Shown(s)' # Shown(s) => ShownNotes(s)' = ShownNotes(s)]_vars
  BY <1>1
<1> QED
  BY <1>2, Invariance, PTL DEF Spec, EachHalfIsCarried
-----------------------------------------------------------------------------
(* The operators of the abstract module's own copy of WorkspaceMerge are   *)
(* those of this one.                                                      *)
LEMMA SameMerge ==
    ASSUME NEW f, NEW p, NEW b
    PROVE  /\ Store!Verdict(f, p, b) = Verdict(f, p, b)
           /\ Store!Written(f, p, b) = Written(f, p, b)
<1>1. \A c : Store!MergeContent(c, b) = MergeContent(c, b)
  BY DEF Store!MergeContent, MergeContent
<1>2. \A c, x : Store!Paired(c, b, x) = Paired(c, b, x)
  BY <1>1 DEF Store!Paired, Paired
<1>3. \A c : Store!SchemaValid(c, b) = SchemaValid(c, b)
  BY DEF Store!SchemaValid, SchemaValid
<1>4. Store!Base(f, p) = Base(f, p)
  BY DEF Store!Base, Base
<1>5. Store!Verdict(f, p, b) = Verdict(f, p, b)
  BY <1>2, <1>3, <1>4 DEF Store!Verdict, Verdict, Store!ResortVerdict, ResortVerdict
<1>6. \A base : Store!Patched(base, b) = Patched(base, b)
  BY <1>1 DEF Store!Patched, Patched
<1> QED
  BY <1>4, <1>5, <1>6 DEF Store!Written, Written, Store!Writes, Writes

(* The step of a handler that decides is one atomic answer.                *)
LEMMA StepIsAnswer ==
    ASSUME IInv, NEW r \in Requests,
           ReadCorruptFile(r) \/ Decide(r) \/ Write(r) \/ WriteFails(r)
    PROVE  Store!Answer(r) \/ Store!Break(r) \/ UNCHANGED Store!vars
<1> USE DEF Store!vars, disk, asked
<1>1. slug[r] \in Slugs /\ slug[r] # NoSlug /\ reply[r] = "none"
  BY NonesAssumption DEF IInv, Order, Requested, Fresh, Sent, Undecided,
     ReadCorruptFile, Decide, Write, WriteFails
<1>2. Store!Open(r)
  BY <1>1 DEF Store!Open, Store!Asked
<1>3. file = [file EXCEPT ![slug[r]] = file[slug[r]]]
  BY <1>1 DEF IInv, TypeOK
<1>4. Store!After(r) = Written(file[slug[r]], published[slug[r]], body[r])
  BY SameMerge DEF Store!After
<1>5. CASE ReadCorruptFile(r)
  <2>1. Verdict(file[slug[r]], published[slug[r]], body[r]) = "workspace-corrupt"
    BY <1>5 DEF ReadCorruptFile, Verdict
  <2>2. Written(file[slug[r]], published[slug[r]], body[r]) = file[slug[r]]
    BY <2>1 DEF Written, Writes
  <2> QED
    BY <1>2, <1>3, <1>4, <1>5, <2>1, <2>2, SameMerge
       DEF ReadCorruptFile, Settle, Store!Answer
<1>6. CASE Decide(r)
  <2>1. Inside(r) /\ seenFile[r] # Unread /\ seenPublished[r] # Unread
    BY <1>6 DEF Decide, Inside
  <2>2. CASE Writes(seenFile[r], seenPublished[r], body[r])
    BY <1>6, <2>2 DEF Decide
  <2>3. CASE ~Writes(seenFile[r], seenPublished[r], body[r])
    <3>1. Written(file[slug[r]], published[slug[r]], body[r]) = file[slug[r]]
      BY <2>1, <2>3, StillCurrent DEF Written
    <3>2. Verdict(seenFile[r], seenPublished[r], body[r])
            = Verdict(file[slug[r]], published[slug[r]], body[r])
      BY <2>1, StillCurrent
    <3> QED
      BY <1>2, <1>3, <1>4, <1>6, <2>3, <3>1, <3>2, SameMerge
         DEF Decide, Settle, Store!Answer
  <2> QED
    BY <2>2, <2>3
<1>7. CASE Write(r)
  <2>1. /\ Candidate(r) = Written(file[slug[r]], published[slug[r]], body[r])
        /\ Verdict(file[slug[r]], published[slug[r]], body[r]) = "ok"
    BY <1>7, CandidateType DEF Write, Writes
  <2> QED
    BY <1>2, <1>4, <1>7, <2>1, SameMerge DEF Write, Settle, Store!Answer
<1>8. CASE WriteFails(r)
  <2>1. Candidate(r) = Written(file[slug[r]], published[slug[r]], body[r])
    BY <1>8, CandidateType DEF WriteFails
  <2> QED
    BY <1>2, <1>4, <1>8, <2>1 DEF WriteFails, Settle, Store!Break
<1> QED
  BY <1>5, <1>6, <1>7, <1>8

(* Every step maps to one of the abstract workspace, or to none.           *)
LEMMA StepRefines ==
    ASSUME IInv, [Next]_vars
    PROVE  [Store!Next]_(Store!vars)
<1> USE DEF Store!vars, disk, asked
<1>1. ASSUME NEW r \in Requests, NEW s \in Slugs, NEW b \in Bodies, Arrive(r, s, b)
      PROVE  Store!Ask(r, s, b)
  BY <1>1 DEF Arrive, Store!Ask, Store!Asked, IInv, Order, Requested, Sent
<1>2. ASSUME NEW r \in Requests,
             ReadCorruptFile(r) \/ Decide(r) \/ Write(r) \/ WriteFails(r)
      PROVE  Store!Answer(r) \/ Store!Break(r) \/ UNCHANGED Store!vars
  BY <1>2, StepIsAnswer
<1>3. ASSUME NEW r \in Requests,
             Start(r) \/ ReadWorkspaceFile(r) \/ ReadPublished(r) \/ Cleanup(r)
      PROVE  UNCHANGED Store!vars
  BY <1>3 DEF Start, ReadWorkspaceFile, ReadPublished, Cleanup
<1>4. CASE Restart
  <2>1. \A r \in Requests :
           phase[r] # "unsent" /\ reply[r] = "none" <=> Store!Open(r)
    BY NonesAssumption DEF IInv, Order, Requested, Sent, Store!Open, Store!Asked
  <2>2. \A s \in Slugs :
           \/ file'[s] = file[s]
           \/ \E r \in Requests :
                 Store!Open(r) /\ slug[r] = s /\ file'[s] = Store!After(r)
    <3>1. ASSUME NEW r \in Requests, phase[r] = "writing"
          PROVE  Store!Open(r) /\ Candidate(r) = Store!After(r)
      <4>1. Store!Open(r)
        BY <2>1, <3>1 DEF IInv, Fresh, Undecided
      <4> QED
        BY <3>1, <4>1, CandidateType, SameMerge DEF Store!After
    <3> QED
      BY <1>4, <3>1, RestartLeaves
  <2>3. file' = [s \in Slugs |-> file'[s]]
    BY <1>4, RestartLeaves
  <2>4. Store!Forget
    BY <1>4, <2>1, <2>2, <2>3 DEF Restart, Store!Forget
  <2> QED
    BY <2>4 DEF Store!Next
<1>5. ASSUME NEW s \in Slugs, ComposePublish(s)
      PROVE  UNCHANGED Store!vars
  BY <1>5 DEF ComposePublish
<1>6. ASSUME NEW s \in Slugs, FinishPublish(s)
      PROVE  Store!Publish(s)
  <2>1. file[s] \in File /\ composed[s] \in Content
    BY <1>6 DEF FinishPublish, IInv, TypeOK, Composed
  <2>2. Store!File = File /\ Store!Content = Content
    BY DEF Store!File, File, Store!Content, Content, Store!Notes, Notes
  <2>3. published'[s] = composed[s]
    BY <1>6 DEF FinishPublish, IInv, TypeOK
  <2>4. published' = [published EXCEPT ![s] = published'[s]]
    BY <1>6, <2>3 DEF FinishPublish
  <2> QED
    BY <1>6, <2>1, <2>2, <2>3, <2>4 DEF FinishPublish, Store!Publish
<1>7. CASE UNCHANGED vars
  BY <1>7 DEF vars
<1> QED
  BY <1>1, <1>2, <1>3, <1>4, <1>5, <1>6, <1>7 DEF Next, Step, Store!Next

(* Every PUT takes effect at one instant: the server implements the        *)
(* abstract workspace.                                                     *)
THEOREM Refinement == Spec => ImplementsStore
<1>1. Init => Store!Init
  BY DEF Init, Store!Init
<1>2. IInv /\ [Next]_vars => [Store!Next]_(Store!vars)
  BY StepRefines
<1> QED
  BY <1>1, <1>2, Invariance, PTL DEF Spec, ImplementsStore, Store!Spec
=============================================================================
