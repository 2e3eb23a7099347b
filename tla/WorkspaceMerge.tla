--------------------------- MODULE WorkspaceMerge ---------------------------
(***************************************************************************)
(* The pure part of the two workspace PUT handlers: what a request body    *)
(* makes of the resort's file, and when it is refused                      *)
(* (apps/admin/server/resortUpsert.ts, apps/admin/server/analystNotes.ts). *)
(* A metric value and its field_sources entry are kept per leaf path; the  *)
(* entry is identified by its upstream_hash.  A body that replaces a whole *)
(* top-level key (altitude_m) lists every leaf of it.                      *)
(***************************************************************************)
EXTENDS Integers, FiniteSets

CONSTANTS Fields,        \* metric paths (METRIC_FIELDS)
          LiveFields,    \* those kept in live_signal
          Values, Absent,
          Hashes, NoHash,
          Paths,         \* note paths
          Texts, NoNote, \* note bodies; NoNote is markdown: null
          NoFile,        \* no data/admin-workspace/<slug>.json
          Corrupt,       \* a file that is not a WorkspaceFile
          NotPublished   \* the slug is not in current.v1.json

ASSUME LiveAssumption == LiveFields \subseteq Fields
ASSUME AbsenceAssumption == /\ Absent \notin Values
                            /\ NoHash \notin Hashes
                            /\ NoNote \notin Texts

(* The metric values and provenance of a resort; live says whether         *)
(* live_signal is non-null.                                                *)
Content == [vals : [Fields -> Values \cup {Absent}],
            srcs : [Fields -> Hashes \cup {NoHash}],
            live : BOOLEAN]

Notes == [Paths -> Texts \cup {NoNote}]

File == [content : Content, notes : Notes]

ASSUME StatesAssumption == /\ NoFile \notin File /\ Corrupt \notin File
                           /\ NoFile # Corrupt
                           /\ NotPublished \notin Content

Partial(S) == UNION {[D -> S] : D \in SUBSET Fields}

(* ResortUpsertBody: live is "keep" (no live_signal key), "clear" (null),  *)
(* "patch", or "complete" (a patch with observed_at and fetched_at).       *)
ResortBody == [kind : {"resort"}, vals : Partial(Values), srcs : Partial(Hashes),
               live : {"keep", "clear", "patch", "complete"}]

NoteBody == [kind : {"note"}, path : Paths, text : Texts \cup {NoNote}]
-----------------------------------------------------------------------------
(* The state a handler merges onto: the workspace file, else the published *)
(* resort with no notes.                                                   *)
Base(file, pub) ==
    IF file = NoFile THEN [content |-> pub, notes |-> [p \in Paths |-> NoNote]]
                     ELSE file

(* mergeResort and mergeLiveSignal: supplied values and sources win, an    *)
(* explicit null drops the live half.                                      *)
MergeContent(c, body) ==
    LET dropped == IF body.live = "clear" THEN LiveFields ELSE {}
    IN  [vals |-> [f \in Fields |-> IF f \in dropped THEN Absent
                                    ELSE IF f \in DOMAIN body.vals
                                    THEN body.vals[f] ELSE c.vals[f]],
         srcs |-> [f \in Fields |-> IF f \in dropped THEN NoHash
                                    ELSE IF f \in DOMAIN body.srcs
                                    THEN body.srcs[f] ELSE c.srcs[f]],
         live |-> IF body.live = "keep" THEN c.live ELSE body.live # "clear"]

(* WorkspaceFile.safeParse: a first live_signal needs its timestamps.      *)
SchemaValid(c, body) == body.live = "patch" => c.live

(* Mutant: a changed value needs no source entry.                          *)
PairedIfSupplied(c, body, f) ==
    LET after == MergeContent(c, body).vals[f]
        supplied == f \in DOMAIN body.srcs
    IN  after # Absent /\ supplied => /\ after # c.vals[f]
                                      /\ body.srcs[f] # c.srcs[f]

(* assertProvenancePairing at one path: a changed value comes with a new   *)
(* source entry, an unchanged one without.                                 *)
Paired(c, body, f) ==
    LET after == MergeContent(c, body).vals[f]
        changed == after # c.vals[f]
        supplied == f \in DOMAIN body.srcs
    IN  after # Absent => /\ changed <=> supplied
                          /\ changed /\ supplied => body.srcs[f] # c.srcs[f]

(* What a body makes of the file.                                          *)
Patched(base, body) ==
    IF body.kind = "resort"
       THEN [content |-> MergeContent(base.content, body), notes |-> base.notes]
       ELSE [content |-> base.content,
             notes |-> [base.notes EXCEPT ![body.path] = body.text]]

(* The verdict on a resort body from the content it is merged onto.        *)
ResortVerdict(c, body) ==
    IF ~SchemaValid(c, body) THEN "invalid-resort"
    ELSE IF \E f \in Fields : ~Paired(c, body, f) THEN "invalid-request"
    ELSE "ok"

(* The handler's verdict on a body, from what it read.                     *)
Verdict(file, pub, body) ==
    IF file = Corrupt THEN "workspace-corrupt"
    ELSE IF file = NoFile /\ pub = NotPublished THEN "not-found"
    ELSE IF body.kind = "note" THEN "ok"
    ELSE ResortVerdict(Base(file, pub).content, body)

(* An accepted body is written, except the deletion of a note of a resort  *)
(* that has no workspace file.                                             *)
Writes(file, pub, body) ==
    /\ Verdict(file, pub, body) = "ok"
    /\ ~ (file = NoFile /\ body.kind = "note" /\ body.text = NoNote)

Written(file, pub, body) ==
    IF Writes(file, pub, body) THEN Patched(Base(file, pub), body) ELSE file

Verdicts == {"ok", "invalid-request", "invalid-resort", "not-found",
             "workspace-corrupt"}
=============================================================================
