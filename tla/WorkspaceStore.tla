--------------------------- MODULE WorkspaceStore ---------------------------
(***************************************************************************)
(* What the workspace API promises, without locks, reads or processes: a   *)
(* PUT happens at one instant, is judged and merged against the file as it *)
(* is at that instant, and changes nothing when it is refused.  Only a     *)
(* request that broke ("internal") or that the server forgot ("lost")      *)
(* leaves open whether it was applied, and then once and when it ended.    *)
(***************************************************************************)
EXTENDS WorkspaceMerge

CONSTANTS Slugs, Requests, Bodies, NoSlug, NoBody

VARIABLES file,       \* the workspace file of each resort
          published,  \* its entry in current.v1.json
          slug, body, \* what each request asks for
          reply       \* what its handler answered, "none" before

vars == <<file, published, slug, body, reply>>

CONSTANTS InitFiles, InitPublished   \* what the directory may hold at first

Init == /\ file \in [Slugs -> InitFiles]
        /\ published \in [Slugs -> InitPublished]
        /\ slug = [r \in Requests |-> NoSlug]
        /\ body = [r \in Requests |-> NoBody]
        /\ reply = [r \in Requests |-> "none"]

Asked(r) == slug[r] # NoSlug
Open(r) == Asked(r) /\ reply[r] = "none"

Ask(r, s, b) == /\ ~Asked(r)
                /\ slug' = [slug EXCEPT ![r] = s]
                /\ body' = [body EXCEPT ![r] = b]
                /\ UNCHANGED <<file, published, reply>>

After(r) == Written(file[slug[r]], published[slug[r]], body[r])

(* The verdict and the merge belong to the same instant.                   *)
Answer(r) == /\ Open(r)
             /\ reply' = [reply EXCEPT ![r] =
                           Verdict(file[slug[r]], published[slug[r]], body[r])]
             /\ file' = [file EXCEPT ![slug[r]] = After(r)]
             /\ UNCHANGED <<published, slug, body>>

Break(r) == /\ Open(r)
            /\ reply' = [reply EXCEPT ![r] = "internal"]
            /\ \/ UNCHANGED file
               \/ file' = [file EXCEPT ![slug[r]] = After(r)]
            /\ UNCHANGED <<published, slug, body>>

(* A restart forgets every open request; the last act of one of them on    *)
(* each resort may still have been its change.                             *)
Forget == /\ reply' = [r \in Requests |-> IF Open(r) THEN "lost" ELSE reply[r]]
          /\ file' = [s \in Slugs |-> file'[s]]
          /\ \A s \in Slugs :
                \/ file'[s] = file[s]
                \/ \E r \in Requests : Open(r) /\ slug[r] = s /\ file'[s] = After(r)
          /\ UNCHANGED <<published, slug, body>>

(* Publishing changes only resorts that have a workspace file.             *)
Publish(s) == /\ file[s] \in File
              /\ published'[s] \in Content
              /\ published' = [published EXCEPT ![s] = published'[s]]
              /\ UNCHANGED <<file, slug, body, reply>>

Next == \/ \E r \in Requests : \/ \E s \in Slugs, b \in Bodies : Ask(r, s, b)
                               \/ Answer(r)
                               \/ Break(r)
        \/ Forget
        \/ \E s \in Slugs : Publish(s)

Spec == Init /\ [][Next]_vars
=============================================================================
