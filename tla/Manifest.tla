---- MODULE Manifest ----
(***************************************************************************)
(* apply_manifest (internal/tools/operations/operations.go): a manifest of *)
(* several documents is decoded, and its documents are checked and applied *)
(* one after the other; the first that fails ends the call, and what was   *)
(* applied before it stays.  A document is one of these:                   *)
(*   "good"      applied when it is sent                                   *)
(*   "empty"     no text: dropped by the decoder                           *)
(*   "refused"   has no name, an unknown kind, or a target the policy      *)
(*               keeps                                                     *)
(*   "rejected"  refused by the API server                                 *)
(*   "broken"    not an object, or one without a kind                      *)
(*   "cut"       JSON that ends in the middle, or anything whose error     *)
(*               text has "EOF" in it                                      *)
(***************************************************************************)
EXTENDS Naturals, Sequences

CONSTANTS MaxDocuments,    \* bound: documents in a manifest
          MaxManifest,     \* --max-manifest-bytes, counted in documents
          ApplyFailures    \* bound: failing API calls, the deadline's among them

ASSUME ManifestAssumption ==
    MaxDocuments \in Nat /\ MaxManifest \in Nat /\ ApplyFailures \in Nat

VARIABLES manifest, dryRun,
          at,        \* the document in hand; 0 before decoding
          stored,    \* documents the cluster has taken
          verdict,   \* "none", "applied", "refused" or "failed"
          faults     \* failed API calls

manifestVars == <<manifest, dryRun, at, stored, verdict, faults>>

Documents == {"good", "empty", "refused", "rejected", "broken", "cut"}

\* dry_run is true unless the call says otherwise.
ManifestInit ==
    /\ manifest \in UNION {[1..n -> Documents] : n \in 0..MaxDocuments}
    /\ dryRun \in BOOLEAN
    /\ at = 0
    /\ stored = {}
    /\ verdict = "none"
    /\ faults = 0

\* Mutated forms of the definitions below.

\* A document that fails is passed over.
StopAtFails(how) ==
    /\ at' = at + 1
    /\ UNCHANGED verdict

----------------------------------------------------------------------------
\* The documents the decoder returns: those before one that is cut.  An error
\* that has "EOF" in its text ends the list as the end of the text does.
Decoded ==
    {i \in 1..Len(manifest) :
        manifest[i] # "empty" /\ \A j \in 1..i : manifest[j] # "cut"}

\* A document that is no object is an error, unless one before it is cut.
DecodeError == \E i \in Decoded : manifest[i] = "broken"

StopAt(how) ==
    /\ verdict' = how
    /\ UNCHANGED at

\* The size check and the decoder, before anything is sent.
Decode ==
    /\ at = 0 /\ verdict = "none"
    /\ IF Len(manifest) > MaxManifest \/ DecodeError \/ Decoded = {}
       THEN verdict' = "refused" /\ UNCHANGED at
       ELSE at' = 1 /\ UNCHANGED verdict
    /\ UNCHANGED <<manifest, dryRun, stored, faults>>

InHand == at > 0 /\ verdict = "none" /\ at \in Decoded

\* Documents the decoder dropped are not in the list.
Skip ==
    /\ at > 0 /\ verdict = "none" /\ at <= Len(manifest) /\ at \notin Decoded
    /\ at' = at + 1
    /\ UNCHANGED <<manifest, dryRun, stored, verdict, faults>>

\* validateIdent, ResolveGVR, CheckManifestKind, CheckTarget, CheckNamespace.
RefuseDocument ==
    /\ InHand /\ manifest[at] = "refused"
    /\ StopAt("refused")
    /\ UNCHANGED <<manifest, dryRun, stored, faults>>

\* Server-side apply with force, as a dry run or for real.
ApplyDocument ==
    /\ InHand /\ manifest[at] = "good"
    /\ stored' = IF dryRun THEN stored ELSE stored \cup {at}
    /\ at' = at + 1
    /\ UNCHANGED <<manifest, dryRun, verdict, faults>>

RejectDocument ==
    /\ InHand /\ manifest[at] = "rejected"
    /\ StopAt("failed")
    /\ UNCHANGED <<manifest, dryRun, stored, faults>>

\* The API call fails, or its answer is lost after it was done.
ApplyFails ==
    /\ InHand /\ manifest[at] = "good" /\ faults < ApplyFailures
    /\ faults' = faults + 1
    /\ stored' \in {stored, IF dryRun THEN stored ELSE stored \cup {at}}
    /\ StopAt("failed")
    /\ UNCHANGED <<manifest, dryRun>>

Applied ==
    /\ verdict = "none" /\ at > Len(manifest)
    /\ at > 0
    /\ verdict' = "applied"
    /\ UNCHANGED <<manifest, dryRun, at, stored, faults>>

ManifestNext ==
    \/ Decode \/ Skip \/ RefuseDocument \/ ApplyDocument \/ RejectDocument
    \/ ApplyFails \/ Applied

----------------------------------------------------------------------------
\* Documents are applied in order and never around one that failed; a dry run
\* stores nothing; and a call that answers "applied" has applied
\* every document, up to one that is cut, whose followers are dropped without a
\* word (operations.go:145-186, 305).
ApplyExplained ==
    /\ dryRun => stored = {}
    /\ \A i \in stored : \A j \in 1..i :
          manifest[j] = "empty" \/ (manifest[j] = "good" /\ j \in stored)
    /\ verdict = "applied" /\ ~dryRun =>
          \A i \in 1..Len(manifest) :
             i \in stored \/ manifest[i] = "empty" \/ \E j \in 1..i : manifest[j] = "cut"
====
