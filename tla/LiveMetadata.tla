---------------------------- MODULE LiveMetadata ----------------------------
(***************************************************************************)
(* The Gateway's live metadata source.  A publisher, another process,      *)
(* writes a generation directory and then replaces current.json; the       *)
(* refresh loop reads both, step by step, while the publisher goes on, and *)
(* swaps the active snapshot; lookups ask the active snapshot until its    *)
(* deadline.                                                               *)
(*                                                                         *)
(* The records of a generation are one value (Contents); a lookup answers  *)
(* from it or, past the deadline, not at all.  Time is a counter.          *)
(***************************************************************************)
EXTENDS Integers, Sequences

CONSTANTS
    Contents,     \* what a generation may hold
    BadContent,   \* ... and one that fails validation
    Generations,  \* directory names
    MaxAge,       \* maxSnapshotAge
    Skew,         \* maxMetadataFutureSkew
    MaxRevision,  \* bound: revisions published
    MaxTime,      \* bound: the clock
    FaultSets     \* bound: the publisher faults that may happen together, of
                  \* "rollback" (an older manifest is restored), "rewrite" (a
                  \* published generation is changed in place), "short" (the
                  \* lease is shorter than MaxAge) and "skew" (its clock is ahead)

ASSUME MetadataLimits ==
    /\ MaxAge \in Nat \ {0} /\ Skew \in Nat /\ MaxRevision \in Nat /\ MaxTime \in Nat
    /\ BadContent \in Contents

VARIABLES
    now,        \* the clock
    content,    \* per generation directory, what it holds
    stamp,      \* per generation directory, its stat fingerprint
    manifest,   \* current.json
    issued,     \* ghost: per revision, its manifest and the time it was issued
    refresh,    \* where refreshAt is: "idle", "cheap", "load" or "activate"
    candidate,  \* the manifest it read
    snapshot,   \* the generation it loaded
    active,     \* the active generation
    faults      \* the publisher's faults, one of FaultSets

mdVars == <<now, content, stamp, manifest, issued, refresh, candidate, snapshot, active, faults>>

Absent == [revision |-> 0, generation |-> "none", publishedAt |-> 0, validUntil |-> 0]

MDInit ==
    /\ now = 0 /\ content = [g \in Generations |-> BadContent] /\ stamp = [g \in Generations |-> 0]
    /\ manifest = Absent /\ issued = <<>> /\ refresh = "idle" /\ candidate = Absent
    /\ snapshot = BadContent /\ active = Absent /\ faults \in FaultSets

-----------------------------------------------------------------------------
(* The publisher *)

\* A new revision: the generation is written and closed, then current.json is
\* replaced.  An unchanged directory may be leased again.
Publish ==
    /\ Len(issued) < MaxRevision
    /\ \E g \in Generations, c \in Contents,
          ahead \in IF "skew" \in faults THEN {0, Skew} ELSE {0},
          lease \in IF "short" \in faults THEN {1, MaxAge + Skew} ELSE {MaxAge + Skew} :
          LET m == [revision |-> Len(issued) + 1, generation |-> g,
                    publishedAt |-> now + ahead, validUntil |-> now + ahead + lease]
          IN  /\ \A r \in DOMAIN issued : issued[r].manifest.generation = g => content[g] = c
              /\ content' = [content EXCEPT ![g] = c]
              /\ stamp' = IF content[g] = c THEN stamp ELSE [stamp EXCEPT ![g] = @ + 1]
              /\ manifest' = m
              /\ issued' = Append(issued, [manifest |-> m, content |-> c, at |-> now])
    /\ UNCHANGED <<now, refresh, candidate, snapshot, active, faults>>

\* An earlier current.json comes back (a restore, an old replica).
Rollback ==
    /\ "rollback" \in faults
    /\ \E r \in 1..(Len(issued) - 1) : manifest' = issued[r].manifest
    /\ UNCHANGED <<now, content, stamp, issued, refresh, candidate, snapshot, active, faults>>

\* A published generation is changed in place.
Rewrite ==
    /\ "rewrite" \in faults /\ manifest.revision # 0 /\ stamp[manifest.generation] < 2
    /\ \E c \in Contents \ {content[manifest.generation]} :
          content' = [content EXCEPT ![manifest.generation] = c]
    /\ stamp' = [stamp EXCEPT ![manifest.generation] = @ + 1]
    /\ UNCHANGED <<now, manifest, issued, refresh, candidate, snapshot, active, faults>>

MDTick ==
    /\ now < MaxTime /\ now' = now + 1
    /\ UNCHANGED <<content, stamp, manifest, issued, refresh, candidate, snapshot, active, faults>>

-----------------------------------------------------------------------------
(* refreshAt *)

Min2(a, b) == IF a <= b THEN a ELSE b

\* The freshness deadline of a manifest accepted now.
Deadline(m) == Min2(m.validUntil, Min2(m.publishedAt + MaxAge, now + MaxAge))

\* loadMetadataManifest: a lease that ends before it starts is refused, and
\* so is one from the future or already stale.
Acceptable(m) ==
    /\ m.revision # 0
    /\ m.publishedAt < m.validUntil /\ m.publishedAt <= now + Skew
    /\ now < Deadline(m)

Fail ==
    /\ refresh' = "idle" /\ candidate' = Absent /\ snapshot' = BadContent
    /\ UNCHANGED active

Succeed(a) ==
    /\ refresh' = "idle" /\ candidate' = Absent /\ snapshot' = BadContent
    /\ active' = a

NotOlder(m) == active.revision = 0 \/ active.revision <= m.revision

\* Mutant: a lease of the same directory counts as the same revision.
AlreadyActiveDirectory(m) == active.generation = m.generation

AlreadyActive(m) == active.revision = m.revision /\ active.generation = m.generation

\* The manifest is read and judged; the revision the Gateway already has goes
\* to the cheap path.
ReadManifest ==
    /\ refresh = "idle"
    /\ IF Acceptable(manifest) /\ NotOlder(manifest)
       THEN /\ candidate' = [revision |-> manifest.revision, generation |-> manifest.generation,
                             publishedAt |-> manifest.publishedAt,
                             validUntil |-> manifest.validUntil, deadline |-> Deadline(manifest)]
            /\ refresh' = IF AlreadyActive(manifest) THEN "cheap" ELSE "load"
            /\ UNCHANGED <<snapshot, active>>
       ELSE Fail
    /\ UNCHANGED <<now, content, stamp, manifest, issued, faults>>

\* The cheap path: an unchanged fingerprint is a success.
CheapPath ==
    /\ refresh = "cheap"
    /\ IF stamp[candidate.generation] = active.stamp THEN Succeed(active)
       ELSE refresh' = "load" /\ UNCHANGED <<candidate, snapshot, active>>
    /\ UNCHANGED <<now, content, stamp, manifest, issued, faults>>

\* Mutant: the directory is taken from the manifest of the moment.
LoadCurrent ==
    /\ refresh = "load"
    /\ IF content[manifest.generation] = BadContent THEN Fail
       ELSE /\ snapshot' = content[manifest.generation] /\ refresh' = "activate"
            /\ UNCHANGED <<candidate, active>>
    /\ UNCHANGED <<now, content, stamp, manifest, issued, faults>>

\* loadLiveGeneration: every record is parsed and hashed, or the refresh fails.
LoadGeneration ==
    /\ refresh = "load"
    /\ IF content[candidate.generation] = BadContent THEN Fail
       ELSE /\ snapshot' = content[candidate.generation] /\ refresh' = "activate"
            /\ UNCHANGED <<candidate, active>>
    /\ UNCHANGED <<now, content, stamp, manifest, issued, faults>>

\* The revision the Gateway has must not have changed; a newer one becomes
\* active with the fingerprint its directory has now.
Activate ==
    /\ refresh = "activate"
    /\ IF active.revision = candidate.revision
       THEN IF /\ active.generation = candidate.generation /\ active.content = snapshot
               /\ active.publishedAt = candidate.publishedAt /\ active.validUntil = candidate.validUntil
            THEN Succeed(active) ELSE Fail
       ELSE Succeed([revision |-> candidate.revision, generation |-> candidate.generation,
                     publishedAt |-> candidate.publishedAt, validUntil |-> candidate.validUntil,
                     deadline |-> candidate.deadline, content |-> snapshot,
                     stamp |-> stamp[candidate.generation]])
    /\ UNCHANGED <<now, content, stamp, manifest, issued, faults>>

Refresh == ReadManifest \/ CheapPath \/ LoadGeneration \/ Activate

MDNext == Publish \/ Rollback \/ Rewrite \/ MDTick \/ Refresh

\* The refresh ticker.
MDSpec == MDInit /\ [][MDNext]_mdVars /\ WF_mdVars(Refresh)

-----------------------------------------------------------------------------
(* Lookups *)

\* activeSnapshot: there is an active generation and it is fresh.
Available == active.revision # 0 /\ now < active.deadline

-----------------------------------------------------------------------------
(* Properties *)

\* The active revision is one that was issued, and a refresh is at one of its
\* steps.
MDTypeOK ==
    /\ now \in 0..MaxTime /\ content \in [Generations -> Contents]
    /\ manifest.revision \in 0..MaxRevision /\ active.revision \in 0..Len(issued)
    /\ refresh \in {"idle", "cheap", "load", "activate"} /\ snapshot \in Contents

\* What a lookup is answered from was published complete under the active
\* revision: no mixture of generations, no unvalidated record, however the
\* refresh and the publisher interleave.
AnswersAsPublished ==
    "rewrite" \notin faults /\ Available =>
        active.content = issued[active.revision].content /\ active.content # BadContent

\* Authority that was replaced is gone within MaxAge of its replacement, though
\* no refresh succeeds and whatever the publisher's clock said (gateway.md:
\* freshness expires at the earliest of three deadlines).
WithdrawnWithinMaxAge ==
    Available /\ active.revision < Len(issued) /\ "rollback" \notin faults =>
        now < issued[active.revision + 1].at + MaxAge

\* The Gateway answers from authority as it was published, and not long after
\* it was replaced.
LookupsAreCurrent == AnswersAsPublished /\ WithdrawnWithinMaxAge

\* An accepted revision is frozen: its content, its lease and its deadline stay
\* what they were, and a lower revision never replaces it.
AcceptedIsFrozen ==
    [][/\ active.revision <= active'.revision
       /\ active.revision = active'.revision => active' = active]_active

\* A valid revision that stays current is picked up.
NewRevisionActivates ==
    []<>(/\ manifest.revision # 0 => \/ manifest.revision <= active.revision
                                    \/ ~(now < manifest.publishedAt + MaxAge /\ now < manifest.validUntil)
                                    \/ content[manifest.generation] = BadContent)

\* Authority moves from one published revision to a later one, and does move.
RevisionsAdvance == AcceptedIsFrozen /\ NewRevisionActivates

\* A refresh that ends in success found on disk what the Gateway serves: a
\* generation changed under an accepted revision is detected.
SuccessMeansUnchanged ==
    [][refresh = "cheap" /\ refresh' = "idle" => content[active.generation] = active.content]_mdVars
=============================================================================
