------------------------- MODULE LiveMetadataProofs -------------------------
(***************************************************************************)
(* Lookups are answered from authority as it was published, and not long   *)
(* after it was replaced: for any number of revisions, any clock and any   *)
(* interleaving of the publisher with the steps of a refresh.              *)
(***************************************************************************)
EXTENDS LiveMetadata, SequenceTheorems, TLAPS

Manifests == [revision : Nat, generation : Generations, publishedAt : Nat, validUntil : Nat]

MDTypes ==
    /\ now \in Nat /\ content \in [Generations -> Contents]
    /\ issued \in Seq([manifest : Manifests, content : Contents, at : Nat])
    /\ refresh \in {"idle", "cheap", "load", "activate"}

(* Every revision is issued once, current.json is one of them, the latest  *)
(* unless an older one came back, and a directory that nobody rewrites     *)
(* holds what it was published with.                                       *)
PublishedInOrder ==
    /\ \A r \in 1..Len(issued) : issued[r].manifest.revision = r
    /\ manifest = Absent \/ \E r \in 1..Len(issued) : manifest = issued[r].manifest
    /\ "rollback" \notin faults => \/ Len(issued) = 0 /\ manifest = Absent
                                   \/ Len(issued) > 0 /\ manifest = issued[Len(issued)].manifest
    /\ "rewrite" \notin faults =>
          \A r \in 1..Len(issued) : content[issued[r].manifest.generation] = issued[r].content

(* The time at which a revision was replaced, or now.                      *)
ReplacedAt(r) == IF r < Len(issued) THEN issued[r + 1].at ELSE now

(* A manifest the Gateway accepted was issued, and was current when its    *)
(* deadline was set.                                                       *)
Traced(m) ==
    /\ m.revision \in 1..Len(issued)
    /\ m.generation = issued[m.revision].manifest.generation
    /\ m.deadline \in Int
    /\ "rollback" \notin faults => m.deadline <= ReplacedAt(m.revision) + MaxAge

AsIssued(c, r) == c # BadContent /\ ("rewrite" \notin faults => c = issued[r].content)

RefreshOnCourse ==
    /\ active.revision \in Nat
    /\ active.revision # 0 => Traced(active) /\ AsIssued(active.content, active.revision)
    /\ refresh # "idle" => Traced(candidate) /\ active.revision <= candidate.revision
    /\ refresh = "activate" => AsIssued(snapshot, candidate.revision)

(* The inductive invariant of the metadata source.                         *)
MDInv == MDTypes /\ PublishedInOrder /\ RefreshOnCourse
-----------------------------------------------------------------------------
(* Initially nothing was published and nothing is active.                  *)
LEMMA InitMetadata == MDInit => MDInv
<1> SUFFICES ASSUME MDInit PROVE MDInv
  OBVIOUS
<1> USE MetadataLimits
<1>1. MDTypes
  BY DEF MDInit, MDTypes
<1>2. PublishedInOrder
  BY DEF MDInit, PublishedInOrder
<1>3. RefreshOnCourse
  BY DEF MDInit, RefreshOnCourse, Absent
<1> QED
  BY <1>1, <1>2, <1>3 DEF MDInv

(* Publishing, a rename of current.json over the old one, leaves what was  *)
(* issued before as it was: what the Gateway accepted stays traced.        *)
LEMMA IssuedOnce ==
  ASSUME MDInv, NEW e \in [manifest : Manifests, content : Contents, at : Nat], e.at = now,
         issued' = Append(issued, e), UNCHANGED <<now, faults>>
  PROVE  /\ issued' \in Seq([manifest : Manifests, content : Contents, at : Nat])
         /\ Len(issued) \in Nat /\ Len(issued') = Len(issued) + 1
         /\ \A r \in 1..Len(issued) : issued'[r] = issued[r]
         /\ issued'[Len(issued) + 1] = e
         /\ \A r \in 1..Len(issued) : ReplacedAt(r)' = ReplacedAt(r)
<1>1. issued \in Seq([manifest : Manifests, content : Contents, at : Nat])
  BY DEF MDInv, MDTypes
<1>2. Len(issued) \in Nat
  BY <1>1, LenProperties
<1>3. /\ issued' \in Seq([manifest : Manifests, content : Contents, at : Nat])
      /\ Len(issued') = Len(issued) + 1
      /\ \A r \in 1..Len(issued) : issued'[r] = issued[r]
      /\ issued'[Len(issued) + 1] = e
  BY <1>1, AppendProperties
<1>4. ASSUME NEW r \in 1..Len(issued) PROVE ReplacedAt(r)' = ReplacedAt(r)
  <2>1. CASE r < Len(issued)
    <3>1. r + 1 \in 1..Len(issued) /\ r < Len(issued')
      BY <1>2, <1>3, <2>1
    <3> QED
      BY <1>3, <2>1, <3>1 DEF ReplacedAt
  <2>2. CASE r = Len(issued)
    <3>1. r < Len(issued') /\ ~(r < Len(issued))
      BY <1>2, <1>3, <2>2
    <3> QED
      BY <1>3, <2>2, <3>1 DEF ReplacedAt
  <2> QED
    BY <1>2, <2>1, <2>2
<1> QED
  BY <1>2, <1>3, <1>4

(* A publisher's step other than a new revision, and the clock, leave the  *)
(* accepted manifests traced.                                              *)
LEMMA TraceKept ==
  ASSUME NEW m, MDInv, Traced(m), now' \in Nat, now <= now', UNCHANGED <<issued, faults>>
  PROVE  /\ m.revision \in 1..Len(issued')
         /\ m.generation = issued'[m.revision].manifest.generation
         /\ m.deadline \in Int
         /\ "rollback" \notin faults' =>
              m.deadline <= (IF m.revision < Len(issued') THEN issued'[m.revision + 1].at ELSE now') + MaxAge
<1>1. issued \in Seq([manifest : Manifests, content : Contents, at : Nat]) /\ now \in Nat
  BY DEF MDInv, MDTypes
<1>2. /\ Len(issued) \in Nat
      /\ \A r \in 1..Len(issued) : issued[r] \in [manifest : Manifests, content : Contents, at : Nat]
  BY <1>1, LenProperties
<1>3. CASE m.revision < Len(issued)
  BY <1>3 DEF Traced, ReplacedAt
<1>4. CASE ~(m.revision < Len(issued))
  BY <1>1, <1>4, MetadataLimits DEF Traced, ReplacedAt
<1> QED
  BY <1>3, <1>4

(* Every step of the publisher, of the clock and of a refresh keeps the    *)
(* invariant.                                                              *)
LEMMA StepMetadata == MDInv /\ [MDNext]_mdVars => MDInv'
<1> SUFFICES ASSUME MDInv, [MDNext]_mdVars PROVE MDInv'
  OBVIOUS
<1> DEFINE Issues == [manifest : Manifests, content : Contents, at : Nat]
<1>0. /\ issued \in Seq(Issues) /\ now \in Nat /\ Len(issued) \in Nat
      /\ \A r \in 1..Len(issued) : issued[r] \in Issues
  BY LenProperties DEF MDInv, MDTypes
<1>1. CASE Publish
  <2>1. PICK g \in Generations, c \in Contents,
             ahead \in IF "skew" \in faults THEN {0, Skew} ELSE {0},
             lease \in IF "short" \in faults THEN {1, MaxAge + Skew} ELSE {MaxAge + Skew} :
          LET m == [revision |-> Len(issued) + 1, generation |-> g,
                    publishedAt |-> now + ahead, validUntil |-> now + ahead + lease]
          IN  /\ \A r \in DOMAIN issued : issued[r].manifest.generation = g => content[g] = c
              /\ content' = [content EXCEPT ![g] = c]
              /\ stamp' = IF content[g] = c THEN stamp ELSE [stamp EXCEPT ![g] = @ + 1]
              /\ manifest' = m
              /\ issued' = Append(issued, [manifest |-> m, content |-> c, at |-> now])
    BY <1>1, Zenon DEF Publish
  <2>a. ahead \in Nat /\ lease \in Nat
    BY MetadataLimits
  <2>2. PICK m : m = [revision |-> Len(issued) + 1, generation |-> g,
                      publishedAt |-> now + ahead, validUntil |-> now + ahead + lease]
    OBVIOUS
  <2>3. m \in Manifests /\ m.revision = Len(issued) + 1 /\ m.generation = g
    BY <1>0, <2>2, <2>a DEF Manifests
  <2>4. PICK e : e = [manifest |-> m, content |-> c, at |-> now]
    OBVIOUS
  <2>5. e \in Issues /\ e.manifest = m /\ e.content = c /\ e.at = now
    BY <1>0, <2>3, <2>4
  <2>6. /\ \A r \in 1..Len(issued) : issued[r].manifest.generation = g => content[g] = c
        /\ content' = [content EXCEPT ![g] = c] /\ manifest' = m /\ issued' = Append(issued, e)
    BY <1>0, <2>1, <2>2, <2>4, LenProperties
  <2>7. UNCHANGED <<now, refresh, candidate, snapshot, active, faults>>
    BY <1>1 DEF Publish
  <2>8. /\ issued' \in Seq(Issues) /\ Len(issued') = Len(issued) + 1
        /\ \A r \in 1..Len(issued) : issued'[r] = issued[r]
        /\ issued'[Len(issued) + 1] = e
        /\ \A r \in 1..Len(issued) : ReplacedAt(r)' = ReplacedAt(r)
    BY <2>5, <2>6, <2>7, IssuedOnce
  <2>9. MDTypes'
    BY <2>6, <2>7, <2>8 DEF MDInv, MDTypes
  <2>10. PublishedInOrder'
    <3>1. \A r \in 1..Len(issued') : r \in 1..Len(issued) \/ r = Len(issued) + 1
      BY <1>0, <2>8
    <3>2. \A r \in 1..Len(issued') : issued'[r].manifest.revision = r
      BY <2>3, <2>5, <2>8, <3>1 DEF MDInv, PublishedInOrder
    <3>3. Len(issued') \in 1..Len(issued') /\ Len(issued') > 0 /\ manifest' = issued'[Len(issued')].manifest
      BY <1>0, <2>5, <2>6, <2>8
    <3>4. ASSUME "rewrite" \notin faults', NEW r \in 1..Len(issued')
          PROVE  content'[issued'[r].manifest.generation] = issued'[r].content
      <4>1. CASE r \in 1..Len(issued)
        <5>1. issued[r].manifest.generation \in Generations /\ content \in [Generations -> Contents]
          BY <1>0, <4>1 DEF MDInv, MDTypes, Manifests
        <5>2. content[issued[r].manifest.generation] = issued[r].content
          BY <2>7, <3>4, <4>1 DEF MDInv, PublishedInOrder
        <5> QED
          BY <2>6, <2>8, <4>1, <5>1, <5>2
      <4>2. CASE r = Len(issued) + 1
        BY <2>3, <2>5, <2>6, <2>8, <4>2 DEF MDInv, MDTypes
      <4> QED
        BY <3>1, <4>1, <4>2
    <3> QED
      BY <3>2, <3>3, <3>4 DEF PublishedInOrder
  <2>11. RefreshOnCourse'
    <3>2. ASSUME Traced(active) PROVE Traced(active)'
      <4>1. /\ active.revision \in 1..Len(issued')
            /\ active.generation = issued'[active.revision].manifest.generation
            /\ active.deadline \in Int /\ active.revision \in 1..Len(issued)
            /\ "rollback" \notin faults => active.deadline <= ReplacedAt(active.revision) + MaxAge
        BY <1>0, <2>8, <3>2 DEF Traced
      <4>2. ReplacedAt(active.revision)' = ReplacedAt(active.revision)
        BY <1>0, <2>7, <2>8, <4>1 DEF ReplacedAt
      <4> QED
        BY <2>7, <4>1, <4>2 DEF Traced
    <3>3. ASSUME Traced(candidate) PROVE Traced(candidate)'
      <4>1. /\ candidate.revision \in 1..Len(issued')
            /\ candidate.generation = issued'[candidate.revision].manifest.generation
            /\ candidate.deadline \in Int /\ candidate.revision \in 1..Len(issued)
            /\ "rollback" \notin faults => candidate.deadline <= ReplacedAt(candidate.revision) + MaxAge
        BY <1>0, <2>8, <3>3 DEF Traced
      <4>2. ReplacedAt(candidate.revision)' = ReplacedAt(candidate.revision)
        BY <1>0, <2>7, <2>8, <4>1 DEF ReplacedAt
      <4> QED
        BY <2>7, <4>1, <4>2 DEF Traced
    <3>4. ASSUME NEW x, NEW r \in 1..Len(issued), AsIssued(x, r)
          PROVE  x # BadContent /\ ("rewrite" \notin faults' => x = issued'[r].content)
      BY <2>7, <2>8, <3>4 DEF AsIssued
    <3> QED
      BY <2>7, <3>2, <3>3, <3>4 DEF MDInv, RefreshOnCourse, AsIssued, Traced
  <2> QED
    BY <2>9, <2>10, <2>11 DEF MDInv
<1>2. CASE /\ UNCHANGED <<issued, refresh, candidate, snapshot, active, faults>>
           /\ now' \in Nat /\ now <= now'
           /\ MDTypes' /\ PublishedInOrder'
  <2>1. Traced(active) => Traced(active)'
    BY <1>2, TraceKept DEF Traced, ReplacedAt
  <2>2. Traced(candidate) => Traced(candidate)'
    BY <1>2, TraceKept DEF Traced, ReplacedAt
  <2> QED
    BY <1>2, <2>1, <2>2 DEF MDInv, RefreshOnCourse, AsIssued
<1>3. CASE Rollback
  <2>1. PICK r \in 1..(Len(issued) - 1) : manifest' = issued[r].manifest
    BY <1>3 DEF Rollback
  <2>2. r \in 1..Len(issued)
    BY <1>0
  <2>3. MDTypes'
    BY <1>3 DEF Rollback, MDInv, MDTypes
  <2>4. PublishedInOrder'
    BY <1>3, <2>1, <2>2 DEF Rollback, MDInv, PublishedInOrder
  <2> QED
    BY <1>0, <1>2, <1>3, <2>3, <2>4 DEF Rollback
<1>4. CASE Rewrite
  <2>1. PICK c \in Contents : content' = [content EXCEPT ![manifest.generation] = c]
    BY <1>4 DEF Rewrite
  <2>2. MDTypes'
    BY <1>4, <2>1 DEF Rewrite, MDInv, MDTypes
  <2>3. PublishedInOrder'
    BY <1>4 DEF Rewrite, MDInv, PublishedInOrder
  <2> QED
    BY <1>0, <1>2, <1>4, <2>2, <2>3 DEF Rewrite
<1>5. CASE MDTick
  <2>1. now' \in Nat /\ now <= now'
    BY <1>0, <1>5 DEF MDTick
  <2>2. MDTypes'
    BY <1>5, <2>1 DEF MDTick, MDInv, MDTypes
  <2>3. PublishedInOrder'
    BY <1>5 DEF MDTick, MDInv, PublishedInOrder
  <2> QED
    BY <1>2, <1>5, <2>1, <2>2, <2>3 DEF MDTick
<1>6. CASE UNCHANGED mdVars
  <2>1. MDTypes'
    BY <1>6 DEF mdVars, MDInv, MDTypes
  <2>2. PublishedInOrder'
    BY <1>6 DEF mdVars, MDInv, PublishedInOrder
  <2> QED
    BY <1>0, <1>2, <1>6, <2>1, <2>2 DEF mdVars
<1>7. ASSUME UNCHANGED <<now, content, manifest, issued, faults>>,
             refresh' \in {"idle", "cheap", "load", "activate"}
      PROVE  /\ MDTypes' /\ PublishedInOrder'
             /\ \A r : ReplacedAt(r)' = ReplacedAt(r)
             /\ UNCHANGED active /\ Traced(active) => Traced(active)'
             /\ UNCHANGED candidate /\ Traced(candidate) => Traced(candidate)'
  <2>1. MDTypes'
    BY <1>7 DEF MDInv, MDTypes
  <2>2. PublishedInOrder'
    BY <1>7 DEF MDInv, PublishedInOrder
  <2>3. \A r : ReplacedAt(r)' = ReplacedAt(r)
    BY <1>7 DEF ReplacedAt
  <2>4. UNCHANGED active /\ Traced(active) => Traced(active)'
    BY <1>7 DEF Traced, ReplacedAt
  <2>5. UNCHANGED candidate /\ Traced(candidate) => Traced(candidate)'
    BY <1>7 DEF Traced, ReplacedAt
  <2> QED
    BY <2>1, <2>2, <2>3, <2>4, <2>5
<1>8. ASSUME refresh' = "idle", UNCHANGED <<active, now, content, manifest, issued, faults>>
      PROVE  MDInv'
  BY <1>7, <1>8 DEF MDInv, RefreshOnCourse, AsIssued
<1>9. CASE ReadManifest
  <2>1. UNCHANGED <<now, content, manifest, issued, faults>>
    BY <1>9 DEF ReadManifest
  <2>2. CASE Acceptable(manifest) /\ NotOlder(manifest)
    <3>1. /\ candidate' = [revision |-> manifest.revision, generation |-> manifest.generation,
                           publishedAt |-> manifest.publishedAt,
                           validUntil |-> manifest.validUntil, deadline |-> Deadline(manifest)]
          /\ refresh' \in {"cheap", "load"} /\ UNCHANGED active
      BY <1>9, <2>2 DEF ReadManifest
    <3>2. PICK r \in 1..Len(issued) : manifest = issued[r].manifest /\ manifest.revision = r
      BY <2>2 DEF MDInv, PublishedInOrder, Acceptable, Absent
    <3>3. manifest \in Manifests
      BY <1>0, <3>2
    <3>4. Deadline(manifest) \in Int /\ Deadline(manifest) <= now + MaxAge
      <4>1. manifest.validUntil \in Nat /\ manifest.publishedAt \in Nat
        BY <3>3 DEF Manifests
      <4> QED
        BY <1>0, <4>1, MetadataLimits DEF Deadline, Min2
    <3>5. "rollback" \notin faults => ReplacedAt(r) = now
      BY <1>0, <3>2 DEF MDInv, PublishedInOrder, ReplacedAt
    <3>6. Traced(candidate)'
      BY <1>7, <2>1, <3>1, <3>2, <3>4, <3>5 DEF Traced, ReplacedAt
    <3>7. active.revision <= candidate'.revision
      BY <1>0, <2>2, <3>1, <3>2 DEF NotOlder
    <3> QED
      BY <1>7, <2>1, <3>1, <3>6, <3>7 DEF MDInv, RefreshOnCourse, AsIssued
  <2>3. CASE ~(Acceptable(manifest) /\ NotOlder(manifest))
    BY <1>8, <1>9, <2>1, <2>3 DEF ReadManifest, Fail
  <2> QED
    BY <2>2, <2>3
<1>10. CASE CheapPath
  <2>1. UNCHANGED <<now, content, manifest, issued, faults, active>>
    BY <1>10 DEF CheapPath, Succeed
  <2>2. CASE refresh' = "idle"
    BY <1>8, <2>1, <2>2
  <2>3. CASE refresh' = "load" /\ UNCHANGED <<candidate, snapshot>>
    BY <1>7, <1>10, <2>1, <2>3 DEF CheapPath, MDInv, RefreshOnCourse, AsIssued
  <2> QED
    BY <1>10, <2>2, <2>3 DEF CheapPath, Succeed
<1>11. CASE LoadGeneration
  <2>1. UNCHANGED <<now, content, manifest, issued, faults, active>>
    BY <1>11 DEF LoadGeneration, Fail
  <2>2. CASE refresh' = "idle"
    BY <1>8, <2>1, <2>2
  <2>3. CASE /\ content[candidate.generation] # BadContent
             /\ snapshot' = content[candidate.generation] /\ refresh' = "activate"
             /\ UNCHANGED candidate
    <3>1. Traced(candidate) /\ active.revision <= candidate.revision
      BY <1>11 DEF LoadGeneration, MDInv, RefreshOnCourse
    <3>2. AsIssued(snapshot', candidate.revision)
      BY <2>3, <3>1 DEF AsIssued, Traced, MDInv, PublishedInOrder
    <3> QED
      BY <1>7, <2>1, <2>3, <3>1, <3>2 DEF MDInv, RefreshOnCourse, AsIssued
  <2> QED
    BY <1>11, <2>2, <2>3 DEF LoadGeneration, Fail
<1>12. CASE Activate
  <2>1. UNCHANGED <<now, content, manifest, issued, faults>> /\ refresh' = "idle"
    BY <1>12 DEF Activate, Succeed, Fail
  <2>2. CASE UNCHANGED active
    BY <1>8, <2>1, <2>2
  <2>3. CASE active' = [revision |-> candidate.revision, generation |-> candidate.generation,
                        publishedAt |-> candidate.publishedAt, validUntil |-> candidate.validUntil,
                        deadline |-> candidate.deadline, content |-> snapshot,
                        stamp |-> stamp[candidate.generation]]
    <3>1. Traced(candidate) /\ AsIssued(snapshot, candidate.revision)
      BY <1>12 DEF Activate, MDInv, RefreshOnCourse
    <3>2. Traced(active)'
      BY <1>7, <2>1, <2>3, <3>1 DEF Traced, ReplacedAt
    <3>3. AsIssued(active.content, active.revision)'
      BY <2>1, <2>3, <3>1 DEF AsIssued
    <3>4. active'.revision \in Nat
      BY <2>3, <3>1 DEF Traced
    <3> QED
      BY <1>7, <2>1, <3>2, <3>3, <3>4 DEF MDInv, RefreshOnCourse
  <2> QED
    BY <1>12, <2>2, <2>3 DEF Activate, Succeed, Fail
<1> QED
  BY <1>1, <1>3, <1>4, <1>5, <1>6, <1>9, <1>10, <1>11, <1>12 DEF MDNext, Refresh

-----------------------------------------------------------------------------
(* For any number of revisions, any clock skew within the allowance and    *)
(* every interleaving of the publisher with refreshAt: what lookups are    *)
(* answered from was published complete under the active revision, and     *)
(* authority that was replaced is withdrawn within maxSnapshotAge.         *)
THEOREM LookupsStayCurrent == MDSpec => []LookupsAreCurrent
<1>1. MDInv => LookupsAreCurrent
  <2> SUFFICES ASSUME MDInv, Available PROVE LookupsAreCurrent
    BY DEF LookupsAreCurrent, AnswersAsPublished, WithdrawnWithinMaxAge
  <2>1. Traced(active) /\ AsIssued(active.content, active.revision)
    BY DEF MDInv, RefreshOnCourse, Available
  <2>2. AnswersAsPublished
    BY <2>1 DEF AnswersAsPublished, AsIssued
  <2>3. WithdrawnWithinMaxAge
    <3> SUFFICES ASSUME active.revision < Len(issued), "rollback" \notin faults
                 PROVE  now < issued[active.revision + 1].at + MaxAge
      BY DEF WithdrawnWithinMaxAge
    <3>1. Len(issued) \in Nat /\ issued \in [1..Len(issued) -> [manifest : Manifests, content : Contents, at : Nat]]
      BY LenProperties DEF MDInv, MDTypes
    <3>2. active.revision + 1 \in 1..Len(issued)
      BY <2>1, <3>1 DEF Traced
    <3>3. issued[active.revision + 1].at \in Nat
      BY <3>1, <3>2
    <3>4. active.deadline \in Int /\ active.deadline <= issued[active.revision + 1].at + MaxAge
      BY <2>1 DEF Traced, ReplacedAt
    <3> QED
      BY <3>3, <3>4, MetadataLimits DEF Available, MDInv, MDTypes
  <2> QED
    BY <2>2, <2>3 DEF LookupsAreCurrent
<1> QED
  BY <1>1, InitMetadata, StepMetadata, PTL DEF MDSpec

(* Once accepted, a revision is frozen: no step of a refresh replaces it   *)
(* by a lower one or changes its content, lease or deadline, whatever the  *)
(* publisher restores or rewrites meanwhile.                               *)
THEOREM AcceptedRevisionFrozen == MDSpec => AcceptedIsFrozen
<1>1. MDInv /\ [MDNext]_mdVars =>
        [/\ active.revision <= active'.revision
         /\ active.revision = active'.revision => active' = active]_active
  <2> SUFFICES ASSUME MDInv, [MDNext]_mdVars, active' # active
               PROVE  active.revision <= active'.revision /\ active.revision # active'.revision
    OBVIOUS
  <2>1. Activate
    BY DEF MDNext, Publish, Rollback, Rewrite, MDTick, Refresh, ReadManifest, CheapPath,
           LoadGeneration, Fail, Succeed, mdVars
  <2>2. active'.revision = candidate.revision /\ active.revision # candidate.revision
    BY <2>1 DEF Activate, Succeed, Fail
  <2>3. active.revision <= candidate.revision
    BY <2>1 DEF Activate, MDInv, RefreshOnCourse
  <2> QED
    BY <2>2, <2>3
<1> QED
  BY <1>1, InitMetadata, StepMetadata, PTL DEF MDSpec, AcceptedIsFrozen
=============================================================================
