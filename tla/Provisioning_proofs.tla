------------------------ MODULE Provisioning_proofs ------------------------
(***************************************************************************)
(* Machine-checked proofs about Provisioning, for every number of claims,  *)
(* Spaces and filesystem IDs and all StorageClasses.                       *)
(***************************************************************************)
EXTENDS Provisioning, TLAPS

Statuses == {"none", "creating", "active", "gone"}

\* The fields of a filesystem that exists.
LEMMA ExistingType ==
  ASSUME NEW f \in FS
  PROVE  /\ f.status \in Statuses
         /\ f.status \in {"creating", "active"} =>
              /\ f.space \in Spaces /\ f.label \in Labels /\ f.tags \in Tags
              /\ f.squash \in Squashes /\ f.maker \in Claims \union {Outside}
         /\ f.status # "none" => f.maker \in Claims \union {Outside}
BY DEF FS, Statuses

LEMMA MadeType ==
  ASSUME NEW status \in {"creating", "active"}, NEW space \in Spaces, NEW label \in Labels,
         NEW tags \in Tags, NEW squash \in Squashes, NEW maker \in Claims \union {Outside}
  PROVE  [status |-> status, space |-> space, label |-> label, tags |-> tags,
          squash |-> squash, maker |-> maker] \in FS
BY DEF FS

LEMMA GoneType ==
  ASSUME NEW maker \in Claims \union {Outside}
  PROVE  [status |-> "gone", maker |-> maker] \in FS
BY DEF FS

LEMMA ClassType ==
  ASSUME NEW params \in Classes
  PROVE  params.tags \in Tags /\ params.squash \in Squashes \union {Unset}
BY ClassesAssumption

LEMMA IdleType ==
  /\ Idle \in Call /\ Idle.pc = "idle"
  /\ NoParams \in Classes \union {NoParams}
BY DEF Idle, Call

-----------------------------------------------------------------------------
(* What a step does to the filesystems.                                     *)

\* Nobody but the one that makes a filesystem gives it an identity: an ID, once
\* used, is never used again, and what exists keeps Space, label, tags, maker.
SameIdentity(i) ==
  /\ fs'[i].space = fs[i].space /\ fs'[i].label = fs[i].label
  /\ fs'[i].tags = fs[i].tags /\ fs'[i].maker = fs[i].maker

FsFrame ==
  /\ fs' \in [Ids -> FS]
  /\ \A i \in Ids : fs[i].status # "none" => fs'[i].status # "none"
  /\ \A i \in Ids : fs[i].status \notin {"none", "creating"} => fs'[i].status # "creating"
  /\ \A i \in Ids : fs[i].status # "none" /\ Exists(i)' => Exists(i) /\ SameIdentity(i)

\* At most one filesystem is made, of one maker in one Space, under a free label.
MakesOne(maker, space, label) ==
  \A i \in Ids : Exists(i)' /\ fs[i].status = "none" =>
    /\ fs'[i].maker = maker /\ fs'[i].space = space /\ fs'[i].label = label
    /\ Labelled(space, label) = {}
    /\ \A j \in Ids : Exists(j)' /\ fs[j].status = "none" => j = i

MakesNone == \A i \in Ids : Exists(i)' => Exists(i)

FsInv == fs \in [Ids -> FS] /\ LabelsUnique /\ MadeUnderOwnLabel

LEMMA MakeEffect ==
  ASSUME fs \in [Ids -> FS], NEW i \in Ids, NEW status \in {"creating", "active"},
         NEW space \in Spaces, NEW label \in Labels, NEW tags \in Tags,
         NEW squash \in Squashes, NEW maker \in Claims \union {Outside},
         Labelled(space, label) = {}, Make(i, space, label, tags, squash, status, maker)
  PROVE  /\ FsFrame /\ MakesOne(maker, space, label)
         /\ fs'[i].status = status /\ fs'[i].tags = tags
         /\ fs'[i].space = space /\ fs'[i].label = label
         /\ \A j \in Ids : fs[j].status # "none" => fs'[j] = fs[j]
<1> DEFINE new == [status |-> status, space |-> space, label |-> label, tags |-> tags,
                   squash |-> squash, maker |-> maker]
<1>1. new \in FS
  BY MadeType
<1>2. /\ fs' \in [Ids -> FS] /\ fs'[i] = new /\ fs[i].status = "none"
      /\ \A j \in Ids : j # i => fs'[j] = fs[j]
  BY <1>1 DEF Make
<1>3. FsFrame
  BY <1>2 DEF FsFrame, SameIdentity, Exists
<1>4. MakesOne(maker, space, label)
  BY <1>2 DEF MakesOne, Exists
<1> QED BY <1>2, <1>3, <1>4

LEMMA UpdateEffect ==
  ASSUME fs \in [Ids -> FS], NEW i \in Ids, Exists(i), NEW squash \in Squashes, Update(i, squash)
  PROVE  /\ FsFrame /\ MakesNone
         /\ fs'[i].status = "active" /\ fs'[i].squash = squash /\ SameIdentity(i)
         /\ \A j \in Ids : j # i => fs'[j] = fs[j]
<1> DEFINE new == [status |-> "active", space |-> fs[i].space, label |-> fs[i].label,
                   tags |-> fs[i].tags, squash |-> squash, maker |-> fs[i].maker]
<1>1. new \in FS
  BY ExistingType, MadeType DEF Exists
<1>2. /\ fs' \in [Ids -> FS] /\ fs'[i] = new
      /\ \A j \in Ids : j # i => fs'[j] = fs[j]
  BY <1>1 DEF Update
<1>3. FsFrame /\ MakesNone /\ SameIdentity(i)
  BY <1>2 DEF FsFrame, MakesNone, SameIdentity, Exists
<1> QED BY <1>2, <1>3

LEMMA RemoveEffect ==
  ASSUME fs \in [Ids -> FS], NEW i \in Ids, Remove(i)
  PROVE  /\ FsFrame /\ MakesNone /\ fs'[i].status = "gone"
         /\ \A j \in Ids : j # i => fs'[j] = fs[j]
<1>1. [status |-> "gone", maker |-> fs[i].maker] \in FS
  BY ExistingType, GoneType DEF Remove, Exists
<1>2. /\ fs' \in [Ids -> FS] /\ fs'[i].status = "gone"
      /\ \A j \in Ids : j # i => fs'[j] = fs[j]
  BY <1>1 DEF Remove
<1>3. FsFrame /\ MakesNone
  BY <1>2 DEF FsFrame, MakesNone, SameIdentity, Exists, Remove
<1> QED BY <1>2, <1>3

LEMMA SameEffect ==
  ASSUME fs \in [Ids -> FS], UNCHANGED fs
  PROVE  FsFrame /\ MakesNone
BY DEF FsFrame, MakesNone, SameIdentity, Exists

\* The labels of a Space stay unique.
LEMMA FsInvKept ==
  ASSUME FsInv, FsFrame,
         \/ MakesNone
         \/ \E maker \in Claims \union {Outside}, space \in Spaces, label \in Labels :
              /\ MakesOne(maker, space, label)
              /\ maker \in Claims => label = LabelOf[maker]
  PROVE  FsInv'
<1>1. CASE MakesNone
  <2>1. \A i \in Ids : Exists(i)' => Exists(i) /\ SameIdentity(i)
    BY <1>1 DEF FsFrame, MakesNone, Exists
  <2> QED BY <2>1 DEF FsInv, LabelsUnique, MadeUnderOwnLabel, SameIdentity, FsFrame
<1>2. ASSUME NEW maker \in Claims \union {Outside}, NEW space \in Spaces, NEW label \in Labels,
             MakesOne(maker, space, label), maker \in Claims => label = LabelOf[maker]
      PROVE  FsInv'
  <2>1. \A i \in Ids : Exists(i)' /\ fs[i].status # "none" => Exists(i) /\ SameIdentity(i)
    BY DEF FsFrame
  <2>2. LabelsUnique'
    <3> SUFFICES ASSUME NEW i \in Ids, NEW j \in Ids, Exists(i)', Exists(j)',
                        fs'[i].space = fs'[j].space, fs'[i].label = fs'[j].label
                 PROVE  i = j
      BY DEF LabelsUnique
    <3>1. CASE fs[i].status # "none" /\ fs[j].status # "none"
      BY <2>1, <3>1 DEF FsInv, LabelsUnique, SameIdentity
    <3>2. CASE fs[i].status = "none" /\ fs[j].status = "none"
      BY <1>2, <3>2 DEF MakesOne
    <3>3. CASE fs[i].status = "none" /\ fs[j].status # "none"
      BY <1>2, <2>1, <3>3 DEF MakesOne, Labelled, SameIdentity
    <3>4. CASE fs[i].status # "none" /\ fs[j].status = "none"
      BY <1>2, <2>1, <3>4 DEF MakesOne, Labelled, SameIdentity
    <3> QED BY <3>1, <3>2, <3>3, <3>4
  <2>3. MadeUnderOwnLabel'
    BY <1>2, <2>1 DEF MakesOne, FsInv, MadeUnderOwnLabel, SameIdentity
  <2> QED BY <2>2, <2>3 DEF FsInv, FsFrame
<1> QED BY <1>1, <1>2

LEMMA CreateEffect ==
  ASSUME fs \in [Ids -> FS], NEW c \in Claims, NEW space \in Spaces, NEW params \in Classes,
         NEW i \in Ids, Create(c, space, params, i)
  PROVE  /\ FsFrame /\ (MakesNone \/ MakesOne(c, space, LabelOf[c]))
         /\ fs'[i].status # "none"
         /\ fs'[i].space = space /\ fs'[i].label = LabelOf[c] /\ fs'[i].tags = params.tags
         /\ \A j \in Ids : fs[j].status # "none" => fs'[j] = fs[j]
<1>0. params.tags \in Tags /\ LabelOf[c] \in Labels
  BY ClassType, LabelOfAssumption
<1>1. CASE i \in Labelled(space, LabelOf[c]) /\ fs[i].tags = params.tags /\ UNCHANGED fs
  BY <1>1, SameEffect DEF Labelled, Exists
<1>2. CASE /\ Labelled(space, LabelOf[c]) = {}
           /\ Make(i, space, LabelOf[c], params.tags, Default, "creating", c)
  <2>1. fs'[i].status = "creating"
    BY <1>0, <1>2, MakeEffect, DefaultAssumption
  <2> QED BY <1>0, <1>2, <2>1, MakeEffect, DefaultAssumption
<1> QED BY <1>1, <1>2 DEF Create

-----------------------------------------------------------------------------
(* A step of one claim, and a step of the service.                          *)

ClaimStates == {"none", "wanted", "withdrawn", "bound", "released", "gone"}
Volume == [id: Ids \union {NoId}, params: Classes \union {NoParams}]

PolicyTypes == latePuts \subseteq Claims \X Ids \X Squashes /\ overwritten \subseteq Ids

ClaimTypes ==
  /\ call \in [Claims -> Call]
  /\ claim \in [Claims -> ClaimStates]
  /\ pv \in [Claims -> Volume]
  /\ unsure \subseteq Claims
  /\ late \subseteq Claims \X Spaces \X Classes
  /\ PolicyTypes
  /\ abandoned \subseteq Claims

\* The other claims are left alone.
OnlyClaim(c) ==
  \A d \in Claims : d # c =>
    /\ call'[d] = call[d] /\ claim'[d] = claim[d] /\ pv'[d] = pv[d]
    /\ d \in unsure' <=> d \in unsure
    /\ d \in abandoned => d \in abandoned'

\* What the filesystems still are to a claim that took no step.
LEMMA KnowledgeKept ==
  ASSUME IInv, FsFrame, NEW d \in Claims,
         call'[d] = call[d], claim'[d] = claim[d], pv'[d] = pv[d]
  PROVE  /\ FieldsSet(d)' /\ CallKnows(d)' /\ VolumeKnows(d)'
<1>1. FieldsSet(d) /\ CallKnows(d) /\ VolumeKnows(d)
  BY DEF IInv, TypeOK
<1>2. FieldsSet(d)'
  BY <1>1 DEF FieldsSet
<1>3. CallKnows(d)'
  <2>1. call[d].pc \in Waiting \union Finalizing => call[d].id \in Ids
    BY <1>1 DEF FieldsSet
  <2> QED BY <1>1, <2>1 DEF CallKnows, FsFrame, SameIdentity, Waiting, Finalizing
<1>4. VolumeKnows(d)'
  <2>1. claim[d] \in {"bound", "released"} => pv[d].id \in Ids
    BY <1>1 DEF FieldsSet
  <2> QED BY <1>1, <2>1 DEF VolumeKnows, FsFrame, SameIdentity, Exists
<1> QED BY <1>2, <1>3, <1>4

LEMMA ReachKept ==
  ASSUME IInv, FsFrame, NEW d \in Claims,
         call'[d] = call[d], claim'[d] = claim[d], pv'[d] = pv[d],
         d \in unsure' <=> d \in unsure, d \in abandoned => d \in abandoned',
         \/ MakesNone
         \/ \E maker, space, label : MakesOne(maker, space, label) /\ (maker # d \/ d \in abandoned)
  PROVE  InReach(d)'
<1> SUFFICES ASSUME d \notin abandoned', NEW i \in Ids, Exists(i)', fs'[i].maker = d
             PROVE  /\ d \in unsure' \/ claim'[d] \in {"bound", "released"}
                    /\ call'[d].pc \notin {"idle", "resolve"} => fs'[i].space = call'[d].space
                    /\ call'[d].pc \in Waiting \union Finalizing => i = call'[d].id
                    /\ claim'[d] \in {"bound", "released"} => i = pv'[d].id
  BY DEF InReach
<1>1. fs[i].status # "none"
  BY DEF MakesNone, MakesOne, Exists
<1>2. Exists(i) /\ fs[i].maker = d /\ fs'[i].space = fs[i].space
  BY <1>1 DEF FsFrame, SameIdentity
<1> QED BY <1>2 DEF IInv, InReach

LEMMA ClaimStepKeeps ==
  ASSUME IInv, NEW c \in Claims, ClaimTypes', class' \in Classes,
         FsFrame, OnlyClaim(c),
         MakesNone \/ \E space \in Spaces : MakesOne(c, space, LabelOf[c]),
         FieldsSet(c)', Remembered(c)', CallKnows(c)', VolumeKnows(c)', InReach(c)',
         LateIsAbandoned'
  PROVE  IInv'
<1>1. FsInv'
  <2>1. LabelOf[c] \in Labels
    BY LabelOfAssumption
  <2> QED BY <2>1, FsInvKept DEF IInv, FsInv, TypeOK
<1>2. ASSUME NEW d \in Claims, d # c
      PROVE  FieldsSet(d)' /\ Remembered(d)' /\ CallKnows(d)' /\ VolumeKnows(d)' /\ InReach(d)'
  <2>1. /\ call'[d] = call[d] /\ claim'[d] = claim[d] /\ pv'[d] = pv[d]
        /\ d \in unsure' <=> d \in unsure
        /\ d \in abandoned => d \in abandoned'
    BY <1>2 DEF OnlyClaim
  <2>2. Remembered(d)'
    BY <2>1 DEF IInv, Remembered
  <2>3. InReach(d)'
    BY <1>2, <2>1, ReachKept
  <2> QED BY <2>1, <2>2, <2>3, KnowledgeKept
<1>3. TypeOK'
  BY <1>1, <1>2 DEF TypeOK, ClaimTypes, PolicyTypes, FsInv, ClaimStates, Volume
<1> QED BY <1>1, <1>2, <1>3 DEF IInv, FsInv

\* The service, or somebody else, changes filesystems; and a POST or a PUT is
\* applied late.
LEMMA ServiceStepKeeps ==
  ASSUME IInv, FsFrame, class' \in Classes, UNCHANGED <<call, claim, unsure, pv, abandoned>>,
         late' \subseteq late, PolicyTypes',
         \/ MakesNone
         \/ \E maker \in abandoned \union {Outside}, space \in Spaces, label \in Labels :
              /\ MakesOne(maker, space, label)
              /\ maker \in Claims => label = LabelOf[maker]
  PROVE  IInv'
<1>0. abandoned \subseteq Claims
  BY DEF IInv, TypeOK
<1>1. FsInv'
  BY <1>0, FsInvKept DEF IInv, FsInv, TypeOK
<1>2. ASSUME NEW d \in Claims
      PROVE  FieldsSet(d)' /\ Remembered(d)' /\ CallKnows(d)' /\ VolumeKnows(d)' /\ InReach(d)'
  <2>1. Remembered(d)'
    BY DEF IInv, Remembered
  <2>2. InReach(d)'
    BY OutsideAssumption, ReachKept
  <2> QED BY <2>1, <2>2, KnowledgeKept
<1>3. TypeOK' /\ LateIsAbandoned'
  BY <1>1, <1>2 DEF IInv, TypeOK, PolicyTypes, FsInv, LateIsAbandoned
<1> QED BY <1>1, <1>2, <1>3 DEF IInv, FsInv

LEMMA TypesNow ==
  ASSUME IInv
  PROVE  /\ ClaimTypes /\ class \in Classes /\ fs \in [Ids -> FS]
         /\ \A c \in Claims :
              /\ FieldsSet(c) /\ Remembered(c) /\ CallKnows(c) /\ VolumeKnows(c) /\ InReach(c)
BY DEF IInv, TypeOK, ClaimTypes, PolicyTypes, ClaimStates, Volume

\* Most steps leave the held PUTs and what they changed alone.
LEMMA SamePolicies ==
  ASSUME PolicyTypes, UNCHANGED policyVars
  PROVE  PolicyTypes'
BY DEF PolicyTypes, policyVars

-----------------------------------------------------------------------------
(* The csi-provisioner's steps.                                             *)

LEMMA WishKeeps ==
  ASSUME IInv, NEW c \in Claims, Want(c) \/ Withdraw(c) \/ ReleaseClaim(c)
  PROVE  IInv'
<1> USE TypesNow
<1>1. /\ UNCHANGED <<fs, class, call, unsure, pv, late, policyVars, abandoned>>
      /\ claim' \in [Claims -> ClaimStates]
      /\ \A d \in Claims : d # c => claim'[d] = claim[d]
      /\ \/ claim[c] = "none" /\ claim'[c] = "wanted"
         \/ claim[c] = "wanted" /\ c \in unsure /\ claim'[c] = "withdrawn"
         \/ claim[c] = "wanted" /\ c \notin unsure /\ claim'[c] = "gone"
         \/ claim[c] = "bound" /\ claim'[c] = "released"
  BY DEF Want, Withdraw, ReleaseClaim, ClaimTypes, ClaimStates
<1>2. FsFrame /\ MakesNone
  BY <1>1, SameEffect
<1>3. ClaimTypes' /\ OnlyClaim(c) /\ LateIsAbandoned'
  BY <1>1, SamePolicies DEF ClaimTypes, OnlyClaim, IInv, LateIsAbandoned
<1>4. FieldsSet(c)' /\ Remembered(c)'
  BY <1>1 DEF FieldsSet, Remembered
<1>5. CallKnows(c)'
  BY <1>1 DEF CallKnows, Exists
<1>6. VolumeKnows(c)'
  BY <1>1 DEF VolumeKnows, Exists
<1>7. InReach(c)'
  BY <1>1 DEF InReach, Exists
<1> QED BY <1>1, <1>2, <1>3, <1>4, <1>5, <1>6, <1>7, ClaimStepKeeps

LEMMA CallArrives ==
  ASSUME IInv, NEW c \in Claims, CreateVolumeCall(c)
  PROVE  IInv'
<1> USE TypesNow
<1> DEFINE new == [pc |-> "resolve", space |-> Unset, id |-> NoId, params |-> class]
<1>1. new \in Call
  BY DEF Call
<1>2. /\ UNCHANGED <<fs, class, claim, pv, late, policyVars, abandoned>>
      /\ call' \in [Claims -> Call] /\ call'[c] = new
      /\ \A d \in Claims : d # c => call'[d] = call[d]
      /\ unsure' = unsure \union {c} /\ claim[c] \in {"wanted", "withdrawn"}
  BY <1>1 DEF CreateVolumeCall, ClaimTypes
<1>3. FsFrame /\ MakesNone
  BY <1>2, SameEffect
<1>4. ClaimTypes' /\ OnlyClaim(c) /\ LateIsAbandoned'
  BY <1>2, SamePolicies DEF ClaimTypes, OnlyClaim, IInv, LateIsAbandoned
<1>5. FieldsSet(c)' /\ Remembered(c)' /\ CallKnows(c)' /\ VolumeKnows(c)'
  BY <1>2 DEF FieldsSet, Remembered, CallKnows, VolumeKnows, Waiting, Finalizing
<1>6. InReach(c)'
  BY <1>2 DEF InReach, Exists, Waiting, Finalizing
<1> QED BY <1>2, <1>3, <1>4, <1>5, <1>6, ClaimStepKeeps

-----------------------------------------------------------------------------
(* The ends of a call.                                                      *)

\* The service takes a POST into its hands only for a claim that counts as abandoned.
LateFrame(c) ==
  /\ late' \subseteq Claims \X Spaces \X Classes
  /\ \A w \in late' : w \in late \/ (w[1] = c /\ c \in abandoned')

\* After an error that is retried the claim still remembers the call.
LEMMA RetriableKeeps ==
  ASSUME IInv, NEW c \in Claims, call[c].pc # "idle", ReturnRetriable(c),
         FsFrame, MakesNone \/ (MakesOne(c, call[c].space, LabelOf[c]) /\ call[c].space \in Spaces),
         abandoned' \in {abandoned, abandoned \union {c}}, LateFrame(c), PolicyTypes'
  PROVE  IInv'
<1> USE TypesNow
<1>1. /\ UNCHANGED <<class, claim, unsure, pv>>
      /\ call' \in [Claims -> Call] /\ call'[c] = Idle
      /\ \A d \in Claims : d # c => call'[d] = call[d]
  BY IdleType DEF ReturnRetriable, ClaimTypes
<1>2. ClaimTypes' /\ OnlyClaim(c) /\ LateIsAbandoned'
  BY <1>1 DEF ClaimTypes, OnlyClaim, IInv, LateIsAbandoned, LateFrame
<1>3. c \in unsure /\ claim[c] \notin {"bound", "released"}
  BY DEF Remembered
<1>4. FieldsSet(c)' /\ Remembered(c)' /\ CallKnows(c)' /\ VolumeKnows(c)' /\ InReach(c)'
  BY <1>1, <1>3, IdleType
  DEF FieldsSet, Remembered, CallKnows, VolumeKnows, InReach, Waiting, Finalizing
<1> QED BY <1>1, <1>2, <1>4, ClaimStepKeeps

\* After a final error the claim counts as abandoned.
LEMMA FinalKeeps ==
  ASSUME IInv, NEW c \in Claims, call[c].pc # "idle", ReturnFinal(c),
         FsFrame, MakesNone \/ (MakesOne(c, call[c].space, LabelOf[c]) /\ call[c].space \in Spaces),
         abandoned' = abandoned \union {c}, LateFrame(c), PolicyTypes'
  PROVE  IInv'
<1> USE TypesNow
<1>1. /\ UNCHANGED <<class, pv>> /\ unsure' = unsure \ {c}
      /\ call' \in [Claims -> Call] /\ call'[c] = Idle
      /\ \A d \in Claims : d # c => call'[d] = call[d] /\ claim'[d] = claim[d]
      /\ claim' \in [Claims -> ClaimStates]
      /\ claim'[c] = IF claim[c] = "withdrawn" THEN "gone" ELSE claim[c]
  BY IdleType DEF ReturnFinal, ClaimTypes, ClaimStates
<1>2. ClaimTypes' /\ OnlyClaim(c) /\ LateIsAbandoned'
  BY <1>1 DEF ClaimTypes, OnlyClaim, IInv, LateIsAbandoned, LateFrame
<1>3. c \in unsure /\ claim[c] \in {"wanted", "withdrawn"}
  BY DEF Remembered
<1>4. FieldsSet(c)' /\ Remembered(c)' /\ CallKnows(c)' /\ VolumeKnows(c)' /\ InReach(c)'
  BY <1>1, <1>3, IdleType
  DEF FieldsSet, Remembered, CallKnows, VolumeKnows, InReach, Waiting, Finalizing
<1> QED BY <1>1, <1>2, <1>4, ClaimStepKeeps

-----------------------------------------------------------------------------
(* The steps of a call.                                                     *)

\* The call holds whatever was made for its claim.
Holds(c, id) ==
  c \in abandoned' \/ \A i \in Ids : Exists(i)' /\ fs'[i].maker = c => i = id

LEMMA GoesOnKeeps ==
  ASSUME IInv, NEW c \in Claims, call[c].pc # "idle",
         NEW pc \in {"list", "post"} \union Waiting \union Finalizing,
         NEW space \in Spaces, NEW id \in Ids \union {NoId},
         pc \in Waiting \union Finalizing => id \in Ids,
         pc \in Finalizing \ {"answer"} => call[c].params.squash # Unset,
         call' = [call EXCEPT ![c] = [pc |-> pc, space |-> space, id |-> id,
                                      params |-> call[c].params]],
         UNCHANGED <<class, claim, unsure, pv, late>>, PolicyTypes',
         abandoned' \in {abandoned, abandoned \union {c}},
         FsFrame, MakesNone \/ MakesOne(c, space, LabelOf[c]),
         SpacesOf[call[c].params.space] = {space},
         pc \in Finalizing => fs'[id].status # "creating",
         pc \in Waiting \union Finalizing =>
           /\ fs'[id].status # "none"
           /\ Exists(id)' =>
                /\ fs'[id].space = space /\ fs'[id].label = LabelOf[c]
                /\ pc # "waitexisting" => fs'[id].tags = call[c].params.tags,
         pc \in Waiting \union Finalizing => Holds(c, id),
         \/ c \in abandoned'
         \/ \A i \in Ids : Exists(i) /\ fs[i].maker = c => fs[i].space = space
  PROVE  IInv'
<1> USE TypesNow
<1> DEFINE new == [pc |-> pc, space |-> space, id |-> id, params |-> call[c].params]
<1>1. new \in Call /\ call[c].params \in Classes
  BY DEF Call, FieldsSet
<1>2. /\ call' \in [Claims -> Call] /\ call'[c] = new
      /\ \A d \in Claims : d # c => call'[d] = call[d]
  BY <1>1 DEF ClaimTypes
<1>3. ClaimTypes' /\ OnlyClaim(c) /\ LateIsAbandoned'
  BY <1>2 DEF ClaimTypes, OnlyClaim, IInv, LateIsAbandoned
<1>4. c \in unsure /\ claim[c] \in {"wanted", "withdrawn"}
  BY DEF Remembered
<1>5. FieldsSet(c)' /\ Remembered(c)' /\ VolumeKnows(c)'
  BY <1>1, <1>2, <1>4 DEF FieldsSet, Remembered, VolumeKnows, Waiting, Finalizing
<1>6. CallKnows(c)'
  BY <1>2 DEF CallKnows
<1>7. InReach(c)'
  <2> SUFFICES ASSUME c \notin abandoned', NEW i \in Ids, Exists(i)', fs'[i].maker = c
               PROVE  fs'[i].space = space
    BY <1>2, <1>4 DEF InReach, Holds
  <2>1. CASE fs[i].status = "none"
    BY <2>1 DEF MakesNone, MakesOne, Exists
  <2>2. CASE fs[i].status # "none"
    BY <2>2 DEF FsFrame, SameIdentity
  <2> QED BY <2>1, <2>2
<1> QED BY <1>2, <1>3, <1>5, <1>6, <1>7, ClaimStepKeeps

LEMMA ResolveKeeps ==
  ASSUME IInv, NEW c \in Claims, ResolveSpace(c)
  PROVE  IInv'
<1>1. PICK s \in Spaces : SpacesOf[call[c].params.space] = {s} /\ LookIn(c, s)
  BY DEF ResolveSpace
<1>2. FsFrame /\ MakesNone
  BY <1>1, TypesNow, SameEffect DEF LookIn
<1>3. /\ abandoned' \in {abandoned, abandoned \union {c}}
      /\ \/ c \in abandoned'
         \/ \A i \in Ids : Exists(i) /\ fs[i].maker = c => fs[i].space = s
  BY <1>1 DEF LookIn
<1>4. call[c].pc # "idle"
  BY DEF ResolveSpace
<1>5. PolicyTypes'
  BY <1>1, TypesNow, SamePolicies DEF LookIn, ClaimTypes
<1>6. "list" \notin Waiting \union Finalizing
  BY DEF Waiting, Finalizing
<1>7. /\ call' = [call EXCEPT ![c] = [pc |-> "list", space |-> s, id |-> NoId,
                                      params |-> call[c].params]]
      /\ UNCHANGED <<class, claim, unsure, pv, late>>
  BY <1>1 DEF LookIn
<1> QED BY <1>1, <1>2, <1>3, <1>4, <1>5, <1>6, <1>7, GoesOnKeeps

\* The filesystems made for a claim lie in the Space that its call looks in.
LEMMA InSight ==
  ASSUME IInv, NEW c \in Claims, call[c].pc \notin {"idle", "resolve"}
  PROVE  /\ call[c].space \in Spaces /\ call[c].params \in Classes
         /\ SpacesOf[call[c].params.space] = {call[c].space}
         /\ \/ c \in abandoned
            \/ \A i \in Ids : Exists(i) /\ fs[i].maker = c => fs[i].space = call[c].space
BY TypesNow DEF FieldsSet, CallKnows, InReach

LEMMA GotoKeeps ==
  ASSUME IInv, NEW c \in Claims, call[c].pc \notin {"idle", "resolve"},
         NEW pc \in {"post"} \union Waiting \union Finalizing,
         NEW id \in Ids \union {NoId},
         pc # "post" => id \in Ids,
         pc \in Finalizing \ {"answer"} => call[c].params.squash # Unset,
         Goto(c, pc, id), PolicyTypes',
         FsFrame, MakesNone \/ MakesOne(c, call[c].space, LabelOf[c]),
         pc \in Finalizing => fs'[id].status # "creating",
         pc # "post" =>
           /\ fs'[id].status # "none"
           /\ Exists(id)' =>
                /\ fs'[id].space = call[c].space /\ fs'[id].label = LabelOf[c]
                /\ pc # "waitexisting" => fs'[id].tags = call[c].params.tags,
         pc # "post" => Holds(c, id)
  PROVE  IInv'
<1> DEFINE space == call[c].space
<1>1. /\ space \in Spaces
      /\ SpacesOf[call[c].params.space] = {space}
      /\ \/ c \in abandoned
         \/ \A i \in Ids : Exists(i) /\ fs[i].maker = c => fs[i].space = space
  BY InSight
<1>2. /\ call' = [call EXCEPT ![c] = [pc |-> pc, space |-> space, id |-> id,
                                      params |-> call[c].params]]
      /\ UNCHANGED <<class, claim, unsure, pv, late>> /\ abandoned' = abandoned
  BY DEF Goto
<1>3. /\ pc \in {"list", "post"} \union Waiting \union Finalizing
      /\ pc \in Waiting \union Finalizing => pc # "post" /\ id \in Ids
      /\ call[c].pc # "idle"
  BY DEF Waiting, Finalizing
<1>4. /\ MakesNone \/ MakesOne(c, space, LabelOf[c])
      /\ pc \in Waiting \union Finalizing =>
           /\ Holds(c, id)
           /\ fs'[id].status # "none"
           /\ Exists(id)' =>
                /\ fs'[id].space = space /\ fs'[id].label = LabelOf[c]
                /\ pc # "waitexisting" => fs'[id].tags = call[c].params.tags
  BY <1>3
<1>5. /\ abandoned' \in {abandoned, abandoned \union {c}}
      /\ \/ c \in abandoned'
         \/ \A i \in Ids : Exists(i) /\ fs[i].maker = c => fs[i].space = space
  BY <1>1, <1>2
<1> HIDE DEF space
<1> QED BY <1>1, <1>2, <1>3, <1>4, <1>5, GoesOnKeeps

\* A filesystem found by the label is the one that was made for the claim, if
\* any was.
LEMMA FoundHolds ==
  ASSUME IInv, NEW c \in Claims, call[c].pc \notin {"idle", "resolve"}, c \notin abandoned,
         NEW j \in Ids, Exists(j), fs[j].maker = c
  PROVE  /\ j \in Labelled(call[c].space, LabelOf[c])
         /\ \A i \in Labelled(call[c].space, LabelOf[c]) : j = i
<1>1. fs[j].space = call[c].space
  BY DEF IInv, InReach
<1>2. fs[j].label = LabelOf[c]
  BY OutsideAssumption DEF IInv, MadeUnderOwnLabel
<1> QED BY <1>1, <1>2 DEF Labelled, IInv, LabelsUnique

LEMMA FindKeeps ==
  ASSUME IInv, NEW c \in Claims, FindExisting(c)
  PROVE  IInv'
<1>1. call[c].pc = "list" /\ UNCHANGED <<fs, policyVars>>
  BY DEF FindExisting
<1>2. FsFrame /\ MakesNone /\ PolicyTypes'
  BY <1>1, TypesNow, SameEffect, SamePolicies DEF ClaimTypes
<1>3. CASE Goto(c, "post", NoId)
  BY <1>1, <1>2, <1>3, GotoKeeps DEF Finalizing
<1>4. ASSUME NEW i \in Labelled(call[c].space, LabelOf[c]), Goto(c, "waitexisting", i)
      PROVE  IInv'
  <2>1. /\ i \in Ids /\ fs'[i].status # "none"
        /\ fs'[i].space = call[c].space /\ fs'[i].label = LabelOf[c]
    BY <1>1 DEF Labelled, Exists
  <2>2. Holds(c, i)
    BY <1>1, <1>4, FoundHolds DEF Goto, Holds, Exists
  <2> QED BY <1>1, <1>2, <1>4, <2>1, <2>2, GotoKeeps DEF Waiting, Finalizing
<1> QED BY <1>3, <1>4 DEF FindExisting

LEMMA CreateKeeps ==
  ASSUME IInv, NEW c \in Claims, CreateNew(c)
  PROVE  IInv'
<1>1. PICK i \in Ids : Create(c, call[c].space, call[c].params, i) /\ Goto(c, "waitnew", i)
  BY DEF CreateNew
<1>2. call[c].pc = "post" /\ PolicyTypes'
  BY TypesNow, SamePolicies DEF CreateNew, ClaimTypes
<1>3. call[c].space \in Spaces /\ call[c].params \in Classes
  BY <1>2, InSight
<1>4. /\ FsFrame /\ (MakesNone \/ MakesOne(c, call[c].space, LabelOf[c]))
      /\ fs'[i].status # "none"
      /\ fs'[i].space = call[c].space /\ fs'[i].label = LabelOf[c]
      /\ fs'[i].tags = call[c].params.tags
  BY <1>1, <1>3, TypesNow, CreateEffect
<1>5. Holds(c, i)
  <2> SUFFICES ASSUME c \notin abandoned, NEW j \in Ids, Exists(j)', fs'[j].maker = c
               PROVE  j = i
    BY <1>1 DEF Goto, Holds
  <2>1. CASE i \in Labelled(call[c].space, LabelOf[c]) /\ UNCHANGED fs
    BY <1>2, <2>1, FoundHolds DEF Exists
  <2>2. CASE /\ Labelled(call[c].space, LabelOf[c]) = {}
             /\ \A k \in Ids : k # i => fs'[k] = fs[k]
    <3>1. j # i => Exists(j) /\ fs[j].maker = c
      BY <2>2 DEF Exists
    <3> QED BY <1>2, <2>2, <3>1, FoundHolds
  <2>3. fs \in [Ids -> FS]
    BY TypesNow
  <2> QED BY <1>1, <2>1, <2>2, <2>3 DEF Create, Make
<1> QED BY <1>1, <1>2, <1>4, <1>5, GotoKeeps DEF Waiting, Finalizing

\* What a call knows when it waits for its filesystem, or finalizes it.
LEMMA AtFilesystem ==
  ASSUME IInv, NEW c \in Claims, call[c].pc \in Waiting \union Finalizing
  PROVE  /\ call[c].id \in Ids /\ call[c].space \in Spaces /\ call[c].params \in Classes
         /\ call[c].pc \notin {"idle", "resolve", "list", "post"}
         /\ call[c].pc \in Finalizing \ {"answer"} => call[c].params.squash \in Squashes
         /\ call[c].pc \in Finalizing => fs[call[c].id].status # "creating"
         /\ fs[call[c].id].status # "none"
         /\ Exists(call[c].id) =>
              /\ fs[call[c].id].space = call[c].space /\ fs[call[c].id].label = LabelOf[c]
              /\ call[c].pc # "waitexisting" => fs[call[c].id].tags = call[c].params.tags
<1>1. call[c].pc \notin {"idle", "resolve", "list", "post"}
  BY DEF Waiting, Finalizing
<1>2. call[c].params \in Classes
  BY <1>1, TypesNow DEF FieldsSet
<1> QED BY <1>1, <1>2, TypesNow, ClassType DEF FieldsSet, CallKnows

\* A step of finalizeFilesystemVolume, at a filesystem that is or was active.
LEMMA OnwardKeeps ==
  ASSUME IInv, NEW c \in Claims, call[c].pc \in Waiting \union Finalizing,
         fs[call[c].id].status # "creating",
         call[c].pc = "waitexisting" => fs[call[c].id].tags = call[c].params.tags,
         NEW pc \in Finalizing, pc # "answer" => call[c].params.squash # Unset,
         Goto(c, pc, call[c].id), PolicyTypes', FsFrame, MakesNone
  PROVE  IInv'
<1>0. PICK i \in Ids : i = call[c].id
  BY AtFilesystem
<1>1. /\ fs[i].status \notin {"none", "creating"}
      /\ call[c].pc \notin {"idle", "resolve"}
      /\ Exists(i) =>
           /\ fs[i].space = call[c].space /\ fs[i].label = LabelOf[c]
           /\ fs[i].tags = call[c].params.tags
  BY <1>0, AtFilesystem
<1>2. /\ fs'[i].status \notin {"none", "creating"}
      /\ Exists(i)' =>
           /\ fs'[i].space = call[c].space /\ fs'[i].label = LabelOf[c]
           /\ fs'[i].tags = call[c].params.tags
  BY <1>1 DEF FsFrame, SameIdentity
<1>3. Holds(c, i)
  <2> SUFFICES ASSUME c \notin abandoned, NEW j \in Ids, Exists(j)', fs'[j].maker = c
               PROVE  j = i
    BY DEF Goto, Holds
  <2>1. Exists(j) /\ fs[j].maker = c
    BY DEF FsFrame, MakesNone, SameIdentity, Exists
  <2> QED BY <1>0, <2>1 DEF IInv, InReach
<1>4. pc \in {"post"} \union Waiting \union Finalizing /\ pc # "post" /\ Goto(c, pc, i)
  BY <1>0 DEF Finalizing
<1> QED BY <1>1, <1>2, <1>3, <1>4, GotoKeeps

LEMMA WaitKeeps ==
  ASSUME IInv, NEW c \in Claims, WaitNew(c) \/ WaitExisting(c)
  PROVE  IInv'
<1> DEFINE pc == IF call[c].params.squash = Unset THEN "answer" ELSE "getpolicy"
<1>1. /\ call[c].pc \in Waiting /\ UNCHANGED <<fs, policyVars>>
      /\ Goto(c, pc, call[c].id) /\ fs[call[c].id].status # "creating"
      /\ call[c].pc = "waitexisting" => fs[call[c].id].tags = call[c].params.tags
  BY DEF WaitNew, WaitExisting, Waiting, GotoFinalize
<1>2. FsFrame /\ MakesNone /\ PolicyTypes'
  BY <1>1, TypesNow, SameEffect, SamePolicies DEF ClaimTypes
<1>3. pc \in Finalizing /\ (pc # "answer" => call[c].params.squash # Unset)
  BY DEF Finalizing
<1> HIDE DEF pc
<1> QED BY <1>1, <1>2, <1>3, OnwardKeeps

LEMMA SquashEffect ==
  ASSUME fs \in [Ids -> FS], NEW i \in Ids, NEW squash \in Squashes, SetSquash(i, squash)
  PROVE  /\ FsFrame /\ MakesNone
         /\ Exists(i) /\ fs'[i].status = "active" /\ SameIdentity(i) /\ fs'[i].squash = squash
         /\ \A j \in Ids : j # i => fs'[j] = fs[j]
<1>1. Exists(i)
  BY DEF SetSquash, Exists
<1> QED BY <1>1, UpdateEffect DEF SetSquash

\* The policy is looked at, and set.
LEMMA PolicyKeeps ==
  ASSUME IInv, NEW c \in Claims, GetPolicy(c) \/ PutPolicy(c)
  PROVE  IInv'
<1>1. call[c].pc \in Finalizing \ {"answer"}
  BY DEF GetPolicy, PutPolicy, Finalizing
<1>2. /\ call[c].id \in Ids /\ call[c].params.squash \in Squashes
      /\ fs[call[c].id].status # "creating" /\ call[c].pc # "waitexisting"
  BY <1>1, AtFilesystem DEF Finalizing
<1>3. PolicyTypes'
  BY <1>2, TypesNow DEF GetPolicy, PutPolicy, ClaimTypes, PolicyTypes
<1>4. \E pc \in Finalizing : Goto(c, pc, call[c].id)
  BY DEF GetPolicy, PutPolicy, Finalizing
<1>5. FsFrame /\ MakesNone
  <2>1. CASE GetPolicy(c)
    BY <2>1, TypesNow, SameEffect DEF GetPolicy
  <2>2. CASE PutPolicy(c)
    BY <1>2, <2>2, TypesNow, SquashEffect DEF PutPolicy
  <2> QED BY <2>1, <2>2
<1> QED BY <1>1, <1>2, <1>3, <1>4, <1>5, OnwardKeeps, UnsetAssumption

LEMMA AnswerKeeps ==
  ASSUME IInv, NEW c \in Claims, Answer(c)
  PROVE  IInv'
<1> USE TypesNow
<1> DEFINE i == call[c].id
<1> DEFINE new == [id |-> i, params |-> call[c].params]
<1>0. /\ call[c].pc = "answer" /\ call[c].pc \in Waiting \union Finalizing /\ ReturnOK(c)
      /\ UNCHANGED <<fs, class, late, policyVars, abandoned>>
  BY DEF Answer, Finalizing
<1>1. /\ i \in Ids /\ call[c].space \in Spaces /\ call[c].params \in Classes
      /\ fs[i].status \notin {"none", "creating"}
      /\ Exists(i) => fs[i].space = call[c].space /\ fs[i].label = LabelOf[c]
  BY <1>0, AtFilesystem DEF Finalizing
<1>2. c \in unsure /\ claim[c] \in {"wanted", "withdrawn"}
  BY <1>0 DEF Remembered
<1>3. new \in Volume
  BY <1>1 DEF Volume
<1>4. /\ call' \in [Claims -> Call] /\ call'[c] = Idle
      /\ claim' \in [Claims -> ClaimStates] /\ claim'[c] \in {"bound", "released"}
      /\ pv' \in [Claims -> Volume] /\ pv'[c] = new
      /\ unsure' = unsure \ {c}
      /\ \A d \in Claims : d # c =>
           call'[d] = call[d] /\ claim'[d] = claim[d] /\ pv'[d] = pv[d]
  BY <1>0, <1>2, <1>3, IdleType DEF ReturnOK, ClaimTypes, ClaimStates
<1>5. ClaimTypes' /\ OnlyClaim(c) /\ LateIsAbandoned'
  BY <1>0, <1>4, SamePolicies DEF ClaimTypes, OnlyClaim, IInv, LateIsAbandoned
<1>6. FieldsSet(c)' /\ Remembered(c)' /\ CallKnows(c)'
  BY <1>1, <1>4, IdleType DEF FieldsSet, Remembered, CallKnows, Waiting, Finalizing
<1>7. VolumeKnows(c)'
  BY <1>0, <1>1, <1>4 DEF VolumeKnows, Exists
<1>8. InReach(c)'
  <2> SUFFICES ASSUME c \notin abandoned, NEW j \in Ids, Exists(j), fs[j].maker = c
               PROVE  j = i
    BY <1>0, <1>4, IdleType DEF InReach, Exists, Waiting, Finalizing
  <2> QED BY <1>0 DEF InReach
<1>9. FsFrame /\ MakesNone
  BY <1>0, SameEffect
<1> QED BY <1>0, <1>5, <1>6, <1>7, <1>8, <1>9, ClaimStepKeeps

LEMMA ErrorKeeps ==
  ASSUME IInv, NEW c \in Claims,
         \/ SpaceRefused(c) \/ ExistingRefused(c) \/ WaitTimesOut(c) \/ ApiFails(c)
         \/ PostLate(c) \/ PutPolicyLate(c)
  PROVE  IInv'
<1> USE TypesNow
<1>0. UNCHANGED late /\ (UNCHANGED abandoned \/ abandoned' = abandoned \union {c}) => LateFrame(c)
  BY DEF ClaimTypes, LateFrame
<1>1. ASSUME call[c].pc = "putpolicy"
      PROVE  call[c].id \in Ids /\ call[c].params.squash \in Squashes
  BY <1>1, AtFilesystem DEF Finalizing
<1>2. ASSUME call[c].pc = "post", NEW i \in Ids, Create(c, call[c].space, call[c].params, i)
      PROVE  /\ FsFrame
             /\ MakesNone \/ (MakesOne(c, call[c].space, LabelOf[c]) /\ call[c].space \in Spaces)
  BY <1>2, InSight, CreateEffect
<1>3. CASE SpaceRefused(c) \/ ExistingRefused(c)
  <2>1. /\ call[c].pc # "idle" /\ ReturnFinal(c) /\ abandoned' = abandoned \union {c}
        /\ late' = late /\ UNCHANGED <<fs, policyVars>>
    BY <1>3 DEF SpaceRefused, ExistingRefused
  <2>2. FsFrame /\ MakesNone /\ PolicyTypes'
    BY <2>1, SameEffect, SamePolicies DEF ClaimTypes
  <2>3. LateFrame(c)
    BY <1>0, <2>1
  <2> QED BY <2>1, <2>2, <2>3, FinalKeeps
<1>4. CASE WaitTimesOut(c)
  <2>1. /\ call[c].pc # "idle" /\ ReturnRetriable(c) /\ late' = late /\ abandoned' = abandoned
        /\ UNCHANGED <<fs, policyVars>>
    BY <1>4 DEF WaitTimesOut, Waiting
  <2>2. FsFrame /\ MakesNone /\ PolicyTypes'
    BY <2>1, SameEffect, SamePolicies DEF ClaimTypes
  <2>3. LateFrame(c)
    BY <1>0, <2>1
  <2> QED BY <2>1, <2>2, <2>3, RetriableKeeps
<1>5. CASE ApiFails(c)
  <2>1. /\ call[c].pc # "idle" /\ late' = late
        /\ FsFrame /\ PolicyTypes'
        /\ MakesNone \/ (MakesOne(c, call[c].space, LabelOf[c]) /\ call[c].space \in Spaces)
    <3>1. call[c].pc # "idle" /\ late' = late /\ PolicyTypes'
      BY <1>5, SamePolicies DEF ApiFails, ClaimTypes
    <3>2. CASE UNCHANGED fs
      BY <3>1, <3>2, SameEffect
    <3>3. CASE call[c].pc = "post" /\ \E i \in Ids : Create(c, call[c].space, call[c].params, i)
      BY <1>2, <3>1, <3>3
    <3>4. CASE call[c].pc = "putpolicy" /\ SetSquash(call[c].id, call[c].params.squash)
      BY <1>1, <3>1, <3>4, SquashEffect
    <3>5. \/ UNCHANGED fs
          \/ call[c].pc = "post" /\ \E i \in Ids : Create(c, call[c].space, call[c].params, i)
          \/ call[c].pc = "putpolicy" /\ SetSquash(call[c].id, call[c].params.squash)
      BY <1>5 DEF ApiFails
    <3> QED BY <3>2, <3>3, <3>4, <3>5
  <2>2. CASE ReturnRetriable(c) /\ abandoned' = abandoned
    BY <1>0, <2>1, <2>2, RetriableKeeps
  <2>3. CASE ReturnFinal(c) /\ abandoned' = abandoned \union {c}
    BY <1>0, <2>1, <2>3, FinalKeeps
  <2> QED BY <1>5, <2>2, <2>3 DEF ApiFails
<1>6. CASE PostLate(c)
  <2> DEFINE w == <<c, call[c].space, call[c].params>>
  <2>1. /\ call[c].pc # "idle" /\ UNCHANGED <<fs, policyVars>>
        /\ abandoned' = abandoned \union {c} /\ late' = late \union {w}
        /\ w \in Claims \X Spaces \X Classes /\ w[1] = c
    BY <1>6, InSight DEF PostLate
  <2>2. LateFrame(c)
    BY <2>1 DEF ClaimTypes, LateFrame
  <2>3. FsFrame /\ MakesNone /\ PolicyTypes'
    BY <2>1, SameEffect, SamePolicies DEF ClaimTypes
  <2>4. CASE ReturnRetriable(c)
    BY <2>1, <2>2, <2>3, <2>4, RetriableKeeps
  <2>5. CASE ReturnFinal(c)
    BY <2>1, <2>2, <2>3, <2>5, FinalKeeps
  <2> QED BY <1>6, <2>4, <2>5 DEF PostLate
<1>7. CASE PutPolicyLate(c)
  <2>1. /\ call[c].pc = "putpolicy" /\ call[c].pc # "idle"
        /\ UNCHANGED <<fs, late, overwritten>>
        /\ latePuts' = latePuts \union {<<c, call[c].id, call[c].params.squash>>}
    BY <1>7 DEF PutPolicyLate
  <2>2. FsFrame /\ MakesNone /\ PolicyTypes'
    BY <1>1, <2>1, SameEffect DEF ClaimTypes, PolicyTypes
  <2>3. CASE ReturnRetriable(c) /\ abandoned' = abandoned
    BY <1>0, <2>1, <2>2, <2>3, RetriableKeeps
  <2>4. CASE ReturnFinal(c) /\ abandoned' = abandoned \union {c}
    BY <1>0, <2>1, <2>2, <2>4, FinalKeeps
  <2> QED BY <1>7, <2>3, <2>4 DEF PutPolicyLate
<1> QED BY <1>3, <1>4, <1>5, <1>6, <1>7

-----------------------------------------------------------------------------
(* DeleteVolume, the service and a restart.                                 *)

LEMMA DeleteKeeps ==
  ASSUME IInv, NEW c \in Claims, DeleteVolume(c) \/ DeleteReplyLost(c)
  PROVE  IInv'
<1> USE TypesNow
<1> DEFINE i == pv[c].id
<1>1. /\ UNCHANGED <<class, call, unsure, pv, late, policyVars, abandoned>>
      /\ claim[c] = "released" /\ claim'[c] \in {"released", "gone"}
      /\ claim' \in [Claims -> ClaimStates]
      /\ \A d \in Claims : d # c => claim'[d] = claim[d]
      /\ Remove(i) \/ (~Exists(i) /\ UNCHANGED fs)
  BY DEF DeleteVolume, DeleteReplyLost, ClaimTypes, ClaimStates
<1>2. i \in Ids
  BY <1>1 DEF FieldsSet
<1>3. FsFrame /\ MakesNone /\ ~Exists(i)'
  <2>1. CASE Remove(i)
    BY <1>1, <1>2, <2>1, RemoveEffect DEF Exists
  <2>2. CASE ~Exists(i) /\ UNCHANGED fs
    BY <1>1, <2>2, SameEffect DEF Exists
  <2> QED BY <1>1, <2>1, <2>2
<1>4. ClaimTypes' /\ OnlyClaim(c) /\ LateIsAbandoned'
  BY <1>1, SamePolicies DEF ClaimTypes, OnlyClaim, IInv, LateIsAbandoned
<1>5. c \notin unsure /\ call[c].pc = "idle"
  BY <1>1 DEF Remembered
<1>6. FieldsSet(c)' /\ Remembered(c)' /\ CallKnows(c)'
  BY <1>1, <1>5 DEF FieldsSet, Remembered, CallKnows, Waiting, Finalizing
<1>7. VolumeKnows(c)'
  <2>1. fs[i].status \notin {"none", "creating"}
    BY <1>1 DEF VolumeKnows
  <2>2. fs'[i].status \notin {"none", "creating"}
    BY <1>2, <1>3, <2>1 DEF FsFrame
  <2> QED BY <1>1, <1>3, <2>2 DEF VolumeKnows
<1>8. InReach(c)'
  <2> SUFFICES ASSUME c \notin abandoned, NEW j \in Ids, Exists(j)', fs'[j].maker = c
               PROVE  FALSE
    BY <1>1 DEF InReach
  <2>1. Exists(j) /\ fs[j].maker = c
    BY <1>3 DEF FsFrame, MakesNone, SameIdentity, Exists
  <2>2. j = i
    BY <1>1, <2>1 DEF InReach
  <2> QED BY <1>1, <1>3, <2>2
<1> QED BY <1>1, <1>3, <1>4, <1>5, <1>6, <1>7, <1>8, ClaimStepKeeps

LEMMA ServiceKeeps ==
  ASSUME IInv, NEW i \in Ids, Activate(i) \/ OutsideCreates(i) \/ OutsideDeletes(i)
  PROVE  IInv'
<1> USE TypesNow
<1>1. CASE Activate(i)
  <2>1. Exists(i) /\ fs[i].squash \in Squashes
    BY <1>1, ExistingType DEF Activate, Exists
  <2>2. FsFrame /\ MakesNone
    BY <1>1, <2>1, UpdateEffect DEF Activate
  <2> QED BY <1>1, <2>2, SamePolicies, ServiceStepKeeps DEF Activate, ClaimTypes
<1>2. CASE OutsideCreates(i)
  <2>1. PICK space \in Spaces, label \in Labels, tags \in Tags, squash \in Squashes :
          /\ Labelled(space, label) = {}
          /\ Make(i, space, label, tags, squash, "active", Outside)
    BY <1>2, ForeignAssumption DEF OutsideCreates
  <2>2. FsFrame /\ MakesOne(Outside, space, label)
    BY <2>1, MakeEffect
  <2>3. UNCHANGED <<class, call, claim, unsure, pv, late, policyVars, abandoned>>
    BY <1>2 DEF OutsideCreates
  <2>4. /\ class' \in Classes /\ late' \subseteq late /\ PolicyTypes'
        /\ Outside \in abandoned \union {Outside}
        /\ Outside \in Claims => label = LabelOf[Outside]
    BY <2>3, OutsideAssumption, SamePolicies DEF ClaimTypes
  <2> QED BY <2>2, <2>3, <2>4, ServiceStepKeeps
<1>3. CASE OutsideDeletes(i)
  <2>1. FsFrame /\ MakesNone
    BY <1>3, RemoveEffect DEF OutsideDeletes
  <2> QED BY <1>3, <2>1, SamePolicies, ServiceStepKeeps DEF OutsideDeletes, ClaimTypes
<1> QED BY <1>1, <1>2, <1>3

LEMMA LateKeeps ==
  ASSUME IInv, LateCreate
  PROVE  IInv'
<1> USE TypesNow
<1>1. PICK w \in late :
        /\ \/ \E i \in Ids : Create(w[1], w[2], w[3], i)
           \/ UNCHANGED fs
        /\ late' = late \ {w}
        /\ UNCHANGED <<class, call, claim, unsure, pv, policyVars, abandoned>>
  BY DEF LateCreate
<1>2. w[1] \in Claims /\ w[1] \in abandoned /\ w[2] \in Spaces /\ w[3] \in Classes
      /\ PolicyTypes'
  BY <1>1, SamePolicies DEF ClaimTypes, IInv, LateIsAbandoned
<1>3. CASE UNCHANGED fs
  BY <1>1, <1>2, <1>3, SameEffect, ServiceStepKeeps
<1>4. ASSUME NEW i \in Ids, Create(w[1], w[2], w[3], i)
      PROVE  IInv'
  <2>1. FsFrame /\ (MakesNone \/ MakesOne(w[1], w[2], LabelOf[w[1]]))
    BY <1>2, <1>4, CreateEffect
  <2>2. LabelOf[w[1]] \in Labels
    BY <1>2, LabelOfAssumption
  <2> QED BY <1>1, <1>2, <2>1, <2>2, ServiceStepKeeps
<1> QED BY <1>1, <1>3, <1>4

LEMMA LateSquashKeeps ==
  ASSUME IInv, LateSquash
  PROVE  IInv'
<1> USE TypesNow
<1>1. PICK w \in latePuts :
        /\ \/ SetSquash(w[2], w[3]) /\ overwritten' \in {overwritten, overwritten \union {w[2]}}
           \/ UNCHANGED <<fs, overwritten>>
        /\ latePuts' = latePuts \ {w}
        /\ UNCHANGED <<class, call, claim, unsure, pv, late, abandoned>>
  BY DEF LateSquash
<1>2. w[2] \in Ids /\ w[3] \in Squashes /\ PolicyTypes'
  BY <1>1 DEF ClaimTypes, PolicyTypes
<1>3. FsFrame /\ MakesNone
  BY <1>1, <1>2, SquashEffect, SameEffect
<1> QED BY <1>1, <1>2, <1>3, ServiceStepKeeps

LEMMA RestartKeeps ==
  ASSUME IInv, Restart
  PROVE  IInv'
<1> USE TypesNow
<1>1. /\ UNCHANGED <<fs, class, pv, late, policyVars>>
      /\ call' \in [Claims -> Call] /\ claim' \in [Claims -> ClaimStates]
      /\ unsure' = {} /\ abandoned' = abandoned \union unsure
      /\ \A c \in Claims :
           /\ call'[c] = Idle
           /\ claim'[c] = IF claim[c] = "withdrawn" THEN "gone" ELSE claim[c]
  BY IdleType DEF Restart, ClaimTypes, ClaimStates
<1>2. ASSUME NEW c \in Claims
      PROVE  FieldsSet(c)' /\ Remembered(c)' /\ CallKnows(c)' /\ VolumeKnows(c)' /\ InReach(c)'
  <2>1. FieldsSet(c)' /\ Remembered(c)' /\ CallKnows(c)'
    BY <1>1, IdleType DEF FieldsSet, Remembered, CallKnows, Waiting, Finalizing
  <2>2. VolumeKnows(c)'
    BY <1>1 DEF VolumeKnows, Exists
  <2>3. InReach(c)'
    BY <1>1, IdleType DEF InReach, Exists, Remembered, Waiting, Finalizing
  <2> QED BY <2>1, <2>2, <2>3
<1>3. LabelsUnique' /\ MadeUnderOwnLabel' /\ LateIsAbandoned'
  BY <1>1 DEF IInv, LabelsUnique, MadeUnderOwnLabel, LateIsAbandoned, Exists
<1>4. TypeOK'
  BY <1>1, <1>2, SamePolicies DEF TypeOK, ClaimTypes, PolicyTypes, ClaimStates, Volume
<1> QED BY <1>2, <1>3, <1>4 DEF IInv

-----------------------------------------------------------------------------
(* The theorems.                                                            *)

LEMMA InitIInv == Init => IInv
<1> SUFFICES ASSUME Init
             PROVE  IInv
  OBVIOUS
<1>1. [status |-> "none"] \in FS /\ [id |-> NoId, params |-> NoParams] \in Volume
  BY DEF FS, Volume
<1>2. ASSUME NEW c \in Claims
      PROVE  call[c] = Idle /\ claim[c] = "none" /\ c \notin unsure
  BY <1>2 DEF Init
<1>3. \A i \in Ids : ~Exists(i)
  BY DEF Init, Exists
<1>4. TypeOK
  <2>1. \A c \in Claims : FieldsSet(c)
    BY <1>2, IdleType DEF FieldsSet, Waiting, Finalizing
  <2> QED BY <1>1, <2>1, IdleType DEF Init, TypeOK, Volume
<1>5. LabelsUnique /\ MadeUnderOwnLabel /\ LateIsAbandoned
  BY <1>3 DEF Init, LabelsUnique, MadeUnderOwnLabel, LateIsAbandoned
<1>6. \A c \in Claims : Remembered(c) /\ CallKnows(c) /\ VolumeKnows(c) /\ InReach(c)
  BY <1>2, <1>3, IdleType DEF Remembered, CallKnows, VolumeKnows, InReach, Waiting, Finalizing
<1> QED BY <1>4, <1>5, <1>6 DEF IInv

LEMMA IInvStep == IInv /\ [Next]_vars => IInv'
<1> SUFFICES ASSUME IInv, [Next]_vars
             PROVE  IInv'
  OBVIOUS
<1>1. ASSUME NEW c \in Claims, Want(c) \/ Withdraw(c) \/ ReleaseClaim(c)
      PROVE  IInv'
  BY <1>1, WishKeeps
<1>2. ASSUME NEW c \in Claims,
             \/ CreateVolumeCall(c) \/ ResolveSpace(c) \/ FindExisting(c) \/ CreateNew(c)
             \/ WaitNew(c) \/ WaitExisting(c) \/ GetPolicy(c) \/ PutPolicy(c) \/ Answer(c)
      PROVE  IInv'
  BY <1>2, CallArrives, ResolveKeeps, FindKeeps, CreateKeeps, WaitKeeps, PolicyKeeps, AnswerKeeps
<1>3. ASSUME NEW c \in Claims,
             \/ SpaceRefused(c) \/ ExistingRefused(c) \/ WaitTimesOut(c) \/ ApiFails(c)
             \/ PostLate(c) \/ PutPolicyLate(c)
      PROVE  IInv'
  BY <1>3, ErrorKeeps
<1>4. ASSUME NEW c \in Claims, DeleteVolume(c) \/ DeleteReplyLost(c)
      PROVE  IInv'
  BY <1>4, DeleteKeeps
<1>5. ASSUME NEW i \in Ids, Activate(i) \/ OutsideCreates(i) \/ OutsideDeletes(i)
      PROVE  IInv'
  BY <1>5, ServiceKeeps
<1>6. CASE LateCreate \/ LateSquash
  BY <1>6, LateKeeps, LateSquashKeeps
<1>7. CASE ClassRecreated
  <2>1. FsFrame /\ MakesNone
    BY <1>7, TypesNow, SameEffect DEF ClassRecreated
  <2>2. class' \in Classes /\ PolicyTypes'
    BY <1>7, TypesNow, SamePolicies DEF ClassRecreated, ClaimTypes
  <2> QED BY <1>7, <2>1, <2>2, ServiceStepKeeps DEF ClassRecreated
<1>8. CASE Restart
  BY <1>8, RestartKeeps
<1>9. CASE UNCHANGED vars
  <2>1. FsFrame /\ MakesNone
    BY <1>9, TypesNow, SameEffect DEF vars
  <2>2. PolicyTypes'
    BY <1>9, TypesNow, SamePolicies DEF vars, ClaimTypes
  <2> QED BY <1>9, <2>1, <2>2, TypesNow, ServiceStepKeeps DEF vars
<1> QED BY <1>1, <1>2, <1>3, <1>4, <1>5, <1>6, <1>7, <1>8, <1>9 DEF Next

\* The invariant that the safety properties rest on: what a CreateVolume handler
\* read of its filesystem stays true under the steps of other handlers, late
\* POSTs and restarts, a Space carries a label once, and every filesystem made
\* for a claim is where a call of the claim will find it.
THEOREM ProvisioningInvariant == Spec => []IInv
<1> QED BY InitIInv, IInvStep, PTL DEF Spec

\* Every reachable state is well formed; a handler that waits, and a volume that
\* is bound, have the ID of a filesystem.
THEOREM ProvisioningTypes == Spec => []TypeOK
<1>1. IInv => TypeOK
  BY DEF IInv
<1> QED BY <1>1, ProvisioningInvariant, PTL

\* Nothing leaks on the error paths: linodeWaitError's DeadlineExceeded and
\* Canceled keep the csi-provisioner calling until the claim's filesystem is
\* found, and only the ends that NothingLeft names can leave one behind.
THEOREM NothingLeaks == Spec => []NothingLeft
<1>1. IInv => NothingLeft
  <2> SUFFICES ASSUME IInv, NEW c \in Claims \ abandoned, claim[c] = "gone",
                      NEW i \in Ids, Exists(i), fs[i].maker = c
               PROVE  FALSE
    BY DEF NothingLeft
  <2>1. c \in unsure
    BY DEF IInv, InReach
  <2> QED BY <2>1 DEF IInv, Remembered
<1> QED BY <1>1, ProvisioningInvariant, PTL

-----------------------------------------------------------------------------
(* Volumes, if no two names give one label.                                 *)

Held == {"bound", "released"}

\* A filesystem is a claim's own as soon as CreateVolume is about to answer.
Owner(c) == claim[c] \in Held \/ call[c].pc = "answer"

Mine(c) == IF claim[c] \in Held THEN pv[c]
                                ELSE [id |-> call[c].id, params |-> call[c].params]

\* What the answer and a bound claim promise of a filesystem.
Ready(v) ==
  /\ fs[v.id].status = "active" \/ fs[v.id].maker = Outside
  /\ Exists(v.id) =>
       /\ SpacesOf[v.params.space] = {fs[v.id].space}
       /\ fs[v.id].tags = v.params.tags
       /\ v.params.squash \in {Unset, fs[v.id].squash} \/ v.id \in overwritten

OneOwner == \A c, d \in Claims : Owner(c) /\ Owner(d) /\ Mine(c).id = Mine(d).id => c = d

Promised(c) == Owner(c) /\ claim[c] # "released"

VInv == OneOwner /\ \A c \in Claims : Promised(c) => Ready(Mine(c))

LEMMA VInvMeans == VInv => BoundOwnsFilesystem /\ BoundAsRequested
<1> SUFFICES ASSUME VInv
             PROVE  BoundOwnsFilesystem /\ BoundAsRequested
  OBVIOUS
<1>1. ASSUME NEW c \in Claims, claim[c] = "bound"
      PROVE  Owner(c) /\ Mine(c) = pv[c] /\ Ready(pv[c])
  BY <1>1 DEF VInv, Promised, Owner, Mine, Held
<1>2. ASSUME NEW d \in Claims, claim[d] \in {"bound", "released"}
      PROVE  Owner(d) /\ Mine(d) = pv[d]
  BY <1>2 DEF Owner, Mine, Held
<1>3. BoundOwnsFilesystem
  BY <1>1, <1>2 DEF BoundOwnsFilesystem, VInv, OneOwner, Ready
<1>4. BoundAsRequested
  BY <1>1 DEF BoundAsRequested, Ready
<1> QED BY <1>3, <1>4

\* What the driver knows of a filesystem that a claim owns.
LEMMA AtMine ==
  ASSUME IInv, NEW c \in Claims, Owner(c)
  PROVE  /\ Mine(c).id \in Ids
         /\ fs[Mine(c).id].status \notin {"none", "creating"}
         /\ Exists(Mine(c).id) => fs[Mine(c).id].label = LabelOf[c]
<1>1. CASE claim[c] \in Held
  BY <1>1, TypesNow DEF Mine, Held, FieldsSet, VolumeKnows
<1>2. CASE claim[c] \notin Held
  <2>1. call[c].pc = "answer" /\ call[c].pc \in Finalizing /\ Mine(c).id = call[c].id
    BY <1>2 DEF Owner, Mine, Finalizing
  <2> QED BY <2>1, AtFilesystem
<1> QED BY <1>1, <1>2

\* A step leaves the promise of a filesystem alone: whoever made one outside
\* the driver may delete it, and a late PUT may set its squash policy.
Untouched(i) ==
  \/ fs'[i].status \notin {"creating", "active"} /\ fs'[i].maker = Outside
  \/ /\ fs'[i] = fs[i]
     /\ i \in overwritten => i \in overwritten'
  \/ /\ Exists(i) /\ fs'[i].status = "active" /\ SameIdentity(i)
     /\ fs'[i].squash = fs[i].squash \/ i \in overwritten'
     /\ i \in overwritten => i \in overwritten'

\* And the claim gets no filesystem by it.
NoNewOwner(c) ==
  /\ Owner(c)' => Owner(c) /\ Mine(c)' = Mine(c)
  /\ Promised(c)' => Promised(c)

LEMMA ReadyKept ==
  ASSUME NEW v, Ready(v), Untouched(v.id)
  PROVE  /\ fs'[v.id].status = "active" \/ fs'[v.id].maker = Outside
         /\ Exists(v.id)' =>
              /\ SpacesOf[v.params.space] = {fs'[v.id].space}
              /\ fs'[v.id].tags = v.params.tags
              /\ v.params.squash \in {Unset, fs'[v.id].squash} \/ v.id \in overwritten'
<1>1. CASE fs'[v.id].status \notin {"creating", "active"} /\ fs'[v.id].maker = Outside
  BY <1>1 DEF Exists
<1>2. CASE /\ fs'[v.id] = fs[v.id]
           /\ v.id \in overwritten => v.id \in overwritten'
  BY <1>2 DEF Ready, Exists
<1>3. CASE /\ Exists(v.id) /\ fs'[v.id].status = "active" /\ SameIdentity(v.id)
           /\ fs'[v.id].squash = fs[v.id].squash \/ v.id \in overwritten'
           /\ v.id \in overwritten => v.id \in overwritten'
  BY <1>3 DEF Ready, SameIdentity
<1> QED BY <1>1, <1>2, <1>3 DEF Untouched

LEMMA PromiseKept ==
  ASSUME VInv, NEW c \in Claims, Promised(c)', NoNewOwner(c),
         Promised(c) => Untouched(Mine(c).id)
  PROVE  Ready(Mine(c))'
<1>1. PICK v : v = Mine(c)
  OBVIOUS
<1>2. Ready(v) /\ Untouched(v.id) /\ Mine(c)' = v
  BY <1>1 DEF VInv, NoNewOwner, Promised
<1> QED BY <1>2, ReadyKept DEF Ready

LEMMA VInvKept ==
  ASSUME VInv,
         \A c \in Claims : NoNewOwner(c) /\ (Promised(c) => Untouched(Mine(c).id))
  PROVE  VInv'
<1>1. OneOwner'
  BY DEF VInv, OneOwner, NoNewOwner
<1> QED BY <1>1, PromiseKept DEF VInv

\* A handler of another claim works on another filesystem: the one it holds has
\* its own claim's label.
LEMMA OtherVolume ==
  ASSUME InjectiveLabels, IInv, NEW c \in Claims, NEW i \in Ids, Exists(i),
         fs[i].label = LabelOf[c], NEW d \in Claims, Owner(d), Mine(d).id = i
  PROVE  d = c
BY AtMine DEF InjectiveLabels

\* What a step leaves of the filesystems that claims own.
LEMMA SameUntouched ==
  ASSUME UNCHANGED <<fs, overwritten>>
  PROVE  \A d \in Claims : Untouched(Mine(d).id)
BY DEF Untouched

LEMMA CreateUntouched ==
  ASSUME IInv, NEW c \in Claims, NEW space \in Spaces, NEW params \in Classes,
         NEW i \in Ids, Create(c, space, params, i), UNCHANGED overwritten
  PROVE  \A d \in Claims : Promised(d) => Untouched(Mine(d).id)
<1>1. \A j \in Ids : fs[j].status # "none" => fs'[j] = fs[j]
  BY TypesNow, CreateEffect
<1> QED BY <1>1, AtMine DEF Promised, Untouched

\* A handler that sets or looks at the policy of its filesystem.
LEMMA PolicyUntouched ==
  ASSUME InjectiveLabels, IInv, NEW c \in Claims, call[c].pc \in {"getpolicy", "putpolicy"},
         \/ UNCHANGED fs /\ Exists(call[c].id)
         \/ call[c].pc = "putpolicy" /\ SetSquash(call[c].id, call[c].params.squash),
         overwritten' \in {overwritten, overwritten \ {call[c].id}}
  PROVE  \A d \in Claims : Promised(d) => Untouched(Mine(d).id)
<1>0. PICK i \in Ids : i = call[c].id
  BY AtFilesystem DEF Finalizing
<1>1. /\ Exists(i) /\ fs[i].label = LabelOf[c]
      /\ \A j \in Ids : j # i => fs'[j] = fs[j]
  <2>1. call[c].pc \in Finalizing /\ call[c].params.squash \in Squashes
    BY AtFilesystem DEF Finalizing
  <2>2. Exists(i) /\ \A j \in Ids : j # i => fs'[j] = fs[j]
    BY <1>0, <2>1, TypesNow, SquashEffect
  <2> QED BY <1>0, <2>1, <2>2, AtFilesystem
<1>2. ~Owner(c)
  BY TypesNow DEF Owner, Held, Remembered
<1> QED BY <1>0, <1>1, <1>2, AtMine, OtherVolume DEF Promised, Untouched

-----------------------------------------------------------------------------
(* The steps of a call.                                                     *)

\* A call comes to its answer: its filesystem is as asked, and nobody else's.
LEMMA ComesToAnswer ==
  ASSUME InjectiveLabels, IInv, VInv, NEW c \in Claims, call[c].pc \in Waiting \union Finalizing,
         call[c].pc # "answer", Exists(call[c].id), fs[call[c].id].status # "creating",
         call[c].pc = "waitexisting" => fs[call[c].id].tags = call[c].params.tags,
         Goto(c, "answer", call[c].id), FsFrame,
         fs'[call[c].id].status = "active", SameIdentity(call[c].id),
         call[c].params.squash \in {Unset, fs'[call[c].id].squash},
         \A d \in Claims : Promised(d) => Untouched(Mine(d).id)
  PROVE  VInv'
<1>0. PICK i \in Ids, params \in Classes : i = call[c].id /\ params = call[c].params
  BY AtFilesystem
<1>1. /\ Exists(i) /\ fs[i].label = LabelOf[c]
      /\ SpacesOf[params.space] = {fs'[i].space} /\ fs'[i].tags = params.tags
      /\ fs'[i].status = "active" /\ params.squash \in {Unset, fs'[i].squash}
  BY <1>0, AtFilesystem, InSight DEF SameIdentity
<1>2. /\ call'[c].pc = "answer" /\ call'[c].id = i /\ call'[c].params = params
      /\ \A d \in Claims : d # c => call'[d] = call[d]
      /\ UNCHANGED <<claim, pv>> /\ claim[c] \notin Held
  BY <1>0, TypesNow DEF Goto, ClaimTypes, Remembered, Held, Waiting, Finalizing
<1>3. Owner(c)' /\ Mine(c)' = [id |-> i, params |-> params]
  BY <1>2 DEF Owner, Mine
<1>4. \A d \in Claims : d # c => NoNewOwner(d)
  BY <1>2 DEF NoNewOwner, Promised, Owner, Mine
<1>5. OneOwner'
  <2>1. \A d \in Claims : Owner(d) /\ Mine(d).id = i => d = c
    BY <1>1, OtherVolume
  <2>2. ASSUME NEW d \in Claims, d # c, Owner(d)'
        PROVE  Owner(d) /\ Mine(d)' = Mine(d) /\ Mine(d).id # i
    BY <1>4, <2>1, <2>2 DEF NoNewOwner
  <2> QED BY <1>3, <2>2 DEF VInv, OneOwner
<1>6. Ready(Mine(c))'
  BY <1>1, <1>3 DEF Ready
<1>7. \A d \in Claims : Promised(d)' => Ready(Mine(d))'
  BY <1>4, <1>6, PromiseKept
<1> QED BY <1>5, <1>7 DEF VInv

\* A call goes on, and not to its answer.
LEMMA NoAnswerYet ==
  ASSUME IInv, NEW c \in Claims, NEW pc, pc # "answer", NEW id, NEW space,
         call[c].pc # "idle",
         call' = [call EXCEPT ![c] = [pc |-> pc, space |-> space, id |-> id,
                                      params |-> call[c].params]],
         UNCHANGED <<claim, pv>>
  PROVE  \A d \in Claims : NoNewOwner(d)
<1>1. claim[c] \notin Held
  BY TypesNow DEF Remembered, Held
<1>2. call'[c].pc # "answer" /\ \A d \in Claims : d # c => call'[d] = call[d]
  BY TypesNow DEF ClaimTypes
<1> QED BY <1>1, <1>2 DEF NoNewOwner, Promised, Owner, Mine

LEMMA WaitServes ==
  ASSUME InjectiveLabels, IInv, VInv, NEW c \in Claims, WaitNew(c) \/ WaitExisting(c)
  PROVE  VInv'
<1>1. /\ call[c].pc \in Waiting /\ UNCHANGED <<fs, overwritten>> /\ GotoFinalize(c)
      /\ fs[call[c].id].status = "active"
      /\ call[c].pc = "waitexisting" => fs[call[c].id].tags = call[c].params.tags
  BY DEF WaitNew, WaitExisting, Waiting, policyVars
<1>2. \A d \in Claims : Promised(d) => Untouched(Mine(d).id)
  BY <1>1, SameUntouched
<1>3. CASE call[c].params.squash = Unset
  <2>1. Goto(c, "answer", call[c].id)
    BY <1>1, <1>3 DEF GotoFinalize
  <2>2. FsFrame /\ SameIdentity(call[c].id) /\ fs'[call[c].id].status = "active"
    BY <1>1, TypesNow, SameEffect DEF SameIdentity
  <2>3. Exists(call[c].id) /\ call[c].pc # "answer"
    BY <1>1 DEF Exists, Waiting
  <2> QED BY <1>1, <1>2, <1>3, <2>1, <2>2, <2>3, ComesToAnswer
<1>4. CASE call[c].params.squash # Unset
  <2>1. Goto(c, "getpolicy", call[c].id) /\ call[c].pc # "idle"
    BY <1>1, <1>4 DEF GotoFinalize, Waiting
  <2> QED BY <1>2, <2>1, NoAnswerYet, VInvKept DEF Goto
<1> QED BY <1>3, <1>4

LEMMA PolicyServes ==
  ASSUME InjectiveLabels, IInv, VInv, NEW c \in Claims, GetPolicy(c) \/ PutPolicy(c)
  PROVE  VInv'
<1>1. /\ call[c].pc \in {"getpolicy", "putpolicy"} /\ call[c].pc \in Waiting \union Finalizing
      /\ call[c].pc \notin {"answer", "idle", "waitexisting"}
  BY DEF GetPolicy, PutPolicy, Finalizing
<1>2. /\ call[c].id \in Ids /\ call[c].params.squash \in Squashes
      /\ fs[call[c].id].status # "creating"
  BY <1>1, AtFilesystem DEF Finalizing
<1>3. \/ UNCHANGED fs /\ Exists(call[c].id)
      \/ call[c].pc = "putpolicy" /\ SetSquash(call[c].id, call[c].params.squash)
  BY DEF GetPolicy, PutPolicy
<1>4. \A d \in Claims : Promised(d) => Untouched(Mine(d).id)
  <2>1. overwritten' \in {overwritten, overwritten \ {call[c].id}}
    BY DEF GetPolicy, PutPolicy
  <2> QED BY <1>1, <1>3, <2>1, PolicyUntouched
<1>5. CASE GetPolicy(c) /\ Goto(c, "putpolicy", call[c].id)
  BY <1>1, <1>4, <1>5, NoAnswerYet, VInvKept DEF Goto
<1>6. CASE /\ UNCHANGED fs /\ Exists(call[c].id) /\ fs[call[c].id].squash = call[c].params.squash
           /\ Goto(c, "answer", call[c].id)
  <2>1. FsFrame /\ SameIdentity(call[c].id) /\ fs'[call[c].id].status = "active"
    BY <1>2, <1>6, TypesNow, SameEffect DEF SameIdentity, Exists
  <2> QED BY <1>1, <1>2, <1>4, <1>6, <2>1, ComesToAnswer
<1>7. CASE PutPolicy(c)
  <2>1. /\ FsFrame /\ SameIdentity(call[c].id) /\ fs'[call[c].id].status = "active"
        /\ Exists(call[c].id) /\ fs'[call[c].id].squash = call[c].params.squash
    BY <1>2, <1>7, TypesNow, SquashEffect DEF PutPolicy
  <2>2. Goto(c, "answer", call[c].id)
    BY <1>7 DEF PutPolicy
  <2> QED BY <1>1, <1>2, <1>4, <2>1, <2>2, ComesToAnswer
<1> QED BY <1>5, <1>6, <1>7 DEF GetPolicy

\* CreateVolume answers with what its handler owned already.
LEMMA AnswerServes ==
  ASSUME IInv, VInv, NEW c \in Claims, Answer(c)
  PROVE  VInv'
<1>1. /\ call[c].pc = "answer" /\ ReturnOK(c) /\ UNCHANGED <<fs, overwritten>>
      /\ claim[c] \in {"wanted", "withdrawn"}
  BY TypesNow DEF Answer, policyVars, Remembered
<1>2. /\ claim'[c] \in Held /\ pv'[c] = [id |-> call[c].id, params |-> call[c].params]
      /\ \A d \in Claims : d # c => call'[d] = call[d] /\ claim'[d] = claim[d] /\ pv'[d] = pv[d]
  BY <1>1, TypesNow DEF ReturnOK, ClaimTypes, Held
<1>3. \A d \in Claims : NoNewOwner(d)
  BY <1>1, <1>2 DEF NoNewOwner, Promised, Owner, Mine, Held
<1>4. \A d \in Claims : Untouched(Mine(d).id)
  BY <1>1, SameUntouched
<1> QED BY <1>3, <1>4, VInvKept

\* A call that ends in an error owns nothing any more.
LEMMA ErrorServes ==
  ASSUME InjectiveLabels, IInv, VInv, NEW c \in Claims,
         \/ SpaceRefused(c) \/ ExistingRefused(c) \/ WaitTimesOut(c) \/ ApiFails(c)
         \/ PostLate(c) \/ PutPolicyLate(c)
  PROVE  VInv'
<1>1. /\ ReturnFinal(c) \/ ReturnRetriable(c)
      /\ call[c].pc # "idle" /\ UNCHANGED overwritten
      /\ \/ UNCHANGED fs
         \/ call[c].pc = "post" /\ \E i \in Ids : Create(c, call[c].space, call[c].params, i)
         \/ call[c].pc = "putpolicy" /\ SetSquash(call[c].id, call[c].params.squash)
  BY DEF SpaceRefused, ExistingRefused, WaitTimesOut, ApiFails, PostLate, PutPolicyLate,
         policyVars, Waiting
<1>2. \A d \in Claims : NoNewOwner(d)
  <2>1. /\ pv' = pv /\ claim[c] \notin Held /\ claim'[c] \notin Held /\ call'[c].pc = "idle"
        /\ \A d \in Claims : d # c => call'[d] = call[d] /\ claim'[d] = claim[d]
    BY <1>1, TypesNow, IdleType DEF ReturnFinal, ReturnRetriable, ClaimTypes, Remembered, Held
  <2> QED BY <2>1 DEF NoNewOwner, Promised, Owner, Mine
<1>3. \A d \in Claims : Promised(d) => Untouched(Mine(d).id)
  <2>1. CASE UNCHANGED fs
    BY <1>1, <2>1, SameUntouched
  <2>2. CASE call[c].pc = "post" /\ \E i \in Ids : Create(c, call[c].space, call[c].params, i)
    BY <1>1, <2>2, InSight, CreateUntouched
  <2>3. CASE call[c].pc = "putpolicy" /\ SetSquash(call[c].id, call[c].params.squash)
    BY <1>1, <2>3, PolicyUntouched
  <2> QED BY <1>1, <2>1, <2>2, <2>3
<1> QED BY <1>2, <1>3, VInvKept

\* The steps of a call before its filesystem is active, and the claim's.
LEMMA EarlyServes ==
  ASSUME IInv, VInv, NEW c \in Claims,
         \/ Want(c) \/ Withdraw(c) \/ ReleaseClaim(c)
         \/ CreateVolumeCall(c) \/ ResolveSpace(c) \/ FindExisting(c) \/ CreateNew(c)
  PROVE  VInv'
<1> USE TypesNow
<1>1. UNCHANGED overwritten
  BY DEF Want, Withdraw, ReleaseClaim, CreateVolumeCall, ResolveSpace, LookIn, FindExisting,
         CreateNew, policyVars
<1>2. CASE Want(c) \/ Withdraw(c) \/ ReleaseClaim(c)
  <2>1. /\ UNCHANGED <<fs, pv, call>>
        /\ \A d \in Claims : d # c => claim'[d] = claim[d]
        /\ \/ claim[c] = "none" /\ claim'[c] = "wanted"
           \/ claim[c] = "wanted" /\ claim'[c] \in {"withdrawn", "gone"}
           \/ claim[c] = "bound" /\ claim'[c] = "released"
    BY <1>2 DEF Want, Withdraw, ReleaseClaim, ClaimTypes
  <2>2. \A d \in Claims : NoNewOwner(d)
    BY <2>1 DEF NoNewOwner, Promised, Owner, Mine, Held, Remembered
  <2> QED BY <1>1, <2>1, <2>2, SameUntouched, VInvKept
<1>3. CASE CreateVolumeCall(c)
  <2>1. /\ UNCHANGED <<fs, claim, pv>> /\ claim[c] \notin Held /\ call'[c].pc = "resolve"
        /\ \A d \in Claims : d # c => call'[d] = call[d]
    BY <1>3 DEF CreateVolumeCall, ClaimTypes, Held
  <2>2. \A d \in Claims : NoNewOwner(d)
    BY <2>1 DEF NoNewOwner, Promised, Owner, Mine
  <2> QED BY <1>1, <2>1, <2>2, SameUntouched, VInvKept
<1>4. CASE ResolveSpace(c)
  <2>1. call[c].pc # "idle" /\ UNCHANGED <<fs, claim, pv>>
    BY <1>4 DEF ResolveSpace, LookIn
  <2>2. PICK s : call' = [call EXCEPT ![c] = [pc |-> "list", space |-> s, id |-> NoId,
                                              params |-> call[c].params]]
    BY <1>4 DEF ResolveSpace, LookIn
  <2>3. \A d \in Claims : NoNewOwner(d)
    BY <2>1, <2>2, NoAnswerYet
  <2> QED BY <1>1, <2>1, <2>3, SameUntouched, VInvKept
<1>5. CASE FindExisting(c) \/ CreateNew(c)
  <2>1. /\ call[c].pc \notin {"idle", "resolve"}
        /\ \E pc \in {"post", "waitexisting", "waitnew"}, i \in Ids \union {NoId} : Goto(c, pc, i)
    BY <1>5 DEF FindExisting, CreateNew, Labelled
  <2>2. \A d \in Claims : NoNewOwner(d)
    <3>1. PICK pc \in {"post", "waitexisting", "waitnew"}, i \in Ids \union {NoId} : Goto(c, pc, i)
      BY <2>1
    <3>2. /\ UNCHANGED <<claim, pv>>
          /\ call' = [call EXCEPT ![c] = [pc |-> pc, space |-> call[c].space, id |-> i,
                                          params |-> call[c].params]]
      BY <3>1 DEF Goto
    <3>3. PICK space : space = call[c].space
      OBVIOUS
    <3> QED BY <2>1, <3>2, <3>3, NoAnswerYet
  <2>3. \A d \in Claims : Promised(d) => Untouched(Mine(d).id)
    <3>1. CASE FindExisting(c)
      BY <1>1, <3>1, SameUntouched DEF FindExisting
    <3>2. CASE CreateNew(c)
      BY <1>1, <2>1, <3>2, InSight, CreateUntouched DEF CreateNew
    <3> QED BY <1>5, <3>1, <3>2
  <2> QED BY <2>2, <2>3, VInvKept
<1> QED BY <1>2, <1>3, <1>4, <1>5

-----------------------------------------------------------------------------
(* The other steps, and the theorems.                                       *)

LEMMA DeleteServes ==
  ASSUME IInv, VInv, NEW c \in Claims, DeleteVolume(c) \/ DeleteReplyLost(c)
  PROVE  VInv'
<1> USE TypesNow
<1>0. PICK i \in Ids : i = pv[c].id
  BY DEF DeleteVolume, DeleteReplyLost, FieldsSet
<1>1. /\ UNCHANGED <<pv, call, overwritten>> /\ claim[c] = "released"
      /\ \A d \in Claims : d # c => claim'[d] = claim[d]
      /\ claim'[c] \in {"released", "gone"}
      /\ Remove(i) \/ UNCHANGED fs
  BY <1>0 DEF DeleteVolume, DeleteReplyLost, ClaimTypes, policyVars
<1>2. \A d \in Claims : Promised(d) => Mine(d).id # i
  BY <1>0, <1>1 DEF VInv, OneOwner, Promised, Owner, Mine, Held
<1>3. \A j \in Ids : j # i => fs'[j] = fs[j]
  BY <1>1, RemoveEffect
<1>4. \A d \in Claims : Promised(d) => Untouched(Mine(d).id)
  BY <1>1, <1>2, <1>3, AtMine DEF Promised, Untouched
<1>5. call[c].pc = "idle"
  BY <1>1 DEF Remembered
<1>6. \A d \in Claims : NoNewOwner(d)
  BY <1>1, <1>5 DEF NoNewOwner, Promised, Owner, Mine, Held
<1> QED BY <1>4, <1>6, VInvKept

LEMMA ServiceUntouched ==
  ASSUME IInv, NEW i \in Ids, Activate(i) \/ OutsideCreates(i) \/ OutsideDeletes(i)
  PROVE  \A d \in Claims : Promised(d) => Untouched(Mine(d).id)
<1>0. UNCHANGED overwritten /\ \A j \in Ids : j # i => fs'[j] = fs[j]
  BY TypesNow DEF Activate, Update, OutsideCreates, Make, OutsideDeletes, Remove, policyVars
<1>1. CASE Activate(i) \/ OutsideCreates(i)
  <2>1. fs[i].status \in {"none", "creating"}
    BY <1>1 DEF Activate, OutsideCreates, Make
  <2> QED BY <1>0, <2>1, AtMine DEF Promised, Untouched
<1>2. CASE OutsideDeletes(i)
  <2>1. fs'[i].status = "gone" /\ fs'[i].maker = Outside
    BY <1>2, TypesNow DEF OutsideDeletes, Remove
  <2> QED BY <1>0, <2>1, AtMine DEF Promised, Untouched
<1> QED BY <1>1, <1>2

\* A PUT that is applied late keeps all but the squash policy, and is noted.
LEMMA LateSquashUntouched ==
  ASSUME IInv, LateSquash
  PROVE  \A d \in Claims : Promised(d) => Untouched(Mine(d).id)
<1>1. PICK w \in latePuts :
        \/ /\ SetSquash(w[2], w[3])
           /\ overwritten' = IF fs[w[2]].squash = w[3] THEN overwritten
                             ELSE overwritten \union {w[2]}
        \/ UNCHANGED <<fs, overwritten>>
  BY DEF LateSquash
<1>2. w[2] \in Ids /\ w[3] \in Squashes
  BY TypesNow DEF ClaimTypes, PolicyTypes
<1>3. CASE UNCHANGED <<fs, overwritten>>
  BY <1>3, SameUntouched
<1>4. CASE /\ SetSquash(w[2], w[3])
           /\ overwritten' = IF fs[w[2]].squash = w[3] THEN overwritten
                             ELSE overwritten \union {w[2]}
  <2>1. /\ Exists(w[2]) /\ fs'[w[2]].status = "active" /\ SameIdentity(w[2])
        /\ fs'[w[2]].squash = w[3]
        /\ \A j \in Ids : j # w[2] => fs'[j] = fs[j]
    BY <1>2, <1>4, TypesNow, SquashEffect
  <2> QED BY <1>4, <2>1, AtMine DEF Promised, Untouched
<1> QED BY <1>1, <1>3, <1>4

LEMMA ServiceServes ==
  ASSUME IInv, VInv,
         \/ \E i \in Ids : Activate(i) \/ OutsideCreates(i) \/ OutsideDeletes(i)
         \/ LateCreate \/ LateSquash \/ ClassRecreated
  PROVE  VInv'
<1>1. UNCHANGED <<call, claim, pv>>
  BY DEF Activate, OutsideCreates, OutsideDeletes, LateCreate, LateSquash, ClassRecreated
<1>2. \A d \in Claims : NoNewOwner(d)
  BY <1>1 DEF NoNewOwner, Promised, Owner, Mine
<1>3. ASSUME LateCreate
      PROVE  \A d \in Claims : Promised(d) => Untouched(Mine(d).id)
  <2>1. PICK w \in late : UNCHANGED fs \/ \E i \in Ids : Create(w[1], w[2], w[3], i)
    BY <1>3 DEF LateCreate
  <2>2. /\ w[1] \in Claims /\ w[2] \in Spaces /\ w[3] \in Classes
        /\ UNCHANGED overwritten
    BY <1>3, TypesNow DEF ClaimTypes, LateCreate, policyVars
  <2> QED BY <2>1, <2>2, SameUntouched, CreateUntouched
<1>4. ASSUME ClassRecreated
      PROVE  \A d \in Claims : Promised(d) => Untouched(Mine(d).id)
  BY <1>4, SameUntouched DEF ClassRecreated, policyVars
<1> QED BY <1>2, <1>3, <1>4, ServiceUntouched, LateSquashUntouched, VInvKept

LEMMA RestartServes ==
  ASSUME IInv, VInv, Restart
  PROVE  VInv'
<1>1. /\ UNCHANGED <<fs, pv, overwritten>>
      /\ \A d \in Claims : /\ call'[d].pc = "idle"
                           /\ claim'[d] = IF claim[d] = "withdrawn" THEN "gone" ELSE claim[d]
  BY IdleType, TypesNow DEF Restart, policyVars, ClaimTypes
<1>2. \A d \in Claims : NoNewOwner(d)
  BY <1>1 DEF NoNewOwner, Promised, Owner, Mine, Held
<1> QED BY <1>1, <1>2, SameUntouched, VInvKept

LEMMA VInvStep == InjectiveLabels /\ IInv /\ VInv /\ [Next]_vars => VInv'
<1> SUFFICES ASSUME InjectiveLabels, IInv, VInv, [Next]_vars
             PROVE  VInv'
  OBVIOUS
<1>1. ASSUME NEW c \in Claims,
             \/ Want(c) \/ Withdraw(c) \/ ReleaseClaim(c)
             \/ CreateVolumeCall(c) \/ ResolveSpace(c) \/ FindExisting(c) \/ CreateNew(c)
      PROVE  VInv'
  BY <1>1, EarlyServes
<1>2. ASSUME NEW c \in Claims, WaitNew(c) \/ WaitExisting(c)
      PROVE  VInv'
  BY <1>2, WaitServes
<1>3. ASSUME NEW c \in Claims, GetPolicy(c) \/ PutPolicy(c)
      PROVE  VInv'
  BY <1>3, PolicyServes
<1>4. ASSUME NEW c \in Claims, Answer(c)
      PROVE  VInv'
  BY <1>4, AnswerServes
<1>5. ASSUME NEW c \in Claims,
             \/ SpaceRefused(c) \/ ExistingRefused(c) \/ WaitTimesOut(c) \/ ApiFails(c)
             \/ PostLate(c) \/ PutPolicyLate(c)
      PROVE  VInv'
  BY <1>5, ErrorServes
<1>6. ASSUME NEW c \in Claims, DeleteVolume(c) \/ DeleteReplyLost(c)
      PROVE  VInv'
  BY <1>6, DeleteServes
<1>7. CASE UNCHANGED vars
  <2>1. UNCHANGED <<fs, call, claim, pv, overwritten>>
    BY <1>7 DEF vars, policyVars
  <2>2. \A d \in Claims : NoNewOwner(d)
    BY <2>1 DEF NoNewOwner, Promised, Owner, Mine
  <2> QED BY <2>1, <2>2, SameUntouched, VInvKept
<1> QED BY <1>1, <1>2, <1>3, <1>4, <1>5, <1>6, <1>7, ServiceServes, RestartServes DEF Next

LEMMA VolumesServed == InjectiveLabels /\ Spec => []VInv
<1> SUFFICES ASSUME InjectiveLabels
             PROVE  Spec => []VInv
  OBVIOUS
<1>1. Init => VInv
  BY IdleType DEF Init, VInv, OneOwner, Promised, Owner, Held
<1>2. IInv /\ VInv /\ [Next]_vars => VInv'
  BY VInvStep
<1> QED BY <1>1, <1>2, ProvisioningInvariant, PTL DEF Spec

\* DeleteVolume, late or repeated, and CreateVolume's reuse by label never take a
\* bound claim's filesystem away or give it to a second claim.
THEOREM VolumesAreOwned == InjectiveLabels /\ Spec => []BoundOwnsFilesystem
<1> QED BY VolumesServed, VInvMeans, PTL

\* What CreateVolume answers with has the Space, the tags and the squash policy
\* of the call that answered, whatever calls with other parameters ran before,
\* and keeps them while the claim is bound; only a PUT of setInitialSquashPolicy
\* that the service applies after its caller gave up can change the squash
\* policy.
THEOREM VolumesAsRequested == InjectiveLabels /\ Spec => []BoundAsRequested
<1> QED BY VolumesServed, VInvMeans, PTL

=============================================================================
