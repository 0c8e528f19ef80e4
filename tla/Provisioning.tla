---------------------------- MODULE Provisioning ----------------------------
(***************************************************************************)
(* The life of a filesystem: CreateVolume, which resolves the StorageClass *)
(* to a Space, looks the filesystem up in it by its label, reuses it or    *)
(* creates it, waits for it and sets its squash policy, without any lock;  *)
(* and DeleteVolume.                                                       *)
(*                                                                         *)
(* The csi-provisioner runs one call at a time for a claim and retries it. *)
(* It gives a withdrawn claim up as soon as it believes that nothing is in *)
(* progress: after a final error, or before any call.  The StorageClass is *)
(* read anew for every call, and may have been recreated with different    *)
(* parameters.  A POST or PUT whose caller gave up may be applied later.   *)
(* Of the access policy only the squash policy is modelled here, without   *)
(* its status: AccessPolicy has both.                                      *)
(***************************************************************************)
EXTENDS Naturals, FiniteSets

CONSTANTS
  Claims,    \* volume names the csi-provisioner asks for
  Labels,
  LabelOf,   \* the label CreateVolume derives from a volume name
  Ids,       \* bound: the filesystem IDs the service will ever hand out
  Spaces,
  SpacesOf,  \* the Spaces that a StorageClass names, by ID or by label
  Tags,
  Squashes,
  Default,   \* the squash policy of a new filesystem
  Unset,     \* the StorageClass sets no squash policy
  Classes,   \* the parameters the StorageClass may be created with
  Foreign    \* those of filesystems that others make in the Spaces

Outside == "outside"
NoId == "none"

ASSUME LabelOfAssumption == LabelOf \in [Claims -> Labels]
ASSUME OutsideAssumption == Outside \notin Claims
ASSUME DefaultAssumption == Default \in Squashes
ASSUME UnsetAssumption == Unset \notin Squashes
ASSUME ClassesAssumption ==
  /\ SpacesOf \in [DOMAIN SpacesOf -> SUBSET Spaces]
  /\ Classes \subseteq [space: DOMAIN SpacesOf, tags: Tags, squash: Squashes \union {Unset}]
ASSUME ForeignAssumption == Foreign \subseteq [space: Spaces, tags: Tags, squash: Squashes]

VARIABLES
  fs,         \* the filesystems of the Spaces
  class,      \* the parameters of the StorageClass
  call,       \* the CreateVolume handler of each claim
  claim,      \* what the csi-provisioner is at for each claim
  unsure,     \* claims with a call whose outcome it does not know
  pv,         \* the PersistentVolume of each claim: its handle, and the
              \* parameters of the call that answered
  late,       \* POSTs whose caller gave up and that the service still holds
  latePuts,   \* policy PUTs of that kind
  overwritten, \* history: filesystems whose squash policy such a PUT changed
              \* after the last look that a handler took at it
  abandoned   \* history: claims whose filesystem may exist, or come to exist,
              \* although the csi-provisioner takes their calls as ended

policyVars == <<latePuts, overwritten>>
vars == <<fs, class, call, claim, unsure, pv, late, policyVars, abandoned>>

FS == [status: {"none"}]
   \union [status: {"creating", "active"}, space: Spaces, label: Labels,
           tags: Tags, squash: Squashes, maker: Claims \union {Outside}]
   \union [status: {"gone"}, maker: Claims \union {Outside}]

NoParams == [space |-> Unset, tags |-> Unset, squash |-> Unset]

\* A handler that waits for a filesystem, and one whose filesystem was active.
Waiting == {"waitnew", "waitexisting"}
Finalizing == {"getpolicy", "putpolicy", "answer"}

Call == [pc: {"idle", "resolve", "list", "post"} \union Waiting \union Finalizing,
         space: Spaces \union {Unset},
         id: Ids \union {NoId},
         params: Classes \union {NoParams}]

\* The fields that a handler and a volume must have set by then.
FieldsSet(c) ==
  /\ call[c].pc # "idle" => call[c].params \in Classes
  /\ call[c].pc \notin {"idle", "resolve"} => call[c].space \in Spaces
  /\ call[c].pc \in Waiting \union Finalizing => call[c].id \in Ids
  /\ call[c].pc \in Finalizing \ {"answer"} => call[c].params.squash # Unset
  /\ claim[c] \in {"bound", "released"} => pv[c].id \in Ids /\ pv[c].params \in Classes

TypeOK ==
  /\ fs \in [Ids -> FS]
  /\ class \in Classes
  /\ call \in [Claims -> Call]
  /\ claim \in [Claims -> {"none", "wanted", "withdrawn", "bound", "released", "gone"}]
  /\ pv \in [Claims -> [id: Ids \union {NoId}, params: Classes \union {NoParams}]]
  /\ \A c \in Claims : FieldsSet(c)
  /\ unsure \subseteq Claims
  /\ late \subseteq Claims \X Spaces \X Classes
  /\ latePuts \subseteq Claims \X Ids \X Squashes
  /\ overwritten \subseteq Ids
  /\ abandoned \subseteq Claims

Idle == [pc |-> "idle", space |-> Unset, id |-> NoId, params |-> NoParams]

Init ==
  /\ fs = [i \in Ids |-> [status |-> "none"]]
  /\ class \in Classes
  /\ call = [c \in Claims |-> Idle]
  /\ claim = [c \in Claims |-> "none"]
  /\ unsure = {}
  /\ pv = [c \in Claims |-> [id |-> NoId, params |-> NoParams]]
  /\ late = {}
  /\ latePuts = {}
  /\ overwritten = {}
  /\ abandoned = {}

-----------------------------------------------------------------------------
(* The service, and whoever else uses the Space.                            *)

Exists(i) == fs[i].status \in {"creating", "active"}

\* Mutant: the lookup does not filter.
LabelledAny(space, label) == {i \in Ids : Exists(i) /\ fs[i].space = space}

Labelled(space, label) ==
  {i \in Ids : Exists(i) /\ fs[i].space = space /\ fs[i].label = label}

Make(i, space, label, tags, squash, status, maker) ==
  /\ fs[i].status = "none"
  /\ fs' = [fs EXCEPT ![i] = [status |-> status, space |-> space, label |-> label,
                              tags |-> tags, squash |-> squash, maker |-> maker]]

\* CreateNFSFilesystem is idempotent by label: it returns the filesystem that
\* carries it, if the parameters agree.  Otherwise it refuses (no step here).
Create(c, space, params, i) ==
  \/ /\ i \in Labelled(space, LabelOf[c])
     /\ fs[i].tags = params.tags
     /\ UNCHANGED fs
  \/ /\ Labelled(space, LabelOf[c]) = {}
     /\ Make(i, space, LabelOf[c], params.tags, Default, "creating", c)

\* The filesystem becomes, or stays, active; its other fields never change.
Update(i, squash) ==
  fs' = [fs EXCEPT ![i] = [status |-> "active", space |-> fs[i].space, label |-> fs[i].label,
                           tags |-> fs[i].tags, squash |-> squash, maker |-> fs[i].maker]]

Activate(i) ==
  /\ fs[i].status = "creating"
  /\ Update(i, fs[i].squash)
  /\ UNCHANGED <<class, call, claim, unsure, pv, late, policyVars, abandoned>>

\* UpdateNFSFilesystemAccessPolicy.
SetSquash(i, squash) == fs[i].status = "active" /\ Update(i, squash)

\* It finds the filesystem as it is now, whatever was answered since.
LateSquash ==
  \E w \in latePuts :
    /\ \/ /\ SetSquash(w[2], w[3])
          /\ overwritten' = IF fs[w[2]].squash = w[3] THEN overwritten
                            ELSE overwritten \union {w[2]}
       \/ UNCHANGED <<fs, overwritten>>  \* refused
    /\ latePuts' = latePuts \ {w}
    /\ UNCHANGED <<class, call, claim, unsure, pv, late, abandoned>>

LateCreate ==
  \E w \in late :
    /\ \/ \E i \in Ids : Create(w[1], w[2], w[3], i)
       \/ UNCHANGED fs  \* refused
    /\ late' = late \ {w}
    /\ UNCHANGED <<class, call, claim, unsure, pv, policyVars, abandoned>>

OutsideCreates(i) ==
  /\ \E new \in Foreign, label \in Labels :
       /\ Labelled(new.space, label) = {}
       /\ Make(i, new.space, label, new.tags, new.squash, "active", Outside)
  /\ UNCHANGED <<class, call, claim, unsure, pv, late, policyVars, abandoned>>

Remove(i) == Exists(i) /\ fs' = [fs EXCEPT ![i] = [status |-> "gone", maker |-> fs[i].maker]]

OutsideDeletes(i) ==
  /\ fs[i].status # "none"
  /\ fs[i].maker = Outside
  /\ Remove(i)
  /\ UNCHANGED <<class, call, claim, unsure, pv, late, policyVars, abandoned>>

ClassRecreated ==
  /\ class' \in Classes
  /\ UNCHANGED <<fs, call, claim, unsure, pv, late, policyVars, abandoned>>

-----------------------------------------------------------------------------
(* The csi-provisioner.                                                     *)

Want(c) ==
  /\ claim[c] = "none"
  /\ claim' = [claim EXCEPT ![c] = "wanted"]
  /\ UNCHANGED <<fs, class, call, unsure, pv, late, policyVars, abandoned>>

Withdraw(c) ==
  /\ claim[c] = "wanted"
  /\ claim' = [claim EXCEPT ![c] = IF c \in unsure THEN "withdrawn" ELSE "gone"]
  /\ UNCHANGED <<fs, class, call, unsure, pv, late, policyVars, abandoned>>

ReleaseClaim(c) ==
  /\ claim[c] = "bound"
  /\ claim' = [claim EXCEPT ![c] = "released"]
  /\ UNCHANGED <<fs, class, call, unsure, pv, late, policyVars, abandoned>>

-----------------------------------------------------------------------------
(* CreateVolume.                                                            *)

CreateVolumeCall(c) ==
  /\ claim[c] \in {"wanted", "withdrawn"}
  /\ call[c].pc = "idle"
  /\ call' = [call EXCEPT ![c] = [pc |-> "resolve", space |-> Unset, id |-> NoId,
                                   params |-> class]]
  /\ unsure' = unsure \union {c}
  /\ UNCHANGED <<fs, class, claim, pv, late, policyVars, abandoned>>

Goto(c, pc, id) ==
  /\ call' = [call EXCEPT ![c] = [pc |-> pc, space |-> call[c].space, id |-> id,
                                   params |-> call[c].params]]
  /\ UNCHANGED <<class, claim, unsure, pv, late, abandoned>>

ReturnOK(c) ==
  /\ call' = [call EXCEPT ![c] = Idle]
  /\ unsure' = unsure \ {c}
  /\ pv' = [pv EXCEPT ![c] = [id |-> call[c].id, params |-> call[c].params]]
  /\ claim' = [claim EXCEPT ![c] = IF @ = "wanted" THEN "bound" ELSE "released"]

\* An error the csi-provisioner takes for the end of the call.
ReturnFinal(c) ==
  /\ call' = [call EXCEPT ![c] = Idle]
  /\ unsure' = unsure \ {c}
  /\ claim' = [claim EXCEPT ![c] = IF @ = "withdrawn" THEN "gone" ELSE @]
  /\ UNCHANGED <<class, pv>>

\* An error after which it takes the operation to be still in progress:
\* Canceled, DeadlineExceeded, Unavailable.
ReturnRetriable(c) ==
  /\ call' = [call EXCEPT ![c] = Idle]
  /\ UNCHANGED <<class, claim, unsure, pv>>

\* A filesystem that an earlier call made in another Space is out of its sight.
LookIn(c, space) ==
  /\ call' = [call EXCEPT ![c] = [pc |-> "list", space |-> space, id |-> NoId,
                                   params |-> call[c].params]]
  /\ abandoned' = IF \E i \in Ids : Exists(i) /\ fs[i].maker = c /\ fs[i].space # space
                  THEN abandoned \union {c}
                  ELSE abandoned
  /\ UNCHANGED <<fs, class, claim, unsure, pv, late, policyVars>>

\* Mutant: of several Spaces with one label, any is taken.
ResolveSpaceAny(c) ==
  /\ call[c].pc = "resolve"
  /\ \E s \in SpacesOf[call[c].params.space] : LookIn(c, s)

\* The region, the Space and its access policy are read.  Every call looks the
\* label of a Space up anew.
ResolveSpace(c) ==
  /\ call[c].pc = "resolve"
  /\ \E s \in Spaces : SpacesOf[call[c].params.space] = {s} /\ LookIn(c, s)

\* NotFound, and FailedPrecondition for a label of several Spaces; InvalidArgument
\* for parameters that name none.
SpaceRefused(c) ==
  /\ call[c].pc = "resolve"
  /\ \A s \in Spaces : SpacesOf[call[c].params.space] # {s}
  /\ ReturnFinal(c)
  /\ abandoned' = abandoned \union {c}
  /\ UNCHANGED <<fs, late, policyVars>>

\* Mutant: a filesystem that is found is an error.
FindExistingRefused(c) ==
  /\ call[c].pc = "list"
  /\ \/ Labelled(call[c].space, LabelOf[c]) = {} /\ Goto(c, "post", NoId)
     \/ Labelled(call[c].space, LabelOf[c]) # {} /\ ReturnFinal(c) /\ UNCHANGED <<late, abandoned>>
  /\ UNCHANGED <<fs, policyVars>>

\* Found by label in the Space: reuse it, else create it.
FindExisting(c) ==
  /\ call[c].pc = "list"
  /\ \/ Labelled(call[c].space, LabelOf[c]) = {} /\ Goto(c, "post", NoId)
     \/ \E i \in Labelled(call[c].space, LabelOf[c]) : Goto(c, "waitexisting", i)
  /\ UNCHANGED <<fs, policyVars>>

CreateNew(c) ==
  /\ call[c].pc = "post"
  /\ \E i \in Ids : Create(c, call[c].space, call[c].params, i) /\ Goto(c, "waitnew", i)
  /\ UNCHANGED policyVars

\* finalizeFilesystemVolume: the policy is looked at if the StorageClass sets one.
GotoFinalize(c) ==
  Goto(c, IF call[c].params.squash = Unset THEN "answer" ELSE "getpolicy", call[c].id)

WaitNew(c) ==
  /\ call[c].pc = "waitnew"
  /\ fs[call[c].id].status = "active"
  /\ GotoFinalize(c)
  /\ UNCHANGED <<fs, policyVars>>

\* Mutant: a reused filesystem is not validated.
WaitExistingUnchecked(c) ==
  /\ call[c].pc = "waitexisting"
  /\ fs[call[c].id].status = "active"
  /\ GotoFinalize(c)
  /\ UNCHANGED <<fs, policyVars>>

\* Mutant: whoever made the filesystem is taken to have set its squash policy.
WaitExistingFinal(c) ==
  /\ call[c].pc = "waitexisting"
  /\ fs[call[c].id].status = "active"
  /\ fs[call[c].id].tags = call[c].params.tags
  /\ Goto(c, "answer", call[c].id)
  /\ UNCHANGED <<fs, policyVars>>

\* A reused filesystem is validated once it is active; its tags must match.
WaitExisting(c) ==
  /\ call[c].pc = "waitexisting"
  /\ fs[call[c].id].status = "active"
  /\ fs[call[c].id].tags = call[c].params.tags
  /\ GotoFinalize(c)
  /\ UNCHANGED <<fs, policyVars>>

\* AlreadyExists.
ExistingRefused(c) ==
  /\ call[c].pc = "waitexisting"
  /\ fs[call[c].id].status = "active"
  /\ fs[call[c].id].tags # call[c].params.tags
  /\ ReturnFinal(c)
  /\ abandoned' = abandoned \union {c}
  /\ UNCHANGED <<fs, late, policyVars>>

\* setInitialSquashPolicy.  The PUT is left out when the policy is as wanted; in
\* space mode the ACL counts too, and the PUT may set only that.
GetPolicy(c) ==
  LET i == call[c].id IN
  /\ call[c].pc = "getpolicy"
  /\ Exists(i)
  /\ \/ Goto(c, "putpolicy", i) /\ UNCHANGED overwritten
     \/ /\ fs[i].squash = call[c].params.squash
        /\ Goto(c, "answer", i)
        /\ overwritten' = overwritten \ {i}
  /\ UNCHANGED <<fs, latePuts>>

PutPolicy(c) ==
  /\ call[c].pc = "putpolicy"
  /\ SetSquash(call[c].id, call[c].params.squash)
  /\ Goto(c, "answer", call[c].id)
  /\ overwritten' = overwritten \ {call[c].id}
  /\ UNCHANGED latePuts

\* The wait for the policy's status, left out here, comes before it.
Answer(c) ==
  /\ call[c].pc = "answer"
  /\ ReturnOK(c)
  /\ UNCHANGED <<fs, class, late, policyVars, abandoned>>

\* Mutant: a wait that timed out is an error like others.
WaitTimesOutFinal(c) ==
  /\ call[c].pc \in Waiting \union {"answer"}
  /\ ReturnFinal(c)
  /\ UNCHANGED <<fs, late, policyVars, abandoned>>

\* A wait ends by its own five minutes or by the caller's, which an answer may
\* miss as well: linodeWaitError keeps DeadlineExceeded and Canceled apart from
\* other errors.
WaitTimesOut(c) ==
  /\ call[c].pc \in Waiting \union {"answer"}
  /\ ReturnRetriable(c)
  /\ UNCHANGED <<fs, late, policyVars, abandoned>>

\* A call of the API failed: linodeError makes it Unavailable (429, 502 to 504)
\* or an error that is final.  The POST, or the PUT of the policy, may have been
\* applied all the same.
ApiFails(c) ==
  /\ call[c].pc # "idle"
  /\ call[c].pc = "answer" => call[c].params.squash # Unset
  /\ \/ UNCHANGED fs
     \/ call[c].pc = "post" /\ \E i \in Ids : Create(c, call[c].space, call[c].params, i)
     \/ call[c].pc = "putpolicy" /\ SetSquash(call[c].id, call[c].params.squash)
  /\ \/ ReturnRetriable(c) /\ UNCHANGED abandoned
     \/ ReturnFinal(c) /\ abandoned' = abandoned \union {c}
  /\ UNCHANGED <<late, policyVars>>

\* As ApiFails, but the service applies the POST only later, if at all.
\* (Bound: the service holds one POST or PUT of a claim.)
PostLate(c) ==
  /\ call[c].pc = "post"
  /\ \A w \in late \union latePuts : w[1] # c
  /\ late' = late \union {<<c, call[c].space, call[c].params>>}
  /\ ReturnRetriable(c) \/ ReturnFinal(c)
  /\ abandoned' = abandoned \union {c}
  /\ UNCHANGED <<fs, policyVars>>

\* The same of the PUT.
PutPolicyLate(c) ==
  /\ call[c].pc = "putpolicy"
  /\ \A w \in late \union latePuts : w[1] # c
  /\ latePuts' = latePuts \union {<<c, call[c].id, call[c].params.squash>>}
  /\ \/ ReturnRetriable(c) /\ UNCHANGED abandoned
     \/ ReturnFinal(c) /\ abandoned' = abandoned \union {c}
  /\ UNCHANGED <<fs, late, overwritten>>

-----------------------------------------------------------------------------
(* DeleteVolume: a single DELETE, refused while the filesystem has data.    *)

\* Mutant: a 404 is an error.
DeleteVolumeOnce(c) ==
  /\ claim[c] = "released"
  /\ Remove(pv[c].id)
  /\ claim' = [claim EXCEPT ![c] = "gone"]
  /\ UNCHANGED <<class, call, unsure, pv, late, policyVars, abandoned>>

DeleteVolume(c) ==
  /\ claim[c] = "released"
  /\ \/ Remove(pv[c].id)
     \/ ~Exists(pv[c].id) /\ UNCHANGED fs  \* 404 is success
  /\ claim' = [claim EXCEPT ![c] = "gone"]
  /\ UNCHANGED <<class, call, unsure, pv, late, policyVars, abandoned>>

DeleteReplyLost(c) ==
  /\ claim[c] = "released"
  /\ Remove(pv[c].id)
  /\ UNCHANGED <<class, call, claim, unsure, pv, late, policyVars, abandoned>>

\* The controller pod, with the csi-provisioner in it, restarts: the handlers
\* are gone, and so is the memory of operations in progress.
Restart ==
  /\ call' = [c \in Claims |-> Idle]
  /\ claim' = [c \in Claims |-> IF claim[c] = "withdrawn" THEN "gone" ELSE claim[c]]
  /\ abandoned' = abandoned \union unsure
  /\ unsure' = {}
  /\ UNCHANGED <<fs, class, pv, late, policyVars>>

Next ==
  \/ \E c \in Claims :
       \/ Want(c) \/ Withdraw(c) \/ ReleaseClaim(c)
       \/ CreateVolumeCall(c) \/ ResolveSpace(c) \/ SpaceRefused(c)
       \/ FindExisting(c) \/ CreateNew(c)
       \/ WaitNew(c) \/ WaitExisting(c) \/ ExistingRefused(c)
       \/ GetPolicy(c) \/ PutPolicy(c) \/ Answer(c)
       \/ WaitTimesOut(c) \/ ApiFails(c) \/ PostLate(c) \/ PutPolicyLate(c)
       \/ DeleteVolume(c) \/ DeleteReplyLost(c)
  \/ \E i \in Ids : Activate(i) \/ OutsideCreates(i) \/ OutsideDeletes(i)
  \/ LateCreate \/ LateSquash
  \/ ClassRecreated
  \/ Restart

Spec == Init /\ [][Next]_vars

\* The service answers and activates; a POST it holds is applied or refused in
\* the end; the csi-provisioner retries.
Fairness ==
  /\ \A i \in Ids : WF_vars(Activate(i))
  /\ WF_vars(LateCreate)
  /\ \A c \in Claims :
       /\ WF_vars(ApiFails(c))
       /\ WF_vars(CreateVolumeCall(c))
       /\ SF_vars(ResolveSpace(c)) /\ SF_vars(FindExisting(c)) /\ SF_vars(CreateNew(c))
       /\ SF_vars(WaitNew(c)) /\ SF_vars(WaitExisting(c))
       /\ SF_vars(GetPolicy(c)) /\ SF_vars(PutPolicy(c)) /\ SF_vars(Answer(c))
       /\ SF_vars(DeleteVolume(c))

FairSpec == Spec /\ Fairness

-----------------------------------------------------------------------------
(* Properties.                                                              *)

\* A bound claim has a filesystem, mountable and its own: no DeleteVolume,
\* however late or repeated, takes it away, and no other claim reuses it.
\* (Whoever made a filesystem outside the driver may delete it.)
BoundOwnsFilesystem ==
  \A c \in Claims :
    claim[c] = "bound" =>
      /\ fs[pv[c].id].status = "active" \/ fs[pv[c].id].maker = Outside
      /\ \A d \in Claims : claim[d] \in {"bound", "released"} /\ pv[d].id = pv[c].id => d = c

\* It lies in the one Space that the StorageClass named, and has the tags and
\* the squash policy of the call that answered, whatever an earlier attempt with
\* other parameters left behind; but a policy PUT that an earlier attempt gave up
\* can still overwrite the squash policy, and nothing puts it right.
BoundAsRequested ==
  \A c \in Claims :
    claim[c] = "bound" /\ Exists(pv[c].id) =>
      /\ SpacesOf[pv[c].params.space] = {fs[pv[c].id].space}
      /\ fs[pv[c].id].tags = pv[c].params.tags
      /\ \/ pv[c].params.squash \in {Unset, fs[pv[c].id].squash}
         \/ pv[c].id \in overwritten

\* A claim that is done with leaves no filesystem, unless one of its calls
\* ended in a final error, in a restart or in a POST applied after the call, or
\* looked in another Space than the call before it.
NothingLeft ==
  \A c \in Claims \ abandoned :
    claim[c] = "gone" => \A i \in Ids : Exists(i) => fs[i].maker # c

\* The troubleshooting guide: a filesystem found with another squash policy is
\* refused.
ForeignSquashKept ==
  [][\A i \in Ids :
       fs[i].status = "active" /\ fs[i].maker = Outside /\ fs'[i].status = "active" =>
         fs'[i].squash = fs[i].squash]_vars

\* A wanted claim is answered or withdrawn, unless the StorageClass names no
\* one Space, or the claim's label is taken there by a filesystem with other
\* tags (or the bound on IDs is reached).
ProvisioningCompletes ==
  \A c \in Claims :
    claim[c] = "wanted" ~>
      \/ claim[c] # "wanted"
      \/ Cardinality(SpacesOf[class.space]) # 1
      \/ \E s \in SpacesOf[class.space] :
           \E i \in Labelled(s, LabelOf[c]) : fs[i].tags # class.tags
      \/ \A i \in Ids : fs[i].status # "none"

\* A released claim's filesystem is deleted in the end, also when the reply to
\* the DELETE is lost.
DeletionCompletes ==
  \A c \in Claims : claim[c] = "released" ~> claim[c] = "gone"

-----------------------------------------------------------------------------
(* The inductive invariant.                                                 *)

\* No two volume names give one label, which lowercases and cuts off a name: so
\* it is of names like pvc-<uuid>.
InjectiveLabels == \A c, d \in Claims : LabelOf[c] = LabelOf[d] => c = d

\* A label is carried once in a Space.
LabelsUnique ==
  \A i, j \in Ids :
    Exists(i) /\ Exists(j) /\ fs[i].space = fs[j].space /\ fs[i].label = fs[j].label => i = j

\* What the driver makes for a claim carries the claim's label.
MadeUnderOwnLabel ==
  \A i \in Ids : Exists(i) /\ fs[i].maker # Outside => fs[i].label = LabelOf[fs[i].maker]

\* A call runs only for a claim that the csi-provisioner keeps in mind.
Remembered(c) ==
  /\ call[c].pc # "idle" => c \in unsure
  /\ c \in unsure => claim[c] \in {"wanted", "withdrawn"}
  /\ claim[c] = "withdrawn" => c \in unsure

LateIsAbandoned == \A w \in late : w[1] \in abandoned

\* What a handler has read of its filesystem is still so, if that still exists.
CallKnows(c) ==
  LET i == call[c].id
  IN  /\ call[c].pc \notin {"idle", "resolve"} =>
           SpacesOf[call[c].params.space] = {call[c].space}
      /\ call[c].pc \in Finalizing => fs[i].status # "creating"
      /\ call[c].pc \in Waiting \union Finalizing =>
           /\ fs[i].status # "none"
           /\ Exists(i) =>
                /\ fs[i].space = call[c].space
                /\ fs[i].label = LabelOf[c]
                /\ call[c].pc # "waitexisting" => fs[i].tags = call[c].params.tags

\* A volume's filesystem has been active, under the claim's label.
VolumeKnows(c) ==
  claim[c] \in {"bound", "released"} =>
    /\ fs[pv[c].id].status \notin {"none", "creating"}
    /\ Exists(pv[c].id) => fs[pv[c].id].label = LabelOf[c]

\* Every filesystem made for a claim is in the reach of its next call, in the
\* sight of the present one and then the one that it holds, and at last its
\* volume's, unless the claim counts as abandoned.
InReach(c) ==
  c \in abandoned \/
  \A i \in Ids :
    Exists(i) /\ fs[i].maker = c =>
      /\ c \in unsure \/ claim[c] \in {"bound", "released"}
      /\ call[c].pc \notin {"idle", "resolve"} => fs[i].space = call[c].space
      /\ call[c].pc \in Waiting \union Finalizing => i = call[c].id
      /\ claim[c] \in {"bound", "released"} => i = pv[c].id

IInv ==
  /\ TypeOK
  /\ LabelsUnique /\ MadeUnderOwnLabel
  /\ LateIsAbandoned
  /\ \A c \in Claims : Remembered(c) /\ CallKnows(c) /\ VolumeKnows(c) /\ InReach(c)

=============================================================================
