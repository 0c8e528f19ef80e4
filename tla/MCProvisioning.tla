--------------------------- MODULE MCProvisioning ---------------------------
(* Small instances of Provisioning for TLC.                                 *)
EXTENDS Provisioning, TLC

CONSTANTS c1, c2, l1, l2, i1, i2

\* One label per volume name.
OwnLabels == [c \in Claims |-> IF c = c1 THEN l1 ELSE l2]

\* What a StorageClass may name: a Space, or a label that two Spaces carry.
Named == [x \in Spaces \union {"ambiguous"} |-> IF x = "ambiguous" THEN Spaces ELSE {x}]

\* Two StorageClasses that differ in the squash policy, and what somebody else
\* makes in their Space.
TwoClasses == {[space |-> "s1", tags |-> "t1", squash |-> "none"],
               [space |-> "s1", tags |-> "t1", squash |-> "root_squash"]}

OtherTags == {[space |-> "s1", tags |-> "t2", squash |-> "none"]}

\* Two of different Spaces, the second without a squash policy, and one that
\* names two Spaces; what somebody else makes fits the first, not the second.
ThreeClasses == {[space |-> "s1", tags |-> "t1", squash |-> "none"],
                 [space |-> "s2", tags |-> "t2", squash |-> "unset"],
                 [space |-> "ambiguous", tags |-> "t1", squash |-> "none"]}

OneFits == {[space |-> "s1", tags |-> "t1", squash |-> "root_squash"],
            [space |-> "s2", tags |-> "t1", squash |-> "none"]}

\* The IDs are interchangeable, and so are the claims, each with its label.
Swap == [x \in {c1, c2, l1, l2} |->
           CASE x = c1 -> c2 [] x = c2 -> c1 [] x = l1 -> l2 [] OTHER -> l1]

Symmetry == Permutations(Ids) \union {Swap}

=============================================================================
