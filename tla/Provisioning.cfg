\* Two claims, two filesystem IDs: calls that fail, are cut off or retried under
\* another StorageClass, late POSTs, restarts, and filesystems made by others.
SPECIFICATION Spec
CONSTANTS
  c1 = c1
  c2 = c2
  l1 = l1
  l2 = l2
  i1 = i1
  i2 = i2
  Claims = {c1, c2}
  Labels = {l1, l2}
  LabelOf <- OwnLabels
  Ids = {i1, i2}
  Spaces = {"s1"}
  SpacesOf <- Named
  Tags = {"t1", "t2"}
  Squashes = {"root_squash", "none"}
  Default = "root_squash"
  Unset = "unset"
  Classes <- TwoClasses
  Foreign <- OtherTags
SYMMETRY Symmetry
INVARIANTS
  IInv
  BoundOwnsFilesystem
  BoundAsRequested
  NothingLeft
