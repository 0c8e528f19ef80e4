SPECIFICATION Spec
CONSTANTS
  c1 = c1
  c2 = c2
  l1 = l1
  l2 = l2
  i1 = i1
  i2 = i2
  Claims = {c1}
  Labels = {l1}
  LabelOf <- OwnLabels
  Ids = {i1, i2}
  Spaces = {"s1", "s2"}
  SpacesOf <- Named
  Tags = {"t1", "t2"}
  Squashes = {"root_squash", "none"}
  Default = "root_squash"
  Unset = "unset"
  Classes <- TwoClasses
  Foreign <- OneFits
PROPERTIES
  ForeignSquashKept
