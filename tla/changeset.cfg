\* Every changeset of up to three operations on two RRsets.
CONSTANTS
  Keys = {a, b}
  Rdata = {1, 2}
  MaxOps = 3
  MaxRRset = 2
SPECIFICATION Spec
INVARIANTS
  ResultIsPublished
  OnlyDeletionsDropped
  RetriesAgree
CHECK_DEADLOCK FALSE
