SPECIFICATION Spec
CONSTANTS
  Mark = {"x", "y", "sp", "nl"}
  Contents <- MCContents
  Patches <- MCPatches
  Writes <- MCWrites
  Context = 1
  MaxDiffBytes = 5
  MaxLineProduct = 20
INVARIANTS
  DiffIsFaithful
PROPERTIES
  PatchIsExact
