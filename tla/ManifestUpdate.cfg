SPECIFICATION Spec
CONSTANTS
  Setups <- SomeSetups
  Versions <- SomeVersions
  Old <- SomeOld
  Stacks = {"cflinuxfs3", "cflinuxfs4"}
  CopyStacks = {"bionic"}
  PhpLines <- SomeLines
  DefaultLine <- FirstLine
INVARIANTS
  TypeOK
  OneBinaryPerStack
  OrderIsIrrelevant
  NamedVersionsAreInManifest
  VersionLinesAreNewest
PROPERTY StacksAreNeverLost
