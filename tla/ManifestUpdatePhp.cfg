SPECIFICATION Spec
CONSTANTS
  Setups <- Php
  Versions <- SomeVersions
  Old <- SomeOld
  Stacks = {"cflinuxfs3", "cflinuxfs4"}
  CopyStacks = {"bionic"}
  PhpLines <- SomeLines
  DefaultLine <- FirstLine
INVARIANT PhpDefaultIsInManifest
