\* Setups, service accounts and deletes, two at a time, for each part of an
\* AWS and of a Google Cloud account, with two failures.
SPECIFICATION Spec
CONSTANTS
  Sessions = {s1, s2}
  Commands = {"bootstrap", "run", "local", "user", "trust", "delete"}
  Scopes <- Chapters
  Layouts <- FewLayouts
  MaxVersions = 2
  MaxTroubles = 2
INVARIANTS MissingWasLeftUndone SetupCompletes DeleteLeavesNothing DeleteInOrder
SYMMETRY AnySession
VIEW Seen
