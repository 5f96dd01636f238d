\* Two releases, the branch a clone starts with and one more.
SPECIFICATION Spec
CONSTANTS
  Tags = {"v1", "v2"}
  Branches = {"main", "dev"}
  Default = "main"
  None = "none"
  MaxCommits = 3
INVARIANTS ReadsRelease NothingStale
