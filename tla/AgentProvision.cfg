SPECIFICATION Spec
CONSTANTS
  Runs = {r1, r2, r3}
  Names = {"a", "b", "x"}
  AllowedNames = {"a", "b"}
  Manifests <- MCManifests
  MaxRemovals = 1
SYMMETRY Symmetry
INVARIANTS
  TypeOK
  ToolsOnce
  AgentOnce
  ListedIsAttached
  DeployedIsTrue
CHECK_DEADLOCK FALSE
