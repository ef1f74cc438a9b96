SPECIFICATION CPSpec
CONSTANTS
  Users = {"ann", "bob", "cat"}
  Nobody = "nobody"
  Calls = {"c1", "c2"}
  Scenes <- MCScenes
  MayFail = FALSE
  EditedRoles = {"viewer"}
  MaxRoleEdits = 0
INVARIANTS ReplayRecorded
CHECK_DEADLOCK FALSE
