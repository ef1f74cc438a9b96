SPECIFICATION ControlSpec
CONSTANTS
  Users = {"ann", "bob", "cat"}
  Nobody = "nobody"
  Calls = {"c1", "c2"}
  Scenes <- MCScenes
  MayFail = TRUE
  EditedRoles = {"viewer"}
  MaxRoleEdits = 1
  Editors = {e1, e2}
  Contents = {t1, t2}
  Variables = {v1, v2}
  Absent = Absent
  NoRow = NoRow
  MaxEdits = 3
  Tables <- MCTables
  Opinions <- MCOpinions
  Trials <- MCTrials
  Variants = 3
  Target = 20
  Limits = {2, 7, 20, 100}
  Hours = {40, 41, 43}
  Day = 4
  NoValue = NoValue
  NoName = NoName
  Tabs = {b1, b2}
  Accounts = {"ann", "bob"}
  NoAccount = "none"
  MaxTries = 2
  Hrefs = {"/keys", "/logs", "/routes"}
  Nowhere = Nowhere
  MaxRecent = 2
  PageSize = 2
  Outcomes = {"success", "error"}
  MaxStored = 4
  MaxFetches = 2
SYMMETRY Symmetry
INVARIANTS EveryTextRecorded PairRecorded SerialHistory CloneWhole FiguresAgree BrowserRemembers NoneSkipped
PROPERTIES RowsSound GuardStillHolds
CHECK_DEADLOCK FALSE
