CONSTANTS
  MaxDrags = 2
  MaxDeltas = 3
  MaxSwitches = 3
  as_MaxSent = 5
  as_MaxTokens = 2
  as_MaxAttempts = 2
  ob_MaxTemplates = 2
  ob_MaxLoads = 2
  ob_MaxPicks = 2
  ob_MaxBuilds = 2
  ob_MaxBinds = 2
  mc_MaxPos = 1
  mc_MaxRequests = 3
  mc_MaxDelay = 2
  jp_MaxCoord = 2
  jp_MaxJogs = 2
  jp_SE3 = TRUE
  jp_Tool = 1
  ws_MaxFetches = 3
  ws_MaxEdits = 1
  jv_Joints = 2
  jv_MAX = 2
  jv_Threshold = 1
  jv_Position = {0, 1, 3}
  jv_MaxMessages = 2
  jv_MaxRenders = 2
  ca_Joints = 1
  ca_MaxJobs = 2
  ca_MaxRequests = 5
  ca_MaxInFlight = 2
  ca_MaxMounts = 2
  ek_MaxPuts = 1
  ek_MaxApplies = 1
  ek_MaxMounts = 1
  ek_MaxOpens = 2
  dh_Joints = {1, 2}
  dh_Easy <- MCEasy
  dh_ReadOnly <- MCReadOnly
  dh_MaxValue = 1
  dh_MaxEdits = 3
  te_MaxRequests = 4
  te_MaxInFlight = 2
  te_MaxPoses = 2
  pr_MaxValue = 1
  pr_MaxPrograms = 3
  pr_MaxSteps = 2
  pr_MaxEdits = 1
  pr_MaxCalls = 4
  pr_MaxInFlight = 2
  pl_MaxValue = 1
  pl_MaxPrograms = 2
  pl_MaxSteps = 2
  pl_MaxEdits = 1
  pl_MaxCalls = 4
  pl_MaxInFlight = 2
  gc_MaxFiles = 2
  gc_MaxCalls = 6
  gc_MaxInFlight = 2
  pp_MotionType = {"rapid", "feed", "arc"}
  pp_MaxPoses = 4
  rv_MaxPrograms = 2
  rv_MaxRuns = 1
  rv_MaxSteps = 1
  rv_MaxGets = 1
  rv_Queue = 1
  ki_Lengths = {0, 1}
  ki_Turns = {0, 1}
  ki_MaxJoints = 2
  ps_MaxMoves = 3
  ps_MaxHistory = 3
  de_Depth = 2
  de_MaxValue = 1
  de_MaxCommands = 2
  de_MaxFrames = 3
SPECIFICATION WebSpec
INVARIANT PagesTypeOK
INVARIANT DragLoopSound
INVARIANT RecordingSound
INVARIANT WorkspaceSound
INVARIANT LateAnswersHarmless
INVARIANT LoadThenSaveKeeps
INVARIANT GeometryAgrees
INVARIANT EditsMatchStore
INVARIANT SiteSound
PROPERTY CalibrationJobs
PROPERTY RunsWhatItSaved
CHECK_DEADLOCK FALSE
