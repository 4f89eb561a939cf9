CONSTANTS
  Key = {"Volume", "Scale", "GravityFactor", "ShowDiagnosticsPanel"}
  Value = {0, 1}
  Default <- MCDefault
  EngineKey = {"Scale", "GravityFactor"}
  Local = {"Volume", "Scale"}
  Edit = {1, 2}
  MaxCrashes = 1
SPECIFICATION Spec
INVARIANTS LastChangeHolds EnginesAgree FileReadable SizeFollowsContent
PROPERTIES RequestsEnd
CHECK_DEADLOCK FALSE
