CONSTANTS
  Absent = Absent
  Numeric = {"4KB"}
  Directory = {"dir"}
  Refusing = {"tool", "late"}
  Foreign <- MCForeign
  List <- MCList
  Files <- MCFiles
  InDirectory <- MCInDirectory
  Builtins <- MCBuiltins
  ArgLists <- MCArgLists
SPECIFICATION Spec
INVARIANTS PassesAgree RunsWhatWasNamed ZeroMeansDone UnloadedOnce
PROPERTIES Ends
