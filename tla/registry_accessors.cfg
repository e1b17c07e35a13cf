SPECIFICATION Spec
CONSTANTS
  App = {"a", "b"}
  Pkgs = {"p", "q"}
  Imports <- MCImports
  Declares <- MCDeclares
  Mockable = {"b", "q"}
  Async = {"q"}
  MayThrow = {"b"}
  Decorated = {"b"}
  GetterOnly = {"a", "b"}
  Names = {"f"}
  UnmocksSetup = FALSE
  MaxFiles = 2
  MaxMocks = 1
  MaxHeap = 3
INVARIANTS EveryImporterSeesTheUpdate
CHECK_DEADLOCK FALSE
