CONSTANTS
  Threads = {a, b}
  Contents = {X, Y}
  MaxFiles = 2
  Nothing = Nothing
  None = None
SPECIFICATION Spec
INVARIANT WorkspaceGetsUpload
