\* One request at a time, and the cleanup.
SPECIFICATION Spec
CONSTANTS
  Folders = {d1}
  Files = {f1}
  Handlers = {h1}
  Cleaner = cleaner
  None = none
SYMMETRY Symmetry
PROPERTY CleanupDeletesTrashOnly
