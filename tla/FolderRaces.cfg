\* A request, uploads, creations and the cleanup, in every tree of two folders and a file.
SPECIFICATION Spec
CONSTANTS
  Folders = {d1, d2}
  Files = {f1}
  Handlers = {h1}
  Cleaner = cleaner
  None = none
SYMMETRY Symmetry
INVARIANT IInv
PROPERTIES StaysInside OwnersDeleteTrashOnly RestoreIsComplete
