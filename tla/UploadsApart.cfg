\* Two uploads of any kinds with any of three names.
SPECIFICATION Spec
CONSTANTS
  Uploads = {u1, u2}
  Parts <- SomeParts
  Names <- ThreeNames
  Folders <- OneFolder
  MaxFiles = 2
  None = none
SYMMETRY Symmetry
INVARIANTS IInv DownloadGivesSent PreviewGivesSent ZipGivesSent PlainCopiesGo ScratchGoes
CHECK_DEADLOCK FALSE
