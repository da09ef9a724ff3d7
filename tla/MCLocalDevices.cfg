CONSTANTS
  Name = {fzLight, fzCam, lamp, light}
  File = {fzLight, fzCam, lamp}
  FzName = {fzLight, fzCam}
  MaxExtra = 1
  MaxAlias = 2
  MaxIgnore = 2
SPECIFICATION Spec
INVARIANTS
  ListedAsConfigured
