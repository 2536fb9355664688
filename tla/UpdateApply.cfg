SPECIFICATION Spec
CONSTANTS
  Helpers = {h1, h2}
  Files = {common, older}
  Releases = {r0, r1}
  FilesOf <- OneFileLess
  Installed = r0
  RevisionOf <- ToTheOther
  Manifest = Manifest  Revision = Revision
  Absent = Absent  Edited = Edited  Torn = Torn
  None = None
  BackupMayFail = FALSE
SYMMETRY HelperSymmetry
INVARIANTS RolledBack UpdateComplete
PROPERTY EditsNeedConsent
