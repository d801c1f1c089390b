CONSTANTS
  Files = {c1, anz, cle}
  Cleng = {c1}
  Compiler = c1
  Anzipper = anz
  Cleener = cle
  MaxTime = 2
SPECIFICATION Spec
INVARIANTS TypeOK ManifestIsTrue InstalledIsCurrent ToolsAreCurrent
