SPECIFICATION Spec
CONSTANTS
  Proc = {p1, p2}
  v1 = v1
  v2 = v2
  a1 = a1
  a2 = a2
  Version <- MCVersion
  Artifact <- MCArtifact
  Rows <- MCRows
  Journal = Journal
  Manifest = Manifest
  Absent = Absent
  Broken = Broken
  NoProc = NoProc
  Nothing = Nothing
SYMMETRY Symmetric
INVARIANT DirectoryFits
PROPERTIES NeverOverwritten WholeIsRecovered AbstractSpec
