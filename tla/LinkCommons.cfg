CONSTANTS
  Names = {n1}
  o1 = o1
  o2 = o2
  o3 = o3
  Objects = {o1, o2, o3}
  RelOut = RelOut
  NoFile = NoFile
  Declarations <- MCDeclarations
  SectionTables <- MCNoSections
SPECIFICATION Spec
SYMMETRY Symmetry
INVARIANTS
  SpacesAgree
  RelinkIsTransparent
  KeptIsLargest
CHECK_DEADLOCK FALSE
