CONSTANTS
  Names = {n1, n2}
  o1 = o1
  o2 = o2
  Objects = {o1, o2}
  RelOut = RelOut
  NoFile = NoFile
  Declarations <- SpaceDeclarations
  SectionTables <- RealSections
SPECIFICATION Spec
SYMMETRY Symmetry
INVARIANTS
  DataIsNeverACommon
  OneCollectorPerSpace
PROPERTY ImplementsOneSpace
CHECK_DEADLOCK FALSE
