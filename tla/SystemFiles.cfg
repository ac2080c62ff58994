SPECIFICATION Spec
CONSTANTS
  c1 = c1
  c2 = c2
  turnip = turnip
  virgl = virgl
  wined3d = wined3d
  dxvk = dxvk
  Containers = {c1, c2}
  Drivers = {turnip, virgl}
  Wrappers = {wined3d, dxvk}
  MaxVersion = 2
  None = None
  Broken = Broken
SYMMETRY MCSymmetry
INVARIANTS
  TypeOK
  ImageWhole
  GuestOnPatchedImage
  
  DriverMatches
CHECK_DEADLOCK FALSE
