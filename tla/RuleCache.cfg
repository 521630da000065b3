SPECIFICATION Spec
CONSTANTS
  t1 = t1
  t2 = t2
  base = base
  ext = ext
  far = far
  main = main
  TM = TM
  TN = TN
  TP = TP
  fx = fx
  fy = fy
  fz = fz
  fw = fw
  fv = fv
  fu = fu
  fs = fs
  NoType = NoType
  Threads = {t1, t2}
  Files = {base, ext, far, main}
  Types = {TM, TN, TP}
  Fields = {fx, fy, fz, fw, fv, fu, fs}
  Preregistered = {}
  Imports <- MCImports
  FileOf <- MCFileOf
  Owner <- MCOwner
  Value <- MCValue
  Extensions <- MCExtensions
  Ruled = {fy, fw, fv, fu, fs}
  Ignored = {fs}
  ItemsIgnored = {fu}
  BrokenTypes = {TP}
  BrokenFields = {}
SYMMETRY ThreadSymmetry
INVARIANTS TypeOK WalkFindsRules ExtensionsFound
PROPERTIES BookSpec
