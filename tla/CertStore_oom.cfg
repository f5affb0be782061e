CONSTANTS
  c1 = c1  c2 = c2
  Certs <- MC_Certs
  Size <- MC_Size
  Heap = 8
  MaxAllocs = 6
  MaxHeld = 1
  Variants = {"src"}
SPECIFICATION Spec
INVARIANT NoNullWrite
