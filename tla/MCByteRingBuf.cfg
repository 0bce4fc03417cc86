CONSTANTS
  Size = 4
  Byte = {a, b}
  MaxWrite = 5
SPECIFICATION Spec
INVARIANTS TypeOK EndsWithIsSuffix CompareIsPrefix
PROPERTIES Implements WritesPut
