CONSTANTS
  Size = 3
  Value = {a, b}
SPECIFICATION Spec
INVARIANTS TypeOK EndsAgree EndsWithIsSuffix
PROPERTIES Implements PushesPut
