SPECIFICATION LawsSpec
INVARIANTS
  ArithmeticExact
  WordsAreTwoBytes
  DecimalAdjusted
  RotationsUndone
  ShortcutsAgree
  EachOpcodeItsOwn
  PrefixSubstitutes
