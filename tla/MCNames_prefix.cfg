SPECIFICATION Spec
CONSTANTS
  NoValue = NoValue
  Word = 8
INVARIANTS PrefixMatches
