\* Every input name against both generators, with hashes of full width, of
\* exactly the sliced width, and shorter.
CONSTANTS
  Alphabet <- MCAlphabet
  Upper <- MCUpper
  MaxInput = 6
  Prefixes <- MCPrefixes
  HashValues <- MCHashValues
  MaxLength = 5
  SuffixLength = 3

SPECIFICATION Spec
INVARIANT ShortNamePreserved
INVARIANT UniqueLabelValid
INVARIANT DNS1123LabelFailsOnlyAtCut
INVARIANT PanicOnlyForShortHash
