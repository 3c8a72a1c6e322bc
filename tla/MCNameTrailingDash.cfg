\* DNS1123Label on names whose cut ends in a dash.
CONSTANTS
  Alphabet <- MCAlphabet
  Upper <- MCUpper
  MaxInput = 6
  Prefixes <- MCPrefixes
  HashValues <- FullHashes
  MaxLength = 5
  SuffixLength = 3

SPECIFICATION Spec
INVARIANT DNS1123LabelValid
