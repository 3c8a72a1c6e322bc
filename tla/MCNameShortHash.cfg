\* UniqueDNS1123Label on a name whose hash has leading zero digits.
CONSTANTS
  Alphabet <- MCAlphabet
  Upper <- MCUpper
  MaxInput = 6
  Prefixes <- MCPrefixes
  HashValues <- MCHashValues
  MaxLength = 5
  SuffixLength = 3

SPECIFICATION Spec
INVARIANT UniqueNeverPanics
