CONSTANTS
  A = A
  B = B
  C = C
  D = D
  E = E
  F = F
  ALPHABET <- MCAlphabet
  RECENT_LETTERS_MEMORY = 3
SPECIFICATION Spec
INVARIANTS TypeOK RecentLiesDeep DeckWithoutRepeats
PROPERTY DrawsNoRecentLetter
