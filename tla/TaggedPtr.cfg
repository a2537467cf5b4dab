CONSTANTS
  WordBits = 6
  AlignBits = 2

SPECIFICATION Spec

INVARIANT TagRoundTrip
INVARIANT NullIgnoresTag
