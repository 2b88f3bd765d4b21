SPECIFICATION Spec
CONSTANTS
  Sessions = {s1, s2}
  Sizes = {1}
  Budgets = {2, 3, 4}
  Rank <- Minted
  InsertionMax = 24
  MaxMessages = 6
INVARIANTS
  TypeOK
  HiddenIsSummarised
  PromptRetellsSession
PROPERTY
  ImplementsTranscript
