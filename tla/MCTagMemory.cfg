SPECIFICATION Spec
CONSTANTS
  Blocks = {b1, b2, b3, b4, b5}
  NoBlock = NULL
  MaxTags = 2
  MaxNotices = 3
  MaxWords = 3
INVARIANTS TypeOK HeapIsOwned FreesAreSound LengthMatchesData CopiedIsAnswer TagsAreOfOnePoll
  DataIsOfItsTag
SYMMETRY AnyBlock
CHECK_DEADLOCK FALSE
