\* Three bytes of memory, two scopes open at once.
CONSTANTS
  LastAddress = 3
  MaxDepth = 2
SPECIFICATION Spec
INVARIANT LinearWork
PROPERTY AnswersUnchanged
