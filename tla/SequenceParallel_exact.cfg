CONSTANTS
  Worlds <- MCWorlds
  Layouts <- MCLayouts
  Heads = 6
  Blocks = 2
  Forwards = 2
  Chunks = 3
  Prompts = 2
  None = None
SPECIFICATION Spec
INVARIANTS CallsAgree ResultsAreExact
PROPERTIES PromptsEnd
CHECK_DEADLOCK FALSE
