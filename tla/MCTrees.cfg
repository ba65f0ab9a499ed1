SPECIFICATION Spec
CONSTANTS
  NULL = NULL
  Absent = Absent
  Nothing = Nothing
  Kinds = {"bst", "avl", "rbt"}
  Keys <- MCKeys
  KeysFor <- MCKeysFor
  LoopKeys <- MCLoopKeys
  ValuesFor <- MCValuesFor
  Preds <- MCPreds
\* A failed rk_assert stops the program.
CHECK_DEADLOCK FALSE
INVARIANTS
  Balanced
  NodesExact
  TraversalExact
PROPERTIES
  RefKept
  ImplementsMap
  LoopsEnd
