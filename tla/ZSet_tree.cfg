CONSTANTS
  NULL = NULL
  Name = {1, 2, 3, 4, 5, 6, 7, 8, 9, 10, 11, 12}
  Scores = {0}
SPECIFICATION ZSetSpec
INVARIANTS InOrderSorted TreeShape
