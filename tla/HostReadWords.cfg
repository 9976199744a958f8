SPECIFICATION Spec
CONSTANTS
  MEMORY_SIZE_BYTES = 64
  MAX_READ = 40
  Ptrs = {8, 9, 10, 11, 24}
  Lens = {0, 1, 3, 4, 7, 12, 20, 36, 40, 41}
  Answers = {1, 2, 3, 4, 5, 7, 8, 12, 15, 16, 17, 20, 23, 28, 32, 36, 40}
INVARIANT WordsArrive
CHECK_DEADLOCK FALSE
