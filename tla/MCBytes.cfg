SPECIFICATION Spec
CONSTANTS
  fileA = fileA  fileB = fileB  arrA = arrA  arrB = arrB  None = None
\* A file that is shut down and an array that is refused stop for good.
CHECK_DEADLOCK FALSE
INVARIANTS BlocksShowBytes MappingsCover
PROPERTIES ActsAsByteFiles ActsAsItems
