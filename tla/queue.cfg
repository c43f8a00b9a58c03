SPECIFICATION Spec
CONSTANTS
  j1 = j1 j2 = j2 j3 = j3 j4 = j4 None = None
  Jobs = {j1, j2, j3, j4}
PROPERTY ImplementsJobQueue
