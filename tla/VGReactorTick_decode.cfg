CONSTANTS u1 = u1  u2 = u2  u3 = u3
CONSTANT Users <- MCUsers
SYMMETRY MCSymmetry
SPECIFICATION Spec

INVARIANT DecodeErrorNamesOffendingInstance
