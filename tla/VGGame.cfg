CONSTANTS c = c  h = h  o = o
CONSTANT Users <- MCUsers
CONSTANT Claimer = c
CONSTANT Challenger = h
CONSTANT Agents = {c, h, o}
CONSTANT MaxRounds = 3
CONSTANT MaxPending = 3
SPECIFICATION Spec
INVARIANT TypeOK
INVARIANT RequestsAcceptedWhenComputed
INVARIANT NoFatalErrorForParties
PROPERTY GameConcludes
