CONSTANTS c = c  h = h  o = o
CONSTANT Users <- MCUsers
CONSTANT Claimer = c
CONSTANT Challenger = h
CONSTANT Agents = {h}
CONSTANT MaxRounds = 2
CONSTANT MaxPending = 2
SPECIFICATION Spec
PROPERTY GameConcludes
