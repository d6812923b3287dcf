SPECIFICATION MCSpec
CONSTANTS
  n1 = n1
  n2 = n2
  v1 = v1
  v2 = v2
  inner = inner
  outer = outer
  Procs = {p1, p2, p3}
  Dirs = {inner, outer}
  Walk <- MCWalk
  Names = {n1, n2}
  Values = {v1, v2}
  Template <- MCTemplate
  HandWritten <- MCHandWritten
SYMMETRY Alike
INVARIANT LoneWritersLoseNothing
 
CHECK_DEADLOCK FALSE
