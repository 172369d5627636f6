CONSTANTS
  Calls = {c1}
  Statuses = {live}
  Emitters = {e1, e2}
  s1 = s1
  s2 = s2
  a = a
  b = b
  Subs = {s1, s2}
  Clients = {a, b}
  ClientOf <- MCClientOf
  Capacity = 2
  MaxOps = 3
  NoCall = NoCall
  NoClient = NoClient
SPECIFICATION Spec
INVARIANTS StreamsSound ViewCurrent EmitterNeverBlocked
SYMMETRY Symmetry
CHECK_DEADLOCK FALSE
