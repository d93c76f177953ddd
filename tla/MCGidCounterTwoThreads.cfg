SPECIFICATION Spec
CONSTANTS
  t1 = t1
  t2 = t2
  w1 = w1
  w2 = w2
  Threads = {t1, t2}
  Worlds = {w1, w2}
  Owner <- TwoThreads
  Contents = {c1, c2}
  MaxGid = 7
INVARIANTS WorldsIndependent
