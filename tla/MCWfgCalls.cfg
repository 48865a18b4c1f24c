\* Two resources and three threads: enough for a cycle that a third thread
\* waits for without being in it.
CONSTANTS
  Threads = {t1, t2, t3}
  Resources = {r1, r2}
  Nobody = Nobody
SPECIFICATION WfgSpec
INVARIANTS WfgInv
PROPERTIES GraphSpec ReturnsWithoutCycle
