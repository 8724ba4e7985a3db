SPECIFICATION Spec
CONSTANTS
  Names = {f, g}
  Inos = {i1}
  Dents = {d1, d2}
  Objs = {o1, o2}
  None = None
  Gone = Gone
  Calls = {"create", "symlink", "mkdir", "mknod", "link", "unlink", "open", "reclaim", "prune", "restart"}
  MaxIdle = 1
  MaxDebt = 1
  MaxLife = 2
  MaxLinks = 1
  MaxFaults = 1
SYMMETRY Symmetry
INVARIANTS OwnData
