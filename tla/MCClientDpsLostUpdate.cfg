SPECIFICATION Spec
CONSTANTS
  Tasks = {t1, t2}
  Updates = {u1, u2, u3}
  Foreign = {}
  Base = Base
  MaxWire = 1
  None = None
PROPERTY NoLostUpdate
