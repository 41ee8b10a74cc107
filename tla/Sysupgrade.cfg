SPECIFICATION Spec
CONSTANTS
  File = {network, shadow}
  Absent = Absent
  None = None
  Fault = {"ramdisk", "cut", "full", "early"}
INVARIANTS ConfigKept ArchiveAsked EditsStay
CHECK_DEADLOCK FALSE
