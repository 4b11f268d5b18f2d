SPECIFICATION Spec
CONSTANTS
  low = low kern = kern d1 = d1 s1 = s1 s2 = s2
  f1 = f1 f2 = f2 f3 = f3 f4 = f4 f5 = f5 f6 = f6
  Low = low
  Kern = kern
  Dirs = {d1}
  Slots = {s1, s2}
  First = s1
  Second = s2
  Frames = {f1, f2, f3, f4, f5, f6}
  Kernel = Kernel
  None = None
INVARIANT NoFrameReported
CHECK_DEADLOCK FALSE
