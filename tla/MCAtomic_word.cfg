\* Two processors, words of two bits, the three headers.
SPECIFICATION FairSpec
CONSTANTS
  p = p
  q = q
  Procs = {p, q}
  Calls <- MCCalls
  Modulus = 4
  BitAnd <- MCBitAnd
  BitOr <- MCBitOr
  Archs = {"arm", "mips", "x86"}
  NoCall = NoCall
  None = None
PROPERTIES
  ImplementsWord
  LockFree
