CONSTANTS
  m1 = m1
  m2 = m2
  pw1 = pw1
  pw2 = pw2
  Phrases = {m1, m2}
  Passwords = {pw1, pw2}
  Short = Short
  None = None
  Torn = Torn
  MaxFaults = 2
SPECIFICATION Spec
INVARIANTS UnlockedIsStored StatusIsTold
PROPERTY RootKept
