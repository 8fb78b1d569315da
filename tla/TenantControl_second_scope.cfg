SPECIFICATION DiligentSpec
CONSTANTS
  Callers = {c1}
  Scopes = {s1, s2}
  Caller = c1
  FirstScope = s1
  Control = Control
  Legacy = Legacy
  Nowhere = Nowhere
  MaxVersion = 3
  MaxPassword = 8
PROPERTY ScopeIsPublished
