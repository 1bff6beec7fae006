CONSTANTS
  Align = 2
  Header = 4
  Page = 12
  Limit = 48
  Requests = {1, 4, 10}
  Null = Null
SPECIFICATION Spec
INVARIANT BlocksConsistent
INVARIANT Valid
