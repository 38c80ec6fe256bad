SPECIFICATION Spec
CONSTANTS
  WordBits = 12
  Entries = 2
  Small = 2
  Root = 2
  TablePages <- SomeTablePages
  DataPages <- SomeDataPages
  Vas <- SomeVas
  Pas <- SomePas
  Flags = {{"R"}}
PROPERTY
  SuccessMaps
CHECK_DEADLOCK FALSE
