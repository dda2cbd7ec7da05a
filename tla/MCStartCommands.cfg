CONSTANTS
  Nul <- N
  Quote <- Q
  Printable <- Letters
  Upper <- Capitals
  Keywords <- Words
  Cap = 8
  MaxText = 6
  Table <- Segments
  Inibu <- Addresses
  FileSize = 1000
  FirstPage <- Pages
  Lists <- Commands
  Starts <- First
  Code <- Garbage
SPECIFICATION Spec
VIEW Areas
INVARIANT NothingInvented
PROPERTIES StoredIsRead CodeSpared
