\* main and one more process; a program of two pages, a page of heap, the stack.
SPECIFICATION Spec
CONSTANTS
  Proc = {main, a}
  Main = main
  Page <- MCPages
  VPage = {1, 2, 3, 4}
  Stack = 4
  Up <- MCUp
  Programs <- MCPrograms
  Uio = {init, uart1, file}
  Exe = {init, file}
  InitExe = init
  Uart1 = uart1
  UIOMAX = 3
  Closable = {0, 1, 2}
  Touched = {3}
VIEW Relevant
CONSTRAINTS
  FewLost
  FewForgotten
  FewNames
CHECK_DEADLOCK FALSE
INVARIANTS
  TypeOK
  NoSharing
  NamedAreOpen
PROPERTIES
  LostOnlyThere
  ForgottenOnlyThere
  ImagesSpec
