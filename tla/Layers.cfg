SPECIFICATION Spec
CONSTANTS
  Width = 2
  Height = 2
  Back = Back
  Main = Main
  Cursor = Cursor
  Apps = {app}
  Terminals = {terminal}
  None = None
  MaxOpen = 1
  OpenAt <- MCOpenAt
  MainAt <- MCMainAt
  TerminalAt <- MCTerminalAt
  CursorAt <- MCCursorAt
  Displacements <- MCDisplacements
INVARIANTS
  ScreenIsComposition
  ActiveOnTop
  DragKeepsGrip
  LostInTwoPlaces
CHECK_DEADLOCK FALSE
