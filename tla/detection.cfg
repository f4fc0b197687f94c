SPECIFICATION Spec
CONSTANTS
  Primary = primary
  Companion = companion
  Other = other
  app = app
  lib = lib
  Members = {app, lib}
  Root = Root
  Top = 3
  Nowhere = Nowhere
  Missing = Missing
  Unread = Unread
  Shapes <- MCShapes
CHECK_DEADLOCK FALSE
INVARIANTS
  RunsWhereDeclared
  OnlyNamedMove
PROPERTIES
  NeverMovesBack
