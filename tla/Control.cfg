CONSTANTS
  Props <- MCProps
  Choices <- MCChoices
  Writable = {"iso"}
  Raws <- MCRaws
  MaxReads = 1
  MaxWrites = 2
SPECIFICATION Spec
INVARIANTS TypeOK RestIsTrue
PROPERTY PanelSettles
