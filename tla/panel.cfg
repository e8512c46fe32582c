SPECIFICATION Spec
CONSTANTS
  alice = alice  bob = bob
  NoName = NoName
  Unset = Unset
  Nicks <- MCNicks
  Spots <- MCSpots
INVARIANTS PanelTypeOK NamelessOnlyByTab
PROPERTIES ClickToggles DragKeepsSize MaximizeFocuses NameReturns
