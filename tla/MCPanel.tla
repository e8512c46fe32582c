-------------------------------- MODULE MCPanel --------------------------------
(* Panel.tla for TLC: two nicknames and one place to drag the widget to.     *)
EXTENDS Panel

CONSTANTS alice, bob

MCNicks == {alice, bob}
MCSpots == {0}

===============================================================================
