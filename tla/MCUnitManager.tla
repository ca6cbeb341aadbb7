--------------------------- MODULE MCUnitManager ---------------------------
EXTENDS UnitManager
CONSTANTS a, b, c
ThreeFiles == <<a, b, c>>
=============================================================================
