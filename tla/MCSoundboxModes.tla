------------------------- MODULE MCSoundboxModes -------------------------
EXTENDS SoundboxModes
=============================================================================
