----------------------------- MODULE MCSamdTouch -----------------------------
EXTENDS SamdTouch
==============================================================================
