--------------------------- MODULE MCCpt112sEvents ---------------------------
EXTENDS Cpt112sEvents
==============================================================================
