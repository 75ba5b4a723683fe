--------------------------- MODULE MCNodeCommands ---------------------------
EXTENDS NodeCommands
=============================================================================
