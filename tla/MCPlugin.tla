-------------------------------- MODULE MCPlugin -------------------------------
EXTENDS Plugin
===============================================================================
