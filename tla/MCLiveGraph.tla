------------------------------ MODULE MCLiveGraph ------------------------------
EXTENDS LiveGraph
===============================================================================
