---------------------------- MODULE MCVaultWatcher ----------------------------
\* Two files, so that one can be pushed again while the other is captured.
EXTENDS VaultWatcher
===============================================================================
