--------------------------- MODULE MCWalletSession ---------------------------
EXTENDS WalletSession
=============================================================================
