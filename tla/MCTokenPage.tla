----------------------------- MODULE MCTokenPage -----------------------------
(* A small instance of TokenPage.                                          *)
EXTENDS TokenPage

CONSTANT MaxConcerns    \* bound of the losses, redeliveries and timeframe changes

\* Losses, redeliveries and timeframe changes share a bound of their own.
FewConcerns == losses' + redeliveries' + switches' <= MaxConcerns
=============================================================================
