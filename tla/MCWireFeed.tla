----------------------------- MODULE MCWireFeed -----------------------------
\* WireFeed on small instances.
EXTENDS WireFeed, TLC

CONSTANTS a, b
=============================================================================
