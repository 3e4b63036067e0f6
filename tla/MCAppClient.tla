---------------------------- MODULE MCAppClient ----------------------------
EXTENDS AppClient

CONSTANTS k1, k2, o1, cfg1, r1

=============================================================================
