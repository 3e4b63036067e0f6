--------------------------- MODULE MCBlobClient ---------------------------
EXTENDS BlobClient

CONSTANTS c1, c2, t1, t2, t3

(* One task per client unless the configuration adds t3 on client c1.     *)
MCTaskClient == [t \in Tasks |-> IF t = t2 THEN c2 ELSE c1]

=============================================================================
