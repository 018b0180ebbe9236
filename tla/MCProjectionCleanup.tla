---- MODULE MCProjectionCleanup ----
EXTENDS ProjectionCleanup
====
