---------------------------- MODULE MCStopAndWait ----------------------------
\* Small instance of the stop-and-wait transfer for TLC.
EXTENDS StopAndWait

\* Two blocks with the same bytes and a third that differs.
MCFile == <<7, 7, 8>>
=============================================================================
