----------------------------- MODULE MCCoremap -----------------------------
EXTENDS Coremap

\* PageSize is a multiple of HashSize, as in the kernel, so a page's bucket is its
\* pid's: these two share one, and its chain grows to every user frame.
MCUserPids == {1, 3}
MCVaddrs == {1, 2}
=============================================================================
