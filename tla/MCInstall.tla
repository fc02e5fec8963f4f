------------------------------ MODULE MCInstall ------------------------------
EXTENDS Install

\* Two firmware types, so a second request can differ from the first.
MCFwTypes == {"radio", "hboot"}

\* The interactive-menu block opens and maps, or the open fails.
MCShmOK == {"none", "mapped"}

\* As above, plus an mmap failure.
MCShmAll == {"none", "mapped", "failed"}

\* "progress 0.5 <s>" and "progress 1.0 <s>" (DEN = 2).
MCPortions == {1, 2}

\* "set_progress 0.5" and "set_progress 1.5", which is clamped to 1.0.
MCFractions == {1, 3}

\* A scope driven by set_progress only, and one timed over two seconds.
MCSeconds == {0, 2}
=============================================================================
