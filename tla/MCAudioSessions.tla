--------------------------- MODULE MCAudioSessions ---------------------------
(* Model values and symmetry for the checks of AudioSessions.              *)
EXTENDS AudioSessions, TLC

\* A start may be dropped at every await point, short or long.
MCDropPoints == {"reserving", "reserved", "waiting", "stopping"}

\* Sessions of a kind are interchangeable, and so are DELETE handlers.
MCSymmetry == Permutations(Directs) \cup Permutations(Relays) \cup Permutations(Deleters)
=============================================================================
