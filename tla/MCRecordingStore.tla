--------------------------- MODULE MCRecordingStore --------------------------
(* Values for the checks of RecordingStore.                                *)
EXTENDS RecordingStore, TLC

\* Requests are interchangeable, and so are ids.
MCSymmetry == Permutations(Tasks) \cup Permutations(Ids)
=============================================================================
