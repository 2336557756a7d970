--------------------------- MODULE MCCallSignaling ---------------------------
EXTENDS CallSignaling

\* All three users of the dialog.
MCUsers == {"direct", "relay", "canary"}

=============================================================================
