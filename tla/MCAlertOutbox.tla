--------------------------- MODULE MCAlertOutbox ---------------------------
(* The instance of AlertOutbox for TLC. *)
EXTENDS AlertOutbox

=============================================================================
