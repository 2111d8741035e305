------------------------- MODULE MCIntegrationActions -------------------------
(***************************************************************************)
(* Small instances of IntegrationActions.                                  *)
(***************************************************************************)
EXTENDS IntegrationActions
=============================================================================
