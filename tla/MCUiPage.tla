------------------------------ MODULE MCUiPage ------------------------------
(***************************************************************************)
(* One extension with applyActions, and two handlers under way at once; a  *)
(* setting is its default or one other value.                              *)
(***************************************************************************)
EXTENDS UiPage

CONSTANTS e1, v0, v1
=============================================================================
