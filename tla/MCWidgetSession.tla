---------------------------- MODULE MCWidgetSession ----------------------------
(***************************************************************************)
(* Small instances of WidgetSession for TLC.                               *)
(***************************************************************************)
EXTENDS WidgetSession
===============================================================================
