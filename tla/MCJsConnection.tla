---------------------------- MODULE MCJsConnection ----------------------------
(* Instances of JsConnection for TLC.                                          *)
EXTENDS JsConnection
================================================================================
