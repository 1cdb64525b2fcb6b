---------------------------- MODULE MCAimConfig ----------------------------
(* aim-config on the legacy files of MCToggleConfig. *)
EXTENDS AimConfig, MCToggleConfig
============================================================================
