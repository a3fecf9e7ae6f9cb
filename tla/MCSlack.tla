-------------------------------- MODULE MCSlack --------------------------------
(***************************************************************************)
(* The instance of the Slack messages that TLC explores: each mode with    *)
(* the replay policy that makes most of it, and the shipped settings.      *)
(***************************************************************************)
EXTENDS Slack

Setup(mode, post, onMiss) == [mode |-> mode, post |-> post, onMiss |-> onMiss]

MCConfigs == {Setup("sent_then_update", "always", "none"),   \* as shipped
              Setup("single", "daily", "none"),
              Setup("sent_then_edit", "daily", "expected")}
================================================================================
