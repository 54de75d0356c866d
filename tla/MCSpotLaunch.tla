---------------------------- MODULE MCSpotLaunch ----------------------------
(* Two deliveries of the event, two pools in each market.                  *)
EXTENDS SpotLaunch

CONSTANTS i1, i2

MCInvocations == {i1, i2}
=============================================================================
