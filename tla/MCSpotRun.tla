---- MODULE MCSpotRun ----
(* SpotRun on six kinds of box. *)
EXTENDS SpotRun
MCSpecs == {
  {"deadman", "cap", "log", "gzip", "delay", "setup", "drop"},
  {"deadman", "log", "delay", "hook", "drop"},
  {"cap", "log", "gzip", "drop"},
  {"deadman", "staged"},
  {"deadman", "cap", "delay", "hook", "staged", "drop"},
  {"selfstart"}}
MCBudgets == {None, 5}
MCDays == {1, 3, 4}
====
