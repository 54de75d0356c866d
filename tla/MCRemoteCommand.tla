-------------------------- MODULE MCRemoteCommand --------------------------
(* A script of one line, of which SSM's reply shows none, some or all and  *)
(* the upload all; exit codes of success, a plain failure and a memory     *)
(* kill.                                                                   *)
EXTENDS RemoteCommand

MCScriptLines == {{"logger"}, {"oom", "ample"}}
MCScriptCodes == {0, 1, 137}
MCCodes == {0, 1}
MCLeftBehind == {"group"}
=============================================================================
