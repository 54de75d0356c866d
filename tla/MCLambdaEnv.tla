---- MODULE MCLambdaEnv ----
(* LambdaEnv with two scripts, two variables and three aliases, one of them not on the first page. *)
EXTENDS LambdaEnv, TLC
Symmetric == Permutations(Editors)
Merge(keys) ==
  [kind |-> "merge", keys |-> keys, mode |-> "plain", wanted |-> {}, missingOk |-> FALSE]
Remove(keys, mode, wanted, missingOk) ==
  [kind |-> "remove", keys |-> keys, mode |-> mode, wanted |-> wanted, missingOk |-> missingOk]
MCEdits == {
  Merge({"b"}), Merge({"a", "b"}), Remove({"a"}, "plain", {}, FALSE), Remove({"a"}, "promote", {"live"}, TRUE),
  Remove({"b"}, "promote", {"live", "beta"}, FALSE), Remove({"b"}, "defer", {}, TRUE),
  Remove({"a"}, "promote", {}, FALSE)}
====
