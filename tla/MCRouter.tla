------------------------------ MODULE MCRouter ------------------------------
(* Instance for TLC: two registries that differ in who is active, in the   *)
(* order of the chain and in what is declared.                             *)
EXTENDS Router, TLC

CONSTANTS m1, m2, m3, u1, u2, u3
Entry(status, caps, from, wires, route, model) ==
  [status |-> status, caps |-> caps, from |-> from, wires |-> wires, route |-> route, model |-> model]
Old == [groups |-> "med" :> <<m1, m2, m3>>,
        models |-> (m1 :> Entry("active", {}, {"ec2"}, {"openai"}, "egress_proxy", u1))
                @@ (m2 :> Entry("active", {"streaming"}, {"ec2", "lambda"}, {"openai"}, "openrouter", u2))
                @@ (m3 :> Entry("deprecated", {"streaming"}, {"ec2"}, {"openai"}, "openrouter", u3))]
New == [groups |-> "med" :> <<m3, m1, m2>>,
        models |-> (m3 :> Entry("active", {"streaming"}, Undeclared, {"openai"}, "openrouter", u2))
                @@ (m2 :> Entry("active", {"streaming"}, {"ec2"}, {"openai"}, "openrouter", u2))]
MCIds == {m1, m2, m3}
MCUpstreams == {u1, u2, u3}
MCRegistryOf == ("v1" :> Old) @@ ("v2" :> New)
=============================================================================
