----------------------------- MODULE MCRegistry -----------------------------
(* Four calls: one binds a service, the others are for it or for one that  *)
(* shares its shard; or for a third that is by itself.                     *)
EXTENDS RegistryProps

CONSTANTS t1, t2, t3, t4

Plan(a, b, c, d) == [t \in Tasks |-> CASE t = t1 -> a [] t = t2 -> b
                                      [] t = t3 -> c [] t = t4 -> d]

Uri(s, h, p) == <<"call", [scheme |-> s, host |-> h, path |-> p]>>

Others == <<Uri("svc", "a", NONE), <<"connect", "b">>, <<"available", "b">>,
            <<"bind", "a">>, <<"bind", "b">>>>

MCPlans ==
  {Plan(<<"bind", "a">>, Others[m[1]], Others[m[2]], Others[m[3]]) :
     m \in {n \in (1..5) \X (1..5) \X (1..5) : n[1] <= n[2] /\ n[2] <= n[3]}}
  \cup {Plan(<<"bind", "a">>, <<"connect", "b">>, <<"connect", "c">>, <<"bind", "c">>),
         Plan(<<"bind", "a">>, Uri("grpc", "b", "a"), Uri("grpc", "a", NONE),
              Uri("https", "a", NONE))}

MCShardOf == [a |-> "x", b |-> "x", c |-> "y"]
=============================================================================
