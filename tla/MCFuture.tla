------------------------------- MODULE MCFuture -------------------------------
(* Future for TLC: two producers, d an aggregate or a composition of both, and *)
(* e behind it; a timed and an untimed Get() of the same future.               *)
EXTENDS Future, TLC

CONSTANTS p, q, d, e, g, h

Network(dkind, dinputs, ekind, einputs, plan, from) ==
    [kind |-> d :> dkind @@ e :> ekind,
     inputs |-> d :> dinputs @@ e :> einputs,
     plan |-> plan,
     gets |-> g :> from @@ h :> from]

MCShapes ==
    {Network("AllOf", <<p, q>>, "Then", <<d>>, << <<d, 1>>, <<d, 2>>, <<e, 1>> >>, e),
     Network("AnyOf", <<p, q>>, "OnError", <<d>>, << <<d, 1>>, <<d, 2>>, <<e, 1>> >>, d),
     Network("ThenAsync", <<p, q>>, "WhenComplete", <<d>>, << <<d, 1>>, <<e, 1>> >>, e)}
=============================================================================
