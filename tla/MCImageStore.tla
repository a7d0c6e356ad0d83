---------------------------- MODULE MCImageStore ----------------------------
(* ImageStore with two images that share a layer at different depths.      *)
EXTENDS ImageStore, TLC

CONSTANTS n1, n2, n3, la, lb, k1, k2, m1, m2, m3, m4

MCConfigOf == (m1 :> k1) @@ (m2 :> k2) @@ (m3 :> k2) @@ (m4 :> k2)
MCLayersOf == (m1 :> <<la, lb>>) @@ (m2 :> <<lb>>) @@ (m3 :> << >>) @@ (m4 :> << >>)
MCServed == (n1 :> {m1}) @@ (n2 :> {m2, m3}) @@ (n3 :> {m4})

MCAsked ==
    {<<"containerd", n1>>, <<"containerd", n2>>, <<"containerd", n3>>,
     <<"nerdctl", n2>>, <<"docker", n3>>}

MCDockerAsked == {<<"docker", n3>>}

Symmetric == Permutations(Pullers)
=============================================================================
