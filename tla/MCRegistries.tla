---------------------------- MODULE MCRegistries ----------------------------
EXTENDS Registries
CONSTANTS shape, poly, rounded, round, m1, m2, m3

\* Rounded polygons are polygons and rounds, and those are shapes.
Parents == shape :> {} @@ poly :> {shape} @@ round :> {shape} @@ rounded :> {poly, round}

LongevityChoices ==
  {(m1 :> 1 @@ m2 :> 2 @@ m3 :> 2), (m1 :> 1 @@ m2 :> 3 @@ m3 :> 1), (m1 :> 2 @@ m2 :> 2 @@ m3 :> 0)}

LocalChoices == {[s \in Static |-> NoStatic], [s \in Static |-> IF s = m1 THEN m3 ELSE NoStatic]}

\* m1 and m2 share a class, and a pair of callback parameters.
Sets == m1 :> <<rounded, round>> @@ m2 :> <<round>> @@ m3 :> <<poly>>

Callback(of, lhs, rhs) == [of |-> of, lhs |-> lhs, rhs |-> rhs]

Callbacks == m1 :> Callback(m1, rounded, round) @@ m2 :> Callback(m2, round, rounded)
             @@ m3 :> Callback(m3, poly, poly)

MainCallbacks == {Callback("main", rounded, round), Callback("main", shape, shape)}

Lists == {[lhs |-> l, rhs |-> r] : l \in {<<shape, poly, rounded, round>>, <<round, poly, rounded, shape>>,
                                          <<round, poly, shape>>, <<rounded, poly>>},
                                   r \in {<<round, rounded, shape, poly>>}}
         \cup {[lhs |-> l, rhs |-> l] : l \in {<<shape, poly, rounded, round>>, <<poly, round, shape>>}}
=============================================================================
