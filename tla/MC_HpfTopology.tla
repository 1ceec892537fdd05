-------------------------- MODULE MC_HpfTopology --------------------------
(* Small networks and diffs for HpfTopology.                               *)
EXTENDS HpfTopology

Row(r, from, to) == [i \in 1..(to - from + 1) |-> <<r, from + i - 1>>]
Column(k, from, to) == [i \in 1..(to - from + 1) |-> <<from + i - 1, k>>]

\* A street along the second row with a stop at its start; in the second network
\* also a street beside it that it does not meet, with a stop one unit away.
Street == [course |-> ("w" :> Row(2, 1, 4)) @@ ("v" :> <<>>),
           bends |-> ("w" :> 1..4) @@ ("v" :> {}),
           anchor |-> (1 :> << <<2, 1>>, 0 >>)]
TwoStops == [course |-> ("w" :> Row(2, 1, 4)) @@ ("v" :> Row(3, 3, 4)),
             bends |-> ("w" :> {1, 2, 4}) @@ ("v" :> {1, 2}),
             anchor |-> (1 :> << <<2, 1>>, 0 >>) @@ (2 :> << <<3, 4>>, 1 >>)]
\* Two stops as far from a cell that a course passes on its way out of the street.
AsFar == [course |-> ("w" :> Row(1, 1, 2)) @@ ("v" :> <<>>),
          bends |-> ("w" :> 1..2) @@ ("v" :> {}),
          anchor |-> (1 :> << <<1, 2>>, 2 >>) @@ (2 :> << <<1, 1>>, 0 >>)]
OneStreet == {Street}
AllNetworks == {Street, TwoStops, AsFar}

Detours == {<<>>, Row(1, 1, 3), Column(3, 1, 3), << <<1, 2>>, <<3, 3>> >>}
=============================================================================
