-------------------------- MODULE MCContainerGroup --------------------------
(* Instances of ContainerGroup: two properties, one value beside the empty *)
(* string, and the requests in which the handlers differ.                  *)
EXTENDS ContainerGroup, TLC

CONSTANTS k1, k2, v

MCBlank == ""

MCRequest ==
  [kind : {"set"}, key : {k1, k2}, value : {v}]
    \cup [kind : {"remove"}, key : {k1, k2}]
    \cup [kind : {"create"}, tags : {NoTags, k1 :> v}]
    \cup [kind : {"containers"}, tags : {k1 :> v @@ k2 :> v}]
    \cup [kind : {"destroy", "lookup", "properties"}]

SetRequest == [kind : {"set"}, key : {k1, k2}, value : {v}]

Symmetry == Permutations(Call)
=============================================================================
