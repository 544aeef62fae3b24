------------------------------ MODULE MCPubSub ------------------------------
(* Model checking PubSub: two actors, of which one may be given twice. *)
EXTENDS PubSub

CONSTANTS ann, bob

Lists == {<<>>, <<ann>>, <<ann, bob>>, <<ann, ann>>}
=============================================================================
