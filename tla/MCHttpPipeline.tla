--------------------------- MODULE MCHttpPipeline ---------------------------
(* Every pipeline of up to two requests over all shapes of interest, and    *)
(* pipelines of three that go over the limit or close in the middle.        *)
EXTENDS HttpPipeline

Shaped(v10, fields, len) == [v10 |-> v10, fields |-> fields, len |-> len]
Plain == Shaped(FALSE, <<>>, 0)
Posted == Shaped(FALSE, <<"field", "length">>, 2)
Closes == Shaped(FALSE, <<"keepalive", "close">>, 0)
Old == Shaped(TRUE, <<>>, 0)
OldKept == Shaped(TRUE, <<"keepalive">>, 0)
Colonless == Shaped(FALSE, <<"nocolon">>, 0)
Unreadable == Shaped(FALSE, <<"badlength">>, 0)
TooLong == Shaped(FALSE, <<"length">>, 3)

Shapes == {Plain, Posted, Closes, Old, OldKept, Colonless, Unreadable, TooLong}
Pairs == {<<p, q>> : p \in {Plain, Posted, Closes, OldKept}, q \in Shapes}
Triples == {<<p, q, Plain>> : p \in {Plain, Closes, Posted}, q \in {Plain, Closes}}
AnyStream == Pairs \cup Triples
OneRequest == {<<Posted>>}
OneClose == {<<Closes>>}
=============================================================================
