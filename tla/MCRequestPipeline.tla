------------------------- MODULE MCRequestPipeline -------------------------
(* A small instance of RequestPipeline for TLC.                            *)
EXTENDS RequestPipeline

\* The fragments feature with and without the controller of missing pages.
SomeChains == {<<"other", "fragments">>, <<"other", "fragments", "notfound">>}
=============================================================================
