----------------------------- MODULE MCMappedIO -----------------------------
(* MappedIO with pages of four bytes: areas inside a page, across the end of   *)
(* one, across two, and behind the end of the file.                            *)
EXTENDS MappedIO

MCAreas == {<<0, 2>>, <<3, 6>>, <<12, 3>>}
\* An area in the second half of the last page.
MCLastPage == {<<0, 2>>, <<6, 2>>}
=============================================================================
