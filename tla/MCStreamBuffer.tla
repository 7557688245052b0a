--------------------------- MODULE MCStreamBuffer ---------------------------
EXTENDS StreamBuffer

\* Slices of 0 to 3 bytes, none of which is another one rearranged or cut.
MCChunks == {<< >>, <<0>>, <<1>>, <<0, 1>>, <<1, 0, 0>>, <<1, 1, 0>>}
=============================================================================
