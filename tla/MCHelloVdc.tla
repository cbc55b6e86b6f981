----------------------------- MODULE MCHelloVdc -----------------------------
\* A display of 6 by 6 cells of 2 by 2 pixels, of which 2 by 2 are text.
EXTENDS HelloVdc

MCVdcInitValues ==
  <<<<0, 5>>, <<1, 2>>, <<2, 6>>, <<3, 18>>, <<4, 5>>, <<5, 0>>, <<6, 2>>, <<7, 5>>,
    <<8, 0>>, <<9, 1>>, <<10, 96>>, <<11, 2>>, <<12, 0>>, <<13, 0>>, <<14, 0>>, <<15, 0>>,
    <<20, 8>>, <<21, 0>>, <<22, 18>>, <<23, 2>>, <<26, 242>>, <<28, 32>>, <<29, 1>>,
    <<34, 5>>, <<35, 4>>>>
\* Blank, and a character with three of its four pixels set.
MCCharset == <<<<0, 0>>, <<192, 64>>>>
MCHelloMsg == <<1, 0, 1>>

\* Lower and upper case, a character of two bytes, a text of two keys, no text.
MCEvents == {<<119>>, <<195, 169>>, <<87, 81>>, <<>>}

MCRoms == {[i \in 0 .. 4 |-> i % 2]}
=============================================================================
