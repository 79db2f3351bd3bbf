----------------------------- MODULE MCO3Rename -----------------------------
(* Small instance: two architectural registers, three rename registers; an *)
(* instruction reads at most one register and writes one or both.          *)
EXTENDS O3Rename

MCReadLists == {<< >>, <<1>>}
MCWriteLists == {<<1>>, <<2, 1>>}
=============================================================================
