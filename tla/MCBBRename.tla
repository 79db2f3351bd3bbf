----------------------------- MODULE MCBBRename -----------------------------
(* Small instances of BBRename: every instruction reads one of two global  *)
(* registers and defines either; they lie in different segments.           *)
EXTENDS BBRename

MCReadLists == {<<1>>}
MCWriteLists == {<<1>>, <<2>>}
=============================================================================
