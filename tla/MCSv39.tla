------------------------------- MODULE MCSv39 -------------------------------
(***************************************************************************)
(* A small instance of Sv39: two entries per table, pages of two bytes,    *)
(* three pages for tables, so that a call can run out of them at either    *)
(* level.                                                                  *)
(***************************************************************************)
EXTENDS Sv39

SomeTablePages == <<4, 6, 8>>
SomeDataPages  == {16, 18, 20, 22, 24, 26, 28, 30}
SomeVas        == {0, 2, 4, 5, 8}
SomePas        == {16, 18}

ASSUME PagesApart /\ CodesAreErrors
=============================================================================
