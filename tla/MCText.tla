------------------------------- MODULE MCText -------------------------------
(* The whole way of a small file.  An item of a table of contents has one  *)
(* page number or, two entries on a line, two that descend.                *)
EXTENDS DocumentText

TocPageLists == {<<1>>, <<2, 1>>}
=============================================================================
