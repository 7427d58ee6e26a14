-------------------------------- MODULE MCAccess -------------------------------
(* Small instances of Access for TLC.                                          *)
EXTENDS Access

CONSTANTS l1, l2, l3, day, book

TwoLogins == {l1, l2}
Book == {book}
================================================================================
