---------------------------- MODULE MCCursorPage ----------------------------
(* Model checking of cursor pagination.                                    *)
EXTENDS CursorPage

MCClass == {1, 2}
MCPageSizes == {0, 9}
=============================================================================
