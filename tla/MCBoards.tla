------------------------------ MODULE MCBoards ------------------------------
(* Every program's board, with bytes of two bits from the weather sensor.    *)
EXTENDS Boards

MCSensorBytes == {0, 3}
=============================================================================
