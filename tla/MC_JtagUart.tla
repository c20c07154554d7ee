------------------------------ MODULE MC_JtagUart ------------------------------
(* TLC instances of the JTAG UART driver: a program that reads what the host *)
(* sends, and one that writes and closes.                                    *)
EXTENDS JtagUart

MC_OneWay == {[calls |-> {"read"}, sends |-> TRUE],
              [calls |-> {"write", "close"}, sends |-> FALSE]}
=============================================================================
