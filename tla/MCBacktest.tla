----------------------------- MODULE MCBacktest -----------------------------
(* Backtest over few days, symbols and bars, for TLC.                      *)
EXTENDS Backtest, TLC

LOCAL Quote(o, h, l, c, stop, u, d) ==
  [open |-> o, high |-> h, low |-> l, close |-> c, suspended |-> stop, up |-> u, down |-> d]

Calm      == Quote(4, 5, 4, 4, FALSE, FALSE, FALSE)
Rally     == Quote(5, 8, 5, 8, FALSE, FALSE, FALSE)
Slump     == Quote(3, 3, 2, 2, FALSE, FALSE, FALSE)
AtUp      == Quote(8, 8, 6, 8, FALSE, TRUE, FALSE)
AtDown    == Quote(2, 2, 1, 1, FALSE, FALSE, TRUE)
Halted    == Quote(4, 4, 4, 4, TRUE, FALSE, FALSE)

MCBars    == {Calm, Rally, Slump, AtUp, AtDown, Halted}

Symmetry  == Permutations(Symbols)
=============================================================================
