------------------------- MODULE MCMultisigTreasury -------------------------
(* A small instance of MultisigTreasury for TLC. *)
EXTENDS MultisigTreasury

CONSTANTS o1, o2, o3

Setting(daily, weekly, threshold) ==
  [daily |-> daily, weekly |-> weekly, threshold |-> threshold]

\* A weekly limit below two full days; no limits at all, everything large.
MCLimits == { Setting(2, 3, 1), Setting(0, 0, 0) }
=============================================================================
