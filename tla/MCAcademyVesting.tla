-------------------------- MODULE MCAcademyVesting --------------------------
(* A small instance of AcademyVesting for TLC. *)
EXTENDS AcademyVesting, SequencesExt

CONSTANTS a1, a2

Schedule(amount, start, cliff, duration) ==
  [amount |-> amount, start_time |-> start, cliff |-> cliff, duration |-> duration]

\* A line with a cliff (3 tokens over two ticks after the cliff at 2), a cliff
\* equal to the duration, one already over when it is granted, one whose end
\* overflows, one with an inverted cliff and one without an amount.
MCTerms ==
  { Schedule(3, 0, 2, 4), Schedule(1, 1, 2, 2), Schedule(2, 0, 0, 0),
    Schedule(1, 3, 1, 4), Schedule(1, 0, 2, 1), Schedule(0, 0, 0, 1) }

\* Every batch, repetitions and one id too many included.
MCBatches == BoundedSeq(1..MaxGrants, MaxBatch + 1)
=============================================================================
