---------------------------- MODULE SequenceFacts ---------------------------
(***************************************************************************)
(* The lemmas of SequenceLemmas for the proofs that fold over nothing: its *)
(* parameters are the fold that appends elements, of which nothing is      *)
(* claimed.                                                                *)
(***************************************************************************)
EXTENDS Integers, Sequences, SequencesExt, SequenceTheorems,
        FiniteSetTheorems, WellFoundedInduction, TLAPS

NothingClaimed(p, s, v, k) == TRUE

INSTANCE SequenceLemmas WITH Op <- Append, Holds <- NothingClaimed
=============================================================================
