------------------ MODULE MCSubscriptionPersistentStorage ------------------
(* Files and schemas for TLC.  Files are interchangeable.                   *)
EXTENDS SubscriptionPersistentStorage, TLC

FileSymmetry == Permutations(File)
=============================================================================
