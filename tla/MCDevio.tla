------------------------------ MODULE MCDevio ------------------------------
(***************************************************************************)
(* Instances of Devio for TLC.                                             *)
(***************************************************************************)
EXTENDS Devio, TLC

CONSTANTS fmc, common, bogus  \* an SMIO, the SMIO its init registers, an
                              \* SMIO the dispatch table does not have

ChildrenOfFmc == [k \in Key |-> IF k = fmc THEN <<common>> ELSE <<>>]
=============================================================================
