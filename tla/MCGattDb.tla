------------------------------ MODULE MCGattDb ------------------------------
(***************************************************************************)
(* Small databases for TLC: two UUIDs, each used for services and for      *)
(* characteristics, so that duplicates and both orders of two services     *)
(* occur.  The code compares UUIDs with each other only, so they may be    *)
(* exchanged.  BeforeWrap leaves out what follows once the handles have    *)
(* wrapped: of that only ImplementsTable says something, which is proved.  *)
(***************************************************************************)
EXTENDS GattDb, TLC

CONSTANTS u1, u2

TwoUuids == {u1, u2}
Exchanged == Permutations(TwoUuids)
BeforeWrap == ~wrapped
=============================================================================
