------------------------- MODULE MCContractRegistry -------------------------
(* Small instances of ContractRegistry.                                    *)
EXTENDS ContractRegistry

CONSTANTS id1, doc1, doc2

(* A human may decide on the first revision with its first content.        *)
OneRevision ==
    [revision : {<<id1, 1>>}, content : {doc1}, decision : {"accepted", "rejected", "superseded"}]

LegacyFirst == {[revision |-> <<id1, 1>>, content |-> doc1]}
=============================================================================
