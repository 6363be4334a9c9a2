------------------------------ MODULE MCIpFrag ------------------------------
(* Small instances of IpFrag.  With units of 2 bytes and a header of 1, a    *)
(* payload of 5 makes three fragments, two or one, depending on the mtu; the *)
(* second is the one that a whole packet would just fit.  Identifiers are    *)
(* used again after two packets.                                             *)
EXTENDS IpFrag, TLC

MCMTUs == {4, 6, 8}
MCLengths == {5}
MCSymmetry == Permutations(Sources)
=============================================================================
