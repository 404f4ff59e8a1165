------------------------------ MODULE MCTopicTree ------------------------------
(* Instances of TopicTree for TLC.                                         *)
EXTENDS TopicTree, TLC
CONSTANTS s1, s2, s3, t1, t2
Symmetry == Permutations(Sockets)
=============================================================================
