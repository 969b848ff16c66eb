-------------------------- MODULE MCAccessRequests ---------------------------
(* TLC instances of AccessRequests.                                        *)
EXTENDS AccessRequests, TLC

AllGroups == [s \in Services |-> Groups]
Symmetry  == Permutations(IDs) \cup Permutations(Handlers) \cup Permutations(Users)
=============================================================================
