-------------------------- MODULE MCChatroomShmServ --------------------------
EXTENDS ChatroomShmServ, TLC

Connections == Permutations(Conn)

Undisturbed == termsLeft = MaxTerm /\ faultsLeft = MaxFault

\* Bound: of the three complications (more than two connections, a signal sent or a
\* failed call, a reset after a close) no two are taken together.
MoreThanTwo == Cardinality({c \in Conn : cpc[c] # "none"}) > 2

ResetAfterClose == \E c \in Conn : peer[c] = "finrst"

FewDisturbed ==
    /\ MoreThanTwo => Undisturbed /\ ~ResetAfterClose
    /\ ResetAfterClose => Undisturbed
=============================================================================
