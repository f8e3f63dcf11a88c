----------------------- MODULE MCConversationRegistry -----------------------
\* Three connection attempts of one conversation: the third is what meets an
\* entry the first two have left behind.
EXTENDS ConversationRegistry, TLC

CONSTANTS c1, c2, c3

MCConns == {c1, c2, c3}
ConnSymmetry == Permutations(MCConns)
=============================================================================
