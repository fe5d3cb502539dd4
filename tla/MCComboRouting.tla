--------------------------- MODULE MCComboRouting ---------------------------
(* Instances of ComboRouting for TLC.                                       *)
EXTENDS ComboRouting

CONSTANTS a1, a2, a3

\* One provider's accounts, shared by all members; one of them can refresh.
MCAccounts == {a1, a2, a3}
MCShared == [m \in Members |-> MCAccounts]
MCRefreshable == {a1}

\* Two accounts, none of which can refresh.
MCPair == {a1, a2}
MCPairShared == [m \in Members |-> MCPair]
MCNone == {}

\* A single account that can refresh.
MCAccount == {a1}
MCSingle == [m \in Members |-> MCAccount]
=============================================================================
