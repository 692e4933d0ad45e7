------------------------------ MODULE MCTxSync ------------------------------
EXTENDS TxSync

\* One transaction of this wallet, one of another, and an old one, on one chain.
MCTxs == {"t", "x", "o"}
MCPast == [f \in {"f"} |-> <<"o">>]
MCOf == [t \in MCTxs |-> "f"]

\* Two feeds, for two chains, and a transaction of this wallet on the first.
MCTxs2 == {"t"}
MCPast2 == [f \in {"f", "g"} |-> <<>>]
MCOf2 == [t \in MCTxs2 |-> "f"]
=============================================================================
