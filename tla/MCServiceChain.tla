-------------------------- MODULE MCServiceChain ---------------------------
(* Experiments for the instances of ServiceChain.                          *)
EXTENDS ChainPath

\* The port-matching switches with l2fwd in every VM, and t4p4s with testpmd
\* and its --eth-peer addresses (t4p4s/cmd.txt).
Shipped ==
    {[switch |-> sw, bi |-> b, guest |-> "l2fwd"] : sw \in Switches \ {"t4p4s"}, b \in BOOLEAN}
      \cup {[switch |-> "t4p4s", bi |-> b, guest |-> "testpmd"] : b \in BOOLEAN}

\* The experiment of t4p4s/README.md: l2fwd in every VM.
T4p4sWithL2fwd == {[switch |-> "t4p4s", bi |-> TRUE, guest |-> "l2fwd"]}

=============================================================================
