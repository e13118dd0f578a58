----------------------------- MODULE Membership -----------------------------
(***************************************************************************)
(* What the exchange of the network secret promises, without the L1        *)
(* transactions, guardians and enclaves that carry it out: one enclave     *)
(* creates the secret, an enclave obtains it only after it was admitted on *)
(* the L1, only an enclave whose attestation report verifies is admitted,  *)
(* and neither a secret nor an admission is ever taken back.  Module       *)
(* NetworkSecret implements this specification.                            *)
(***************************************************************************)
CONSTANTS Nodes, Genesis, Verified

VARIABLES
  holders,  \* the nodes whose enclave holds the secret
  admitted  \* the nodes that were attested in the management contract

memberVars == <<holders, admitted>>

MemberInit == holders = {} /\ admitted = {}

\* The genesis enclave creates the secret, once.
Create ==
  /\ holders = {}
  /\ holders' = {Genesis}
  /\ UNCHANGED admitted

\* The creator of the secret founds the network on the L1.
Found ==
  /\ Genesis \in holders
  /\ admitted = {}
  /\ admitted' = {Genesis}
  /\ UNCHANGED holders

\* A verified node is let in.
Admit(n) ==
  /\ Genesis \in admitted
  /\ n \in Verified \ admitted
  /\ admitted' = admitted \cup {n}
  /\ UNCHANGED holders

\* An admitted node obtains the secret.
Join(n) ==
  /\ n \in admitted \ holders
  /\ holders' = holders \cup {n}
  /\ UNCHANGED admitted

MemberNext ==
  \/ Create
  \/ Found
  \/ \E n \in Nodes : Admit(n) \/ Join(n)

MemberSpec == MemberInit /\ [][MemberNext]_memberVars
=============================================================================
