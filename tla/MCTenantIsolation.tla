-------------------------- MODULE MCTenantIsolation --------------------------
(***************************************************************************)
(* Small instances of TenantIsolation for TLC.                             *)
(***************************************************************************)
EXTENDS TenantIsolation

CONSTANTS a, b, c1, c2, T1, T2

\* Client a belongs to T1, and client b to tenant t
Deployed(connections, protected, t) ==
  [pool |-> connections, policy |-> protected,
   claim |-> [r \in Clients |-> IF r = a THEN T1 ELSE t]]

\* One connection for both clients, or one each; with the policy or without it;
\* one tenant, two, or a second token whose tenant is no UUID or missing
SevenDeployments ==
  {Deployed({c1}, TRUE, t) : t \in {T2, NotAUuid, NoTenant}} \cup
  {Deployed({c1, c2}, TRUE, t) : t \in {T1, T2}} \cup
  {Deployed(connections, FALSE, T2) : connections \in {{c1}, {c1, c2}}}

\* Page sizes below and above what is granted
OddLimits == [r \in Clients |-> IF r = a THEN 0 ELSE 5]

\* An old transaction, and two of one later moment: each of these pushes the old
\* one to a later place, and to a later page
OneTie == [i \in Ids |-> IF i = 1 THEN 1 ELSE 2]

=============================================================================
