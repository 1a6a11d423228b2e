------------------------------ MODULE Platform ------------------------------
(***************************************************************************)
(* What the component specifications share: the accounts, and the bound on *)
(* the faults (a failed query, a lost reply, a stopped process) that one   *)
(* behaviour may contain. The names of a component carry its prefix, so    *)
(* that several components can be extended together.                       *)
(***************************************************************************)
EXTENDS Naturals

CONSTANTS
    Users,      \* accounts (auth.users)
    Admins,     \* those with an admin role
    None,       \* no record, no value
    MaxFaults   \* bound on the faults of a behaviour

ASSUME PlatformAssumption ==
    None \notin Users /\ Admins \subseteq Users /\ MaxFaults \in Nat
=============================================================================
