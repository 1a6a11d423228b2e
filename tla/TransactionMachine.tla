------------------------- MODULE TransactionMachine -------------------------
(***************************************************************************)
(* The transaction lifecycle of payment/core/transaction-machine.ts: the   *)
(* table of permitted transitions and the authorisation check that the     *)
(* dispute and billing-admin routes run before they write a status.        *)
(*                                                                         *)
(* The module is pure, as the file is: no variables, only the table and    *)
(* the outcome of assertTransitionAllowed for a stored status, a requested *)
(* status, the caller's effective role and whether the caller owns the row.*)
(* The table's reasonRequired flags are left out: nothing reads them.      *)
(***************************************************************************)

\* TRANSACTION_STATES.
MachineStates ==
    {"PENDING", "AUTHORIZED", "PAID", "FULFILLED", "FAILED", "CANCELLED",
     "DISPUTED", "PARTIALLY_REFUNDED", "REFUNDED", "REVERSED"}

\* TERMINAL_STATES.
TerminalStates == {"FAILED", "REFUNDED", "REVERSED"}

\* What transactionService.effectiveRole can return.
Roles == {"BILLING_ADMIN", "BUYER", "SELLER", "SYSTEM"}

\* TransitionKind: the target statuses the two routes can ask for.
TransitionKinds ==
    {"DISPUTED", "REFUNDED", "PARTIALLY_REFUNDED", "CANCELLED", "REVERSED"}

Rule(from, to, roles, owner) ==
    [from |-> from, to |-> to, roles |-> roles, requiresOwner |-> owner]

\* The rules that only the system may use to move a payment forward.
ForwardRules ==
    {Rule("PENDING",    "AUTHORIZED", {"SYSTEM"}, FALSE),
     Rule("PENDING",    "FAILED",     {"SYSTEM", "BILLING_ADMIN"}, FALSE),
     Rule("AUTHORIZED", "PAID",       {"SYSTEM"}, FALSE),
     Rule("AUTHORIZED", "FAILED",     {"SYSTEM"}, FALSE),
     Rule("PAID",       "FULFILLED",  {"SYSTEM"}, FALSE)}

CancelRules ==
    {Rule(from, "CANCELLED", {"SYSTEM", "BILLING_ADMIN"}, FALSE) :
        from \in {"PENDING", "AUTHORIZED"}}

DisputeRules ==
    {Rule(from, "DISPUTED", {"BUYER", "BILLING_ADMIN"}, TRUE) :
        from \in {"PENDING", "PAID", "FULFILLED", "PARTIALLY_REFUNDED"}}

\* Money-affecting transitions and the resolutions of a dispute.
AdminRules ==
    {Rule(from, to, {"BILLING_ADMIN"}, FALSE) :
        from \in {"PAID", "FULFILLED", "DISPUTED"},
        to \in {"PARTIALLY_REFUNDED", "REFUNDED"}}
    \cup {Rule("DISPUTED", "FULFILLED", {"BILLING_ADMIN"}, FALSE),
          Rule("DISPUTED", "REVERSED", {"BILLING_ADMIN"}, FALSE),
          Rule("PARTIALLY_REFUNDED", "REFUNDED", {"BILLING_ADMIN"}, FALSE)}

TransitionRules == ForwardRules \cup CancelRules \cup DisputeRules \cup AdminRules

RulesFor(from, to) == {r \in TransitionRules : r.from = from /\ r.to = to}

\* TransitionErrorCode, and the case of no error.
Verdicts == {"ALLOWED", "UNKNOWN_STATE", "TRANSITION_NOT_ALLOWED",
             "TERMINAL_STATE", "FORBIDDEN_ROLE", "OWNERSHIP_REQUIRED"}

(***************************************************************************)
(* assertTransitionAllowed: "ALLOWED" when it returns, otherwise the code  *)
(* of the error it throws. The checks are made in the code's order: a role *)
(* that may not make the transition never learns whether it owns the row.  *)
(* A pair of states has at most one rule, so "some rule" is "the rule".    *)
(***************************************************************************)
Verdict(from, to, role, isOwner) ==
    LET rules == RulesFor(from, to) IN
    IF {from, to} \ MachineStates # {}                 THEN "UNKNOWN_STATE"
    ELSE IF from = to                                  THEN "TRANSITION_NOT_ALLOWED"
    ELSE IF from \in TerminalStates                    THEN "TERMINAL_STATE"
    ELSE IF rules = {}                                 THEN "TRANSITION_NOT_ALLOWED"
    ELSE IF \A r \in rules : role \notin r.roles       THEN "FORBIDDEN_ROLE"
    ELSE IF ~isOwner /\ \E r \in rules : r.requiresOwner THEN "OWNERSHIP_REQUIRED"
    ELSE "ALLOWED"

=============================================================================
