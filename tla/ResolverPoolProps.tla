-------------------------- MODULE ResolverPoolProps --------------------------
(* What a pool with lying or failing members must not do: the properties of  *)
(* module ResolverPool.  The names do not change while the scan runs.        *)
EXTENDS ResolverPool

Honest == {m \in Member : lies[m] = {}}
Deniers == {m \in Member : "denies" \in lies[m]}

(* A member cannot inject results (#69): no lookup ends in a hit for a name    *)
(* that does not exist, and only existing names become canaries.               *)
NothingInjected ==
  /\ \A c \in Caller : verdict[c] = "found" => name[c] \in Real
  /\ canaries \subseteq Real

(* However the callers' checks, answers and verdicts interleave, and whatever  *)
(* failed or was cancelled, a member that answers truthfully is never blamed.  *)
HonestNeverFlagged == \A m \in Honest : contradicted[m] = 0 /\ ~flagged[m]

(* One member that denies every name cannot hide one (#105) while an honest    *)
(* member is there to be asked and no lookup has failed or been cancelled: the *)
(* second opinion is one other member's, so two that deny could.               *)
NothingHidden ==
  (Honest # {} /\ (\A m, o \in Deniers : m = o) /\ ~misled) =>
    \A c \in Caller : verdict[c] = "nxdomain" => name[c] \notin Real

=============================================================================
