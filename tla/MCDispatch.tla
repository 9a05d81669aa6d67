----------------------------- MODULE MCDispatch -----------------------------
(***************************************************************************)
(* Every dispatch of up to MaxMatched reactions over the fork groups of    *)
(* the configuration: each reaction in any group or in none, and requiring *)
(* any set of groups, its own included.                                    *)
(***************************************************************************)
EXTENDS Dispatch

CONSTANT MaxMatched

MCReaction == [group : Groups \cup {NoGroup}, requires : SUBSET Groups]
MCDispatchable == UNION {[1..n -> MCReaction] : n \in 0..MaxMatched}
=============================================================================
