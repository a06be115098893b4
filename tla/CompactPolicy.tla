---------------------------- MODULE CompactPolicy ----------------------------
(***************************************************************************)
(* integrations/compact_policy.py: when a delete that asks for compact=    *)
(* "auto" rebuilds the index at once, and what it puts off.                *)
(***************************************************************************)
EXTENDS Integers

CONSTANTS
    PolicyModes,  \* the modes a deployment may be configured with
    EveryN        \* coalesce: rebuild after this many deletes

ASSUME PolicyAssumption ==
    PolicyModes \subseteq {"always", "never", "coalesce"} /\ EveryN \in Nat \ {0}

VARIABLES
    mode,     \* fixed at start
    pending,  \* deletes noted since the last rebuild
    aged,     \* the first of them is older than max_age_s
    lost      \* labels wiped since then and never noted (a history variable)

policyVars == <<mode, pending, aged, lost>>

PolicyType == mode \in PolicyModes /\ pending \in Nat /\ aged \in BOOLEAN

PolicyInit == mode \in PolicyModes /\ pending = 0 /\ aged = FALSE /\ lost = {}

\* The pending count once n more deletes are noted.
note_deletes(n) == pending + n

\* decide(), asked after n deletes were noted; the age of a first delete that
\* was noted just now is below any positive limit.
decide(n) ==
    CASE mode = "always" -> TRUE
      [] mode = "never"  -> FALSE
      [] OTHER -> /\ note_deletes(n) > 0
                  /\ note_deletes(n) >= EveryN \/ (pending > 0 /\ aged)

\* Mutant: only one of the deletes is taken off.
MarkOneCompacted ==
    /\ pending' = pending - 1
    /\ aged' = FALSE
    /\ lost' = {}
    /\ UNCHANGED mode

mark_compacted == pending' = 0 /\ aged' = FALSE /\ lost' = {} /\ UNCHANGED mode

\* n deletes noted and no rebuild done.
KeepPending(n) == pending' = note_deletes(n) /\ UNCHANGED <<mode, aged, lost>>

\* Time passes: external.
Age ==
    /\ mode = "coalesce"
    /\ pending > 0
    /\ ~aged
    /\ aged' = TRUE
    /\ UNCHANGED <<mode, pending, lost>>
=============================================================================
