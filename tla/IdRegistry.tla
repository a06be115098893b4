------------------------------ MODULE IdRegistry ------------------------------
(***************************************************************************)
(* integrations/id_registry.py: one collection of CollectionIdRegistry,    *)
(* two dictionaries that must stay inverse to each other and the next free *)
(* label.                                                                  *)
(***************************************************************************)
EXTENDS Integers

CONSTANTS
    Ids,        \* business ids
    NoId,       \* a label that nobody holds
    NumLabels   \* bound: labels are 0 .. NumLabels - 1

ASSUME IdsAssumption == NoId \notin Ids

ASSUME NumLabelsAssumption == NumLabels \in Nat

Labels  == 0 .. (NumLabels - 1)
NoLabel == -1

VARIABLES
    forward,    \* external id -> label
    reverse,    \* label -> external id
    nextLabel

registryVars == <<forward, reverse, nextLabel>>

RegistryType ==
    /\ forward \in [Ids -> Labels \cup {NoLabel}]
    /\ reverse \in [Labels -> Ids \cup {NoId}]
    /\ nextLabel \in 0 .. NumLabels

RegistryInit ==
    /\ forward = [i \in Ids |-> NoLabel]
    /\ reverse = [l \in Labels |-> NoId]
    /\ nextLabel = 0

Known(i) == forward[i] # NoLabel

\* The label register(i) returns: the one i has, or the next.
LabelFor(i) == IF Known(i) THEN forward[i] ELSE nextLabel

Bind(i, l) ==
    /\ forward' = [forward EXCEPT ![i] = l]
    /\ reverse' = [reverse EXCEPT ![l] = i]

\* register(i): an id that is known keeps its label.
register(i) ==
    IF Known(i)
    THEN UNCHANGED registryVars
    ELSE /\ nextLabel \in Labels
         /\ Bind(i, nextLabel)
         /\ nextLabel' = nextLabel + 1

\* Mutant: a label named by the caller does not move the counter.
RegisterAtKeepsCounter(i, l) ==
    /\ ~Known(i)
    /\ reverse[l] = NoId
    /\ Bind(i, l)
    /\ UNCHANGED nextLabel

\* register(i, label=l): refused for a label in use, or an id with another one.
register_at(i, l) ==
    /\ ~Known(i)
    /\ reverse[l] = NoId
    /\ Bind(i, l)
    /\ nextLabel' = IF l < nextLabel THEN nextLabel ELSE l + 1

\* drop(i), after a successful hard delete.
drop(i) ==
    /\ forward' = [forward EXCEPT ![i] = NoLabel]
    /\ reverse' = [reverse EXCEPT ![forward[i]] = NoId]
    /\ UNCHANGED nextLabel

\* The two dictionaries are inverse to each other, and what the counter has not
\* reached is free: register, drop and the deletes that call them never leave
\* two ids on one label, or an id that resolves to another id's label.
MappingsAgree ==
    /\ \A i \in Ids, l \in Labels : forward[i] = l <=> reverse[l] = i
    /\ \A l \in Labels : l >= nextLabel => reverse[l] = NoId
=============================================================================
