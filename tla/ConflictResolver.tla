-------------------------- MODULE ConflictResolver --------------------------
(***************************************************************************)
(* The pure core of the sync: what of an invoice is compared               *)
(* (src/src/models/invoice.ts) and who wins when the two systems differ    *)
(* (src/src/services/conflictResolver.ts).                                 *)
(*                                                                         *)
(* A comparable invoice is its lifecycle, its content and whether a void   *)
(* has zeroed its amounts.  The content (customer, notes, lines, total) is *)
(* one number: the instant of the edit that produced it, or of the read    *)
(* that mixed it from two.  Its hash and its sorted JSON identify it, so   *)
(* comparing them is comparing the records.                                *)
(***************************************************************************)
EXTENDS Naturals

CONSTANT None   \* null

Lifecycles == {"active", "voided", "deleted"}
Comparable == [life : Lifecycles, body : Nat, zero : BOOLEAN]

\* The states after which an invoice is no longer edited.
Dead(c) == c.life \in {"voided", "deleted"}

\* What voiding in the accounting system leaves of an invoice.
Voided(c) == [c EXCEPT !.life = "voided", !.zero = TRUE]

\* Mutant of Decision: the tie and the order of the timestamps reversed.
DecisionOldestWins(base, internal, external, internalAt, externalAt) ==
  IF internal = external THEN "noop"
  ELSE IF base # None /\ internal # base /\ external = base THEN "one_sided_internal"
  ELSE IF base # None /\ external # base /\ internal = base THEN "one_sided_external"
  ELSE IF internalAt < externalAt THEN "lww_internal" ELSE "lww_external"

\* resolve: a side that equals the last synced snapshot has not changed; two
\* changes, or no snapshot to compare with, go to the later timestamp, a tie
\* to the external side.
Decision(base, internal, external, internalAt, externalAt) ==
  IF internal = external THEN "noop"
  ELSE IF base # None /\ internal # base /\ external = base THEN "one_sided_internal"
  ELSE IF base # None /\ external # base /\ internal = base THEN "one_sided_external"
  ELSE IF internalAt > externalAt THEN "lww_internal" ELSE "lww_external"

Decisions == {"noop", "one_sided_internal", "one_sided_external",
              "lww_internal", "lww_external"}

InternalWins(d) == d \in {"one_sided_internal", "lww_internal"}
IsLww(d) == d \in {"lww_internal", "lww_external"}

\* Mutant of Overwritten: a null is recorded when nothing is overwritten.
OverwrittenNull(d, internal, external) ==
  IF ~IsLww(d) THEN {None} ELSE {IF InternalWins(d) THEN external ELSE internal}

\* Mutant of Overwritten: always the external side is recorded, who ever wins.
OverwrittenExternal(d, internal, external) == IF ~IsLww(d) THEN {} ELSE {external}

\* The winner, whole; and what a last-write-wins decision overwrites.
Merged(d, internal, external) == IF InternalWins(d) THEN internal ELSE external
Overwritten(d, internal, external) ==
  IF ~IsLww(d) THEN {}
  ELSE {IF InternalWins(d) THEN external ELSE internal}
=============================================================================
