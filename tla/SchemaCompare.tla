--------------------------- MODULE SchemaCompare ---------------------------
(***************************************************************************)
(* A schema comparison as docs/validations.md has it: TableSpec on the      *)
(* source server, TableSpec on the destination, then DiffSpecs over the two *)
(* values.  The source's call is the one SpecCapture describes; either      *)
(* table may change during its own.                                         *)
(***************************************************************************)
EXTENDS SpecCapture

CONSTANTS
  DestinationDefinition,      \* what the name may denote on the destination
  DestinationMaxDdl,          \* bound: DDL statements during its capture
  Fold, NoName, NoDefault     \* as in SpecDiff

VARIABLES
  destTable, destVersions, destRequest, destPc, destSpec, destError,  \* its capture
  compared, diffs                                                     \* the comparison

destVars == <<destTable, destVersions, destRequest, destPc, destSpec, destError>>
compareVars == <<captureVars, destVars, compared, diffs>>

Dest == INSTANCE SpecCapture WITH
          Definition <- DestinationDefinition, MaxDdl <- DestinationMaxDdl,
          table <- destTable, versions <- destVersions, request <- destRequest,
          pc <- destPc, spec <- destSpec, error <- destError
D == INSTANCE SpecDiff WITH ComparedSpec <- {}, a <- spec, b <- destSpec

\* What a capture may return is a specification that DiffSpecs may be given.
ASSUME SchemaCompareAssumption ==
  /\ DestinationMaxDdl \in Nat /\ \A t \in DestinationDefinition : IsTable(t)
  /\ \A t \in Definition \cup DestinationDefinition : D!IsTableSpec(SpecOf(t, Section))
  /\ \A n \in DOMAIN Fold : Fold[n] \in DOMAIN Fold /\ Fold[Fold[n]] = Fold[n]

CompareInit == Init /\ Dest!Init /\ compared = FALSE /\ diffs = {}

CaptureSource == Next /\ UNCHANGED <<destVars, compared, diffs>>

\* An error on the source ends the comparison before the destination is read.
CaptureDestination ==
  /\ pc = "done" /\ error = "none"
  /\ Dest!Next
  /\ UNCHANGED <<captureVars, compared, diffs>>

Compare ==
  /\ pc = "done" /\ destPc = "done" /\ error = "none" /\ destError = "none"
  /\ D!Compare
  /\ UNCHANGED <<captureVars, destVars>>

CompareNext == CaptureSource \/ CaptureDestination \/ Compare

CompareSpec == CompareInit /\ [][CompareNext]_compareVars

----------------------------------------------------------------------------
(* Properties.                                                             *)

Asked(section) == section \in request /\ section \in destRequest

\* The source's declared tables s, u, w and the destination's t, v, x agree in
\* everything both captures asked for, constraints aside.
AgreeAt(s, t, u, v, w, x) ==
  /\ s.level = t.level
  /\ Asked("Comment") => s.comment = t.comment
  /\ D!SameObjects(u.columns, v.columns, D!SameColumn)
  /\ Asked("Index") => D!SameObjects(w.indexes, x.indexes, D!SameIndex)

\* Two still servers: an empty list of differences says that the declared
\* tables agree in every section asked for, that no section was asked for on
\* one side only, and nothing but that makes the list empty.
AgreementExact ==
  compared /\ Len(versions) = 1 /\ Len(destVersions) = 1 =>
    (diffs = {} <=> /\ request = destRequest
                    /\ AgreeAt(table, destTable, table, destTable, table, destTable)
                    /\ Asked("Constraint") =>
                         D!SameObjects(table.constraints, destTable.constraints, D!SameConstraint))

\* Under DDL an empty list still says that each section agreed, as the tables
\* were at one moment of their own captures, later sections at later moments.
AgreementOfMoments ==
  compared /\ diffs = {} =>
    \E i, j, k \in DOMAIN versions : \E l, m, n \in DOMAIN destVersions :
      /\ i <= j /\ j <= k /\ l <= m /\ m <= n
      /\ AgreeAt(versions[i], destVersions[l], versions[j], destVersions[m],
                 versions[k], destVersions[n])

=============================================================================
