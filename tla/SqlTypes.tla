-------------------------------- MODULE SqlTypes --------------------------------
(***************************************************************************)
(* The SQL types of columns, as the filter compiler and the aggregates     *)
(* tell them apart (src/utils/filter-tree.ts).                             *)
(***************************************************************************)
EXTENDS Integers

(* Types: [name, precision, scale], precision 0 where the name stands alone. *)

SignedTypes == {"TINYINT", "SMALLINT", "INTEGER", "BIGINT", "HUGEINT"}
UnsignedTypes == {"UTINYINT", "USMALLINT", "UINTEGER", "UBIGINT", "UHUGEINT"}
IntegerTypes == SignedTypes \cup UnsignedTypes
FloatTypes == {"FLOAT", "DOUBLE"}
TimezoneTypes == {"TIMESTAMP WITH TIME ZONE", "TIMESTAMPTZ"}
DateTypes == {"DATE", "TIMESTAMP", "TIMESTAMP_S", "TIMESTAMP_MS", "TIMESTAMP_NS"}
             \cup TimezoneTypes

IsDecimalType(type) ==
  /\ type.name = "DECIMAL"
  /\ type.precision \in 0..38
  /\ type.precision # 0 => type.scale <= type.precision

SqlTypeFamily(type) ==
  IF type.name \in IntegerTypes \cup FloatTypes \/ IsDecimalType(type) THEN "numeric"
  ELSE IF type.name \in DateTypes THEN "date"
  ELSE IF type.name = "VARCHAR" THEN "text"
  ELSE IF type.name = "BOOLEAN" THEN "boolean"
  ELSE "other"

(* The type a value is CAST to: the column's, wide where it is unknown.     *)
CastTypeOf(type) ==
  IF type.name = "DECIMAL" /\ type.precision = 0
    THEN [name |-> "DECIMAL", precision |-> 38, scale |-> 9]
    ELSE type

(* The types of the columns of a dataset, from their metadata.              *)
Types(metadata) == [c \in DOMAIN metadata |-> metadata[c].type]

=============================================================================
