---------------------------- MODULE LogicalTypes ----------------------------
(***************************************************************************)
(* LogicalType (src/logical_type.cpp): a kind with the parameters its      *)
(* kind calls for.  Parameters are the alternative of the variant they     *)
(* hold and the numbers in it, in the order of the struct; enumerators     *)
(* are numbers, and a caller may cast any number to one.                   *)
(***************************************************************************)
EXTENDS Checks, Integers

\* LogicalTypeKind and LogicalTypeParameters, in the order of their values
Kinds ==
  <<"boolean", "int8", "int16", "int32", "int64", "uint8", "uint16", "uint32",
    "uint64", "float32", "float64", "decimal", "date", "time", "timestamp",
    "duration", "string", "binary", "fixed_binary", "uuid">>
Alternatives == <<"none", "decimal", "time", "timestamp", "string", "fixed_binary">>

Parameters(alternative, numbers) == [alternative |-> alternative, numbers |-> numbers]
NoParameters == Parameters("none", <<>>)

MaxPrecision == 38
TimeUnits == 0..3      \* second to nanosecond
TimezoneModes == 0..1  \* instant, local
Utf8Modes == 0..1      \* strict, trusted

ValidDecimal(precision, scale) ==
  precision \in 1..MaxPrecision /\ scale \in (-precision)..precision

\* The alternative a kind is given
AlternativeOf(kind) ==
  CASE kind = "decimal"                -> "decimal"
    [] kind \in {"time", "duration"}   -> "time"
    [] kind = "timestamp"              -> "timestamp"
    [] kind = "string"                 -> "string"
    [] kind = "fixed_binary"           -> "fixed_binary"
    [] OTHER                           -> "none"

\* validate_parameters
ValidParameters(kind, p) ==
  /\ p.alternative = AlternativeOf(kind)
  /\ CASE p.alternative = "none"         -> TRUE
       [] p.alternative = "decimal"      -> ValidDecimal(p.numbers[1], p.numbers[2])
       [] p.alternative = "time"         -> p.numbers[1] \in TimeUnits
       [] p.alternative = "timestamp"    -> /\ p.numbers[1] \in TimeUnits
                                            /\ p.numbers[2] \in TimezoneModes
       [] p.alternative = "string"       -> p.numbers[1] \in Utf8Modes
       [] p.alternative = "fixed_binary" -> p.numbers[1] # 0

\* LogicalType::create; a number past uuid is no kind
CreateError(kind, p) ==
  FirstError(<<Check(kind \notin ToSet(Kinds),   "invalid_schema"),
               Check(~ValidParameters(kind, p),  "invalid_schema")>>)

LogicalType(kind, p) == [kind |-> kind, parameters |-> p]

IsVariableWidth(type) == type.kind \in {"string", "binary"}

FixedWidthBytes(type) ==
  CASE type.kind \in {"int8", "uint8"}                        -> 1
    [] type.kind \in {"int16", "uint16"}                      -> 2
    [] type.kind \in {"int32", "uint32", "float32", "date"}   -> 4
    [] type.kind \in {"int64", "uint64", "float64", "time",
                      "timestamp", "duration"}                -> 8
    [] type.kind \in {"decimal", "uuid"}                      -> 16
    [] type.kind = "fixed_binary"                             -> type.parameters.numbers[1]
    [] OTHER                                                  -> 0

=============================================================================
