-------------------------- MODULE MCColumnBuilders --------------------------
(* Two-bit bytes and a 64-bit word that counts to five: a bitmap of three   *)
(* rows crosses a byte boundary, one of five rows is too large to size.      *)
EXTENDS ColumnBuilders

MCTypes == {LogicalType("uuid", NoParameters), LogicalType("boolean", NoParameters),
            LogicalType("string", Parameters("string", <<0>>))}
MCRows == {3, 5}
=============================================================================
