----------------------------- MODULE KudoTable -----------------------------
(***************************************************************************)
(* Schemas and host columns as the Kudo serializer sees them.              *)
(*                                                                         *)
(* Visitors.visitSchema and visitColumns walk a schema depth first, so a   *)
(* schema is the sequence of its nodes in that order:                      *)
(*   kind   "struct", "list", "string" or "fixed"                          *)
(*   size   bytes of an element of a fixed width column                    *)
(*   list   the nearest enclosing list node, 0 at the top: the rows a node *)
(*          contributes are those of the slice that list pushed on the     *)
(*          visitors' sliceInfos stack                                     *)
(*   kids   its children                                                   *)
(*                                                                         *)
(* A column has rows, nullable (has a validity buffer), valid (the set of  *)
(* 1 bits of that buffer, bits behind the last row included), offs (its    *)
(* offsets, << >> when the buffer is null) and data.                       *)
(***************************************************************************)
EXTENDS KudoBytes

Nodes(schema) == 1 .. Len(schema)
HasOffsets(node) == node.kind \in {"list", "string"}

\* One slice of rows of a column; SlicedValidityBufferInfo.calc gives the
\* bytes of a validity buffer that the slice touches.
SliceInfo(offset, rows) == [offset |-> offset, rows |-> rows]
EmptySlice == SliceInfo(0, 0)
BufferOffset(s) == s.offset \div ByteBits
\* Every slice taken to begin at a byte (a mutation).
BeginBitAligned(s) == 0
BeginBit(s) == s.offset % ByteBits
BufferLength(s) ==
    IF s.rows > 0 THEN (s.offset + s.rows - 1) \div ByteBits - BufferOffset(s) + 1 ELSE 0

-----------------------------------------------------------------------------
(* The rows of a table: the reference the shuffle is checked against. *)

Null == [null |-> TRUE]

\* What each row of each column holds; a row of a list is the sequence of
\* its elements, of a struct the sequence of its fields.
RowValues(schema, cols) ==
    LET values[i \in Nodes(schema)] ==
          LET c == cols[i]  kids == schema[i].kids
              from(r) == c.offs[r + 1]
              upto(r) == c.offs[r + 2]
              value(r) ==
                CASE schema[i].kind = "struct" -> [k \in DOMAIN kids |-> values[kids[k]][r]]
                  [] schema[i].kind = "list" ->
                       [k \in 1 .. upto(r) - from(r) |-> values[kids[1]][from(r) + k - 1]]
                  [] schema[i].kind = "string" ->
                       [k \in 1 .. upto(r) - from(r) |-> c.data[from(r) + k]]
                  [] schema[i].kind = "fixed" ->
                       [k \in 1 .. schema[i].size |-> c.data[r * schema[i].size + k]]
          IN  [r \in 0 .. c.rows - 1 |-> IF c.nullable /\ r \notin c.valid THEN Null ELSE [value |-> value(r)]]
    IN  values

\* The top level columns, and the rows offset .. offset+rows-1 of a table.
TopLevel(schema) ==
    {i \in Nodes(schema) : \A j \in Nodes(schema) : i \notin Range(schema[j].kids)}

SliceRows(schema, cols, offset, rows) ==
    LET values == RowValues(schema, cols)
    IN  [k \in 1 .. rows |-> [i \in TopLevel(schema) |-> values[i][offset + k - 1]]]

NullCount(c) == IF c.nullable THEN Cardinality((0 .. c.rows - 1) \ c.valid) ELSE 0
=============================================================================
