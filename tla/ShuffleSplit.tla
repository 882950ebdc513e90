---------------------------- MODULE ShuffleSplit ----------------------------
(***************************************************************************)
(* shuffle_split: the GPU writer of the Kudo format.  It cuts a table into *)
(* partitions at the given row indices and returns one buffer in which     *)
(* every partition is a header followed by its validity, offset and data   *)
(* sections.  The table may be a view that begins at row colOffset of its  *)
(* columns.  Device memory is allocated without being cleared, so padding  *)
(* bytes hold the unknown value fill.                                      *)
(***************************************************************************)
EXTENDS KudoSerializer

\* The rows of node i that belong to a partition: the root rows moved by the
\* offset of the view, then through the offsets of every enclosing list.
\* A list made by empty_like() has no offsets to apply.
RowRange(schema, cols, colOffset, first, last) ==
    LET child[i \in 0 .. Len(schema)] ==
          IF i = 0 THEN [start |-> first + colOffset, end |-> last + colOffset]
          ELSE LET r == child[schema[i].list]
               IN  IF ~HasOffsets(schema[i]) \/ cols[i].offs = << >> THEN r
                   ELSE [start |-> cols[i].offs[r.start + 1], end |-> cols[i].offs[r.end + 1]]
    IN  child

include_nulls_for_column(c, colOffset) == c.nullable /\ c.rows - colOffset > 0

\* What split_copy copies for one buffer of a node in one partition.
ValidityPart(c, colOffset, r) ==
    IF ~include_nulls_for_column(c, colOffset) \/ r.end = r.start THEN << >>
    ELSE [k \in 1 .. CeilDiv(r.end - r.start + (r.start % ByteBits), ByteBits) |->
            ByteAt(c.valid, ((r.start \div ByteBits) + k - 1) * ByteBits)]

OffsetPart(node, c, r) ==
    IF ~HasOffsets(node) \/ c.offs = << >> \/ r.end = r.start THEN << >>
    ELSE FlattenSeq([k \in 1 .. r.end - r.start + 1 |-> LittleEndian(c.offs[r.start + k])])

\* chars is the range of a string column after its own offsets.
DataPart(node, c, r, chars) ==
    CASE node.kind = "string" -> SubSeq(c.data, chars.start + 1, chars.end)
      [] node.kind = "fixed" -> SubSeq(c.data, r.start * node.size + 1, r.end * node.size)
      [] OTHER -> << >>

PaddedWith(bytes, length, fill) == bytes \o [k \in 1 .. length - Len(bytes) |-> fill]

\* One partition.  The header records the row index of the view, not of the
\* columns behind it.
PartitionBytes(schema, cols, colOffset, first, last, fill) ==
    LET child == RowRange(schema, cols, colOffset, first, last)
        range(i) == child[schema[i].list]
        validity == FlattenSeq([i \in Nodes(schema) |->
                                  ValidityPart(cols[i], colOffset, range(i))])
        offsets  == FlattenSeq([i \in Nodes(schema) |->
                                  OffsetPart(schema[i], cols[i], range(i))])
        data     == FlattenSeq([i \in Nodes(schema) |->
                                  DataPart(schema[i], cols[i], range(i), child[i])])
        validity_begin == getSerializedSize(Len(schema))
        offsets_begin  == roundUpSafe(validity_begin + Len(validity), IntBytes)
        data_begin     == roundUpSafe(offsets_begin + Len(offsets), IntBytes)
        data_end       == roundUpSafe(data_begin + Len(data), IntBytes)
    IN  HeaderBytes([offset |-> first, numRows |-> last - first,
                     validityBufferLen |-> offsets_begin - validity_begin,
                     offsetBufferLen |-> data_begin - offsets_begin,
                     totalDataLen |-> data_end - validity_begin,
                     numColumns |-> Len(schema),
                     hasValidityBuffer |->
                        {i - 1 : i \in {j \in Nodes(schema) :
                            include_nulls_for_column(cols[j], colOffset)
                              /\ range(j).end > range(j).start}}])
          \o PaddedWith(validity, offsets_begin - validity_begin, fill)
          \o PaddedWith(offsets, data_begin - offsets_begin, fill)
          \o PaddedWith(data, data_end - data_begin, fill)

\* The partitions of a table cut at splits (an ascending sequence of row
\* indices of the view); a table without rows has none.
shuffle_split(schema, cols, colOffset, splits, fill) ==
    LET rows == cols[1].rows - colOffset
        index == <<0>> \o splits \o <<rows>>
    IN  IF rows = 0 THEN << >>
        ELSE [p \in 1 .. Len(splits) + 1 |->
                PartitionBytes(schema, cols, colOffset, index[p], index[p + 1], fill)]
=============================================================================
