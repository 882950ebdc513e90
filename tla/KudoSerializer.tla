--------------------------- MODULE KudoSerializer ---------------------------
(***************************************************************************)
(* The host side writer and reader of the Kudo format: KudoSerializer      *)
(* .writeToStream (header, then the sliced validity, offset and data       *)
(* buffers of all columns) and KudoTable.from, which reads one table back. *)
(* A stream is a sequence of bytes.                                        *)
(***************************************************************************)
EXTENDS KudoTable

\* "KUD0", cut to the width of an int.
SER_FORMAT_MAGIC_NUMBER == 75 % (MaxInt + 1)

padForHostAlignment(n) == roundUpSafe(n, IntBytes)
padForValidityAlignment(n, headerSize) == roundUpSafe(n + headerSize, IntBytes) - headerSize

lengthOfHasValidityBuffer(numColumns) == CeilDiv(numColumns, ByteBits)

\* The bit set forgotten (a mutation).
fixedSerializedSize(numColumns) == 7 * IntBytes
getSerializedSize(numColumns) == 7 * IntBytes + lengthOfHasValidityBuffer(numColumns)

-----------------------------------------------------------------------------
(* The slice of rows each node contributes. *)

\* The slice a list node pushes for its child; a list without offsets
\* pushes an empty one.  Index 0 is the slice of the root.
ChildSlices(schema, cols, root) ==
    LET slice[i \in 0 .. Len(schema)] ==
          IF i = 0 THEN root
          ELSE IF schema[i].kind # "list" \/ cols[i].offs = << >> THEN EmptySlice
          ELSE LET parent == slice[schema[i].list]
                   start  == cols[i].offs[parent.offset + 1]
                   end    == cols[i].offs[parent.offset + parent.rows + 1]
               IN  SliceInfo(start, end - start)
    IN  slice

SliceOfNode(schema, cols, root) ==
    LET slice == ChildSlices(schema, cols, root)
    IN  [i \in Nodes(schema) |-> slice[schema[i].list]]

IncludeValidity(c, s) == c.nullable /\ s.rows > 0

-----------------------------------------------------------------------------
(* KudoTableHeaderCalc: the lengths the header announces. *)

dataLenOfValidityBuffer(c, s) == IF IncludeValidity(c, s) THEN BufferLength(s) ELSE 0

\* Of a list the offsets must exist; of a string the type alone decides.
dataLenOfOffsetBuffer(node, c, s) ==
    IF /\ s.rows > 0
       /\ node.kind = "string" \/ (node.kind = "list" /\ c.offs # << >>)
    THEN (s.rows + 1) * IntBytes ELSE 0

dataLenOfDataBuffer(node, c, s) ==
    CASE node.kind = "string" ->
           IF c.offs = << >> THEN 0 ELSE c.offs[s.offset + s.rows + 1] - c.offs[s.offset + 1]
      [] node.kind = "fixed" -> node.size * s.rows
      [] OTHER -> 0

Total(len(_), schema) ==
    LET sum[i \in 0 .. Len(schema)] == IF i = 0 THEN 0 ELSE sum[i - 1] + len(i)
    IN  sum[Len(schema)]

getHeader(schema, cols, offset, rows) ==
    LET slice == SliceOfNode(schema, cols, SliceInfo(offset, rows))
        validity(i) == dataLenOfValidityBuffer(cols[i], slice[i])
        offsets(i)  == dataLenOfOffsetBuffer(schema[i], cols[i], slice[i])
        data(i)     == dataLenOfDataBuffer(schema[i], cols[i], slice[i])
        paddedValiditySize ==
            padForValidityAlignment(Total(validity, schema), getSerializedSize(Len(schema)))
        paddedOffsetsSize  == padForHostAlignment(Total(offsets, schema))
    IN  [offset |-> offset, numRows |-> rows,
         validityBufferLen |-> paddedValiditySize,
         offsetBufferLen |-> paddedOffsetsSize,
         totalDataLen |-> paddedValiditySize + paddedOffsetsSize
                            + padForHostAlignment(Total(data, schema)),
         numColumns |-> Len(schema),
         hasValidityBuffer |-> {i - 1 : i \in {j \in Nodes(schema) :
                                               IncludeValidity(cols[j], slice[j])}}]

\* Seven big endian ints and the bit set.
HeaderBytes(h) ==
    BigEndian(SER_FORMAT_MAGIC_NUMBER) \o BigEndian(h.offset) \o BigEndian(h.numRows)
        \o BigEndian(h.validityBufferLen) \o BigEndian(h.offsetBufferLen)
        \o BigEndian(h.totalDataLen) \o BigEndian(h.numColumns)
        \o [k \in 1 .. lengthOfHasValidityBuffer(h.numColumns) |->
              ByteAt(h.hasValidityBuffer, (k - 1) * ByteBits)]

-----------------------------------------------------------------------------
(* SlicedBufferSerializer: one pass over the columns per buffer type. *)

copySlicedValidity(c, s) ==
    IF ~IncludeValidity(c, s) THEN << >>
    ELSE [k \in 1 .. BufferLength(s) |-> ByteAt(c.valid, (BufferOffset(s) + k - 1) * ByteBits)]

copySlicedOffset(node, c, s) ==
    IF ~HasOffsets(node) \/ s.rows <= 0 \/ c.offs = << >> THEN << >>
    ELSE FlattenSeq([k \in 1 .. s.rows + 1 |-> LittleEndian(c.offs[s.offset + k])])

copySlicedData(node, c, s) ==
    CASE s.rows <= 0 -> << >>
      [] node.kind = "string" /\ s.rows > 0 ->
           SubSeq(c.data, c.offs[s.offset + 1] + 1, c.offs[s.offset + s.rows + 1])
      [] node.kind = "fixed" /\ s.rows > 0 ->
           SubSeq(c.data, s.offset * node.size + 1, (s.offset + s.rows) * node.size)
      [] OTHER -> << >>

Padded(bytes, length) == bytes \o [k \in 1 .. length - Len(bytes) |-> 0]

SlicedBuffers(schema, cols, offset, rows) ==
    LET slice == SliceOfNode(schema, cols, SliceInfo(offset, rows))
        validity == FlattenSeq([i \in Nodes(schema) |-> copySlicedValidity(cols[i], slice[i])])
        offsets  == FlattenSeq([i \in Nodes(schema) |->
                                  copySlicedOffset(schema[i], cols[i], slice[i])])
        data     == FlattenSeq([i \in Nodes(schema) |->
                                  copySlicedData(schema[i], cols[i], slice[i])])
    IN  Padded(validity, padForValidityAlignment(Len(validity), getSerializedSize(Len(schema))))
          \o Padded(offsets, padForHostAlignment(Len(offsets)))
          \o Padded(data, padForHostAlignment(Len(data)))

\* writeSliced fails when the header does not announce what was written, or
\* does not fit an int; the header has been written by then.
WriteFailed == << >>

writeSliced(schema, cols, offset, rows) ==
    LET written(h, body) ==
          IF h.totalDataLen > MaxInt \/ Len(body) # h.totalDataLen THEN WriteFailed
          ELSE HeaderBytes(h) \o body
    IN  written(getHeader(schema, cols, offset, rows), SlicedBuffers(schema, cols, offset, rows))

writeRowCount(rows) ==
    HeaderBytes([offset |-> 0, numRows |-> rows, validityBufferLen |-> 0, offsetBufferLen |-> 0,
                 totalDataLen |-> 0, numColumns |-> 0, hasValidityBuffer |-> {}])

-----------------------------------------------------------------------------
(* KudoTable.from. *)

EndOfStream == [outcome |-> "end"]
ReadFailed  == [outcome |-> "failed"]

\* The end of the stream anywhere inside the magic number counts as the end
\* of the data; inside the rest of a table it is an error.
readFrom(stream) ==
    IF Len(stream) < IntBytes THEN EndOfStream
    ELSE IF IntAt(stream, 0) # SER_FORMAT_MAGIC_NUMBER THEN ReadFailed
    ELSE IF Len(stream) < 7 * IntBytes THEN ReadFailed
    ELSE LET field(k) == IntAt(stream, k * IntBytes)
             bits == lengthOfHasValidityBuffer(field(6))
         IN  IF Len(stream) < 7 * IntBytes + bits THEN ReadFailed
             ELSE [outcome |-> "header", offset |-> field(1), numRows |-> field(2), validityBufferLen |-> field(3),
                   offsetBufferLen |-> field(4), totalDataLen |-> field(5), numColumns |-> field(6),
                   hasValidityBuffer |->
                      {b \in 0 .. bits * ByteBits - 1 :
                         (stream[7 * IntBytes + (b \div ByteBits) + 1] \div 2 ^ (b % ByteBits)) % 2 = 1}]

\* A table, with the number of bytes it took from the stream; a record
\* without columns is a row count only and has no buffer.
KudoTableFrom(stream) ==
    LET table(h, body) ==
          IF h.numColumns > 0 /\ Len(stream) < body + h.totalDataLen THEN ReadFailed
          ELSE [outcome |-> "table", header |-> h, taken |-> body + h.totalDataLen,
                buffer |-> [k \in 0 .. h.totalDataLen - 1 |-> stream[body + k + 1]]]
        read(h) == IF h.outcome # "header" THEN h ELSE table(h, getSerializedSize(h.numColumns))
    IN  read(readFrom(stream))
=============================================================================
