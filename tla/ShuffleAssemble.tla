--------------------------- MODULE ShuffleAssemble ---------------------------
(***************************************************************************)
(* shuffle_assemble: the GPU reader of the Kudo format.  From the headers  *)
(* of the partitions it computes the rows every column has in every        *)
(* partition, lays out one shared device buffer, and copies validity,      *)
(* offsets and data into it in batches.  The batches run as kernel blocks  *)
(* in no particular order; order gives the one in which they take effect.  *)
(***************************************************************************)
EXTENDS KudoMerger

CONSTANT BatchBytes      \* desired_assemble_batch_size, 1 MB in the code

\* Shifts of 32 bit words on the GPU clamp: a shift by the width gives 0.
CudaShl(w, n) == {b + n : b \in w} \cap AllOnes
CudaShr(w, n) == {b - n : b \in w} \cap AllOnes

-----------------------------------------------------------------------------
(* assemble_build_column_info: rows, characters and source position of     *)
(* each column instance (a column of one partition).                       *)

\* The bytes the buffers of an instance have in the partition; a column
\* without rows has not even the blank offset.
validity_size(x) == IF x.has /\ x.rows > 0
                    THEN CeilDiv(x.rows + (x.src % ByteBits), ByteBits) ELSE 0
offsets_size(node, x) == IF HasOffsets(node) /\ x.rows > 0 THEN (x.rows + 1) * IntBytes ELSE 0
data_size(node, x) == CASE node.kind = "fixed" -> node.size * x.rows
                        [] node.kind = "string" -> x.chars
                        [] OTHER -> 0

\* What the offsets of an instance say: its first offset, its characters,
\* and the rows its child has and the source row they begin at.
offset_child_row_counts(node, t, rows, src, offset) ==
    LET counts(first, span) ==
          [chars |-> IF node.kind = "string" THEN span ELSE 0,
           childRows |-> IF node.kind = "list" THEN span ELSE 0,
           childSrc |-> IF node.kind = "list" THEN first ELSE src,
           first |-> first]
        spanned(first, last) == counts(first, last - first)
    IN  IF HasOffsets(node) /\ rows > 0
        THEN spanned(GetInt(t.buffer, offset), GetInt(t.buffer, offset + rows * IntBytes))
        ELSE [chars |-> 0, childRows |-> 0, childSrc |-> src, first |-> 0]

\* at[i] is the instance of node i; validity, offset and data are where its
\* source buffers begin in the partition, the scan of the sizes before it.
Sized(node, x) == x @@ [validitySize |-> validity_size(x), offsetsSize |-> offsets_size(node, x),
                         dataSize |-> data_size(node, x)]

Instances(schema, t) ==
    LET h == t.header
        positions(i, before) ==
          IF i = 1 THEN [validity |-> 0, offset |-> h.validityBufferLen,
                         data |-> h.validityBufferLen + h.offsetBufferLen]
          ELSE [validity |-> before.validity + before.validitySize,
                offset |-> before.offset + before.offsetsSize,
                data |-> before.data + before.dataSize]
        instance(i, pos, rows, src) ==
          Sized(schema[i], pos @@ [rows |-> rows, src |-> src, has |-> HasValidityBuffer(t, i)]
                             @@ offset_child_row_counts(schema[i], t, rows, src, pos.offset))
        top(i) == schema[i].list = 0 \/ h.numRows = 0
        at[i \in Nodes(schema)] ==
          IF top(i) THEN instance(i, positions(i, at[i - 1]), h.numRows, h.offset)
          ELSE instance(i, positions(i, at[i - 1]), at[schema[i].list].childRows,
                        at[schema[i].list].childSrc)
    IN  at

-----------------------------------------------------------------------------
(* assemble_build_buffers: the shared buffer and the copy batches. *)

Slice(at, bytes) == [at |-> at, len |-> roundUpSafe(bytes, BufferAlign)]

SharedBuffer(schema, inst) ==
    LET rowsOf(i) == SumOver(LAMBDA k : inst[k][i].rows, Len(inst))
        charsOf(i) == SumOver(LAMBDA k : inst[k][i].chars, Len(inst))
        has(i) == \E k \in DOMAIN inst : inst[k][i].has
        data(i, p, rows, v, o) ==
          Placed(rows, p, v, o,
                 CASE schema[i].kind = "string" -> Slice(p + v.len + o.len, charsOf(i))
                   [] schema[i].kind = "fixed" -> Slice(p + v.len + o.len, rows * schema[i].size)
                   [] OTHER -> NoBuffer)
        offset(i, p, rows, v) ==
          data(i, p, rows, v, IF HasOffsets(schema[i]) THEN Slice(p + v.len, (rows + 1) * IntBytes)
                              ELSE NoBuffer)
        validity(i, p, rows) ==
          offset(i, p, rows, IF has(i) THEN Slice(p, getValidityLengthInBytes(rows)) ELSE NoBuffer)
        place[i \in 0 .. Len(schema)] ==
          IF i = 0 THEN [end |-> 0] ELSE validity(i, place[i - 1].end, rowsOf(i))
    IN  place

size_to_batch_count(bytes) == CeilDiv(bytes, BatchBytes)

\* The sum of f over the instances of a column before partition k.
Before(inst, k, f(_)) == LET g(j) == f(inst[j]) IN SumOver(g, k - 1)
RowIndex(inst, k, i) == Before(inst, k, LAMBDA x : x[i].rows)

\* A column that has validity in some other partition is filled with valid
\* bits here (no source).
Faked(x, p) == p.validity # NoBuffer /\ ~x.has

\* Batch b of the validity of a column instance.  Its row count is computed
\* in unsigned arithmetic: a batch behind the last row wraps around to a full
\* batch.
ValidityBatch(inst, place, k, i, b) ==
    LET x == inst[k][i]
        rowsPerBatch == BatchBytes * ByteBits
    IN  [type |-> "validity", table |-> k, node |-> i, faked |-> Faked(x, place[i]),
         src |-> x.validity + b * BatchBytes,
         dst |-> place[i].validity.at + (RowIndex(inst, k, i) \div WordBits) * IntBytes
                   + b * BatchBytes,
         srcShift |-> x.src % ByteBits, dstShift |-> RowIndex(inst, k, i) % WordBits,
         rows |-> IF x.rows < b * rowsPerBatch THEN rowsPerBatch
                  ELSE MinOf(x.rows - b * rowsPerBatch, rowsPerBatch)]

\* Of its offsets; only the last partition with rows has the terminating one.
OffsetBatch(schema, inst, place, k, i, b) ==
    LET x == inst[k][i]  rowIndex == RowIndex(inst, k, i)
        size == MinOf(x.offsetsSize - b * BatchBytes, BatchBytes)
        end  == (b + 1) * BatchBytes >= x.offsetsSize
        index == IF schema[i].kind = "string" THEN Before(inst, k, LAMBDA y : y[i].chars)
                 ELSE RowIndex(inst, k, i + 1)
    IN  [type |-> "offsets", table |-> k, node |-> i,
         src |-> x.offset + b * BatchBytes,
         dst |-> place[i].offset.at + rowIndex * IntBytes + b * BatchBytes,
         bytes |-> IF end /\ rowIndex + x.rows # place[i].rows THEN size - IntBytes ELSE size,
         shift |-> index - x.first]

DataBatch(inst, place, k, i) ==
    [type |-> "data", table |-> k, node |-> i, src |-> inst[k][i].data,
     dst |-> place[i].data.at + Before(inst, k, LAMBDA y : y[i].dataSize),
     bytes |-> inst[k][i].dataSize]

\* All batches of a column instance; data is copied in one piece.
Batches(schema, inst, place, k, i) ==
    LET x == inst[k][i]
        validityBytes == IF Faked(x, place[i]) THEN CeilDiv(x.rows, ByteBits) ELSE x.validitySize
    IN  [b \in 1 .. size_to_batch_count(validityBytes) |-> ValidityBatch(inst, place, k, i, b - 1)]
          \o [b \in 1 .. size_to_batch_count(x.offsetsSize) |->
                OffsetBatch(schema, inst, place, k, i, b - 1)]
          \o <<DataBatch(inst, place, k, i)>>

-----------------------------------------------------------------------------
(* The copy kernels. *)

\* The bytes of a word that hold bits rows; no source gives bits ones.
load_word(t, batch, at, bits) ==
    IF batch.faked THEN LowBits(MinOf(bits, WordBits))
    ELSE {b \in LowBits(MaxOf(1, CeilDiv(MinOf(bits, WordBits), ByteBits)) * ByteBits) :
             (at + (b \div ByteBits)) \in DOMAIN t.buffer /\ BitOf(t.buffer, at, b)}

OrWord(mem, at, w) == SetWord(mem, at, GetWord(mem, at) \cup w)

\* copy_validity.  The leading bytes up to the first aligned source word are
\* merged into the first destination word, what does not fit is carried to
\* the next.  The first and the last destination word may belong to other
\* batches as well and are updated with an atomic or; the words between them
\* are overwritten.  The result counts the valid bits stored.
Leading(t, batch) ==
    IF batch.faked THEN IntBytes
    ELSE IntBytes - ((getSerializedSize(t.header.numColumns) + batch.src) % IntBytes)

\* The words behind the leading bytes: left rows from source byte src on, at
\* bit shift of destination word leading; last is the last word touched.
copy_words(r0, t, batch, src, left, leading, shift, last) ==
    LET store(m, i, w) == IF i \in {0, last} THEN OrWord(m, batch.dst + i * IntBytes, w)
                          ELSE SetWord(m, batch.dst + i * IntBytes, w)
        cur(k, n) == load_word(t, batch, src + k * IntBytes, n) \cap LowBits(n)
        put(r, i, w, prev) ==
          [mem |-> store(r.mem, i, w), prev |-> prev, count |-> r.count + Cardinality(w)]
        copied(r, k, c) == put(r, leading + k, CudaShl(c, shift) \cup r.prev,
                               CudaShr(c, WordBits - shift))
        run[k \in 0 .. CeilDiv(left, WordBits)] ==
          IF k = 0 THEN r0
          ELSE copied(run[k - 1], k - 1, cur(k - 1, MinOf(left - (k - 1) * WordBits, WordBits)))
        carried(end) == IF leading + CeilDiv(left, WordBits) = last
                        THEN put(end, last, end.prev, {}) ELSE end
    IN  carried(run[CeilDiv(left, WordBits)])

copy_validity(mem, t, batch) ==
    LET rest(r, src, left, leading, shift) ==
          IF left # 0 THEN copy_words(r, t, batch, src, left, leading, shift,
                                      leading + CeilDiv(left + shift, WordBits) - 1)
          ELSE [mem |-> IF r.prev = {} THEN r.mem ELSE OrWord(r.mem, batch.dst + IntBytes, r.prev),
                count |-> r.count + Cardinality(r.prev)]
        merged(lead, rows1, prev, first) ==
          rest([mem |-> OrWord(mem, batch.dst, first), prev |-> prev, count |-> Cardinality(first)],
               batch.src + lead, batch.rows - rows1, (rows1 + batch.dstShift) \div WordBits,
               (batch.dstShift + rows1) % WordBits)
        shifted(lead, rows1, word) ==
          merged(lead, rows1, CudaShr(word, WordBits - batch.dstShift), CudaShl(word, batch.dstShift))
        begun(lead, rows1) ==
          shifted(lead, rows1,
                  CudaShr(load_word(t, batch, batch.src, batch.rows + batch.srcShift), batch.srcShift)
                    \cap LowBits(rows1))
        lead1(lead) == begun(lead, MinOf(batch.rows, lead * ByteBits - batch.srcShift))
    IN  lead1(Leading(t, batch))

copy_offsets(mem, t, batch) ==
    Store(mem, batch.dst,
          FlattenSeq([k \in 1 .. batch.bytes \div IntBytes |->
             LittleEndian(GetInt(t.buffer, batch.src + (k - 1) * IntBytes) + batch.shift)]))

copy_batch(state, t, batch) ==
    LET counted(c) == [mem |-> c.mem,
                       valid |-> [state.valid EXCEPT ![batch.node] = @ + c.count]]
    IN  CASE batch.type = "validity" -> counted(copy_validity(state.mem, t, batch))
          [] batch.type = "offsets" -> [state EXCEPT !.mem = copy_offsets(@, t, batch)]
          [] batch.type = "data" ->
               [state EXCEPT !.mem = Store(@, batch.dst, Copied(t.buffer, batch.src, batch.bytes))]

\* Validity is cleared, the rest of the shared buffer is not.
ClearedBytes(schema, place) ==
    UNION {place[i].validity.at .. place[i].validity.at + place[i].validity.len - 1 :
             i \in Nodes(schema)}

copy_batches(schema, tables, place, fill, batches) ==
    LET allocated(cleared) == [a \in 0 .. place[Len(schema)].end - 1 |->
                                 IF a \in cleared THEN 0 ELSE fill]
        run[b \in 0 .. Len(batches)] ==
          IF b = 0 THEN [mem |-> allocated(ClearedBytes(schema, place)),
                         valid |-> [i \in Nodes(schema) |-> 0]]
          ELSE copy_batch(run[b - 1], tables[batches[b].table], batches[b])
        assembled(end) ==
          [buffer |-> end.mem, length |-> place[Len(schema)].end,
           place |-> [i \in Nodes(schema) |-> place[i]],
           nulls |-> [i \in Nodes(schema) |->
                        IF place[i].validity = NoBuffer THEN 0 ELSE place[i].rows - end.valid[i]]]
    IN  assembled(run[Len(batches)])

\* Trailing partitions without rows are dropped.
shuffle_assemble(schema, partitions, fill, order) ==
    LET count == Max({0} \cup {p \in DOMAIN partitions : partitions[p].header.numRows > 0})
        batches(tables, inst, place) ==
          FlattenSeq(FlattenSeq([k \in DOMAIN tables |-> [i \in Nodes(schema) |->
                                   Batches(schema, inst, place, k, i)]]))
        ordered(bs) == IF order = "forward" THEN bs ELSE Reverse(bs)
        placed(tables, inst, place) ==
          copy_batches(schema, tables, place, fill, ordered(batches(tables, inst, place)))
        counted(tables, inst) == placed(tables, inst, SharedBuffer(schema, inst))
        kept(tables) == counted(tables, [k \in DOMAIN tables |-> Instances(schema, tables[k])])
    IN  kept(SubSeq(partitions, 1, count))

\* Of partitions without any rows a table of empty columns is made.
shuffle_assemble_empty(schema) ==
    [i \in Nodes(schema) |-> [rows |-> 0, nullable |-> TRUE, valid |-> {}, data |-> << >>,
                              offs |-> IF HasOffsets(schema[i]) THEN <<0>> ELSE << >>]]
=============================================================================
