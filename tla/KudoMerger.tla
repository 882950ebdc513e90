----------------------------- MODULE KudoMerger -----------------------------
(***************************************************************************)
(* KudoSerializer.mergeOnHost: MergedInfoCalc lays out one host buffer for *)
(* the merged table, KudoTableMerger fills it from the Kudo tables, and    *)
(* TableBuilder makes columns of it.                                       *)
(***************************************************************************)
EXTENDS KudoSerializer

CONSTANTS
    BufferAlign,     \* 64 in padFor64byteAlignment
    BufInts          \* 1024, the length of the merger's inputBuf and outputBuf

padFor64byteAlignment(n) == CeilDiv(n, BufferAlign) * BufferAlign
getValidityLengthInBytes(rows) == CeilDiv(rows, ByteBits)

HasValidityBuffer(t, i) == (i - 1) \in t.header.hasValidityBuffer
RootSlice(t) == SliceInfo(t.header.offset, t.header.numRows)

-----------------------------------------------------------------------------
(* Walking one Kudo table. *)

\* Where the buffers of a node begin in table t, and the slice of rows its
\* children have: entry i is the state of the cursors BEFORE node i + 1.
\* A node moves each cursor by the bytes its slice has in that buffer.
NextCursors(t, i, node, c, s, child) ==
    [validity |-> c.validity + (IF HasValidityBuffer(t, i) THEN BufferLength(s) ELSE 0),
     offset |-> c.offset + (IF HasOffsets(node) /\ s.rows > 0 THEN (s.rows + 1) * IntBytes ELSE 0),
     data |-> c.data + (CASE node.kind = "fixed" -> node.size * s.rows
                          [] node.kind = "string" -> child.rows
                          [] OTHER -> 0),
     slices |-> [j \in 0 .. i |-> IF j = i THEN child ELSE c.slices[j]]]

\* The rows of the child of a list, the characters of a string.
ChildOf(t, node, c, s) ==
    LET span(first, last) == SliceInfo(first, last - first)
    IN  IF HasOffsets(node) /\ s.rows > 0
        THEN span(GetInt(t.buffer, c.offset), GetInt(t.buffer, c.offset + s.rows * IntBytes))
        ELSE EmptySlice

Cursors(schema, t) ==
    LET past(i, c, s) == NextCursors(t, i, schema[i], c, s, ChildOf(t, schema[i], c, s))
        at[i \in 0 .. Len(schema)] ==
          IF i = 0
          THEN [validity |-> 0, offset |-> t.header.validityBufferLen,
                data |-> t.header.validityBufferLen + t.header.offsetBufferLen,
                slices |-> [j \in {0} |-> RootSlice(t)]]
          ELSE past(i, at[i - 1], at[i - 1].slices[schema[i].list])
    IN  at

-----------------------------------------------------------------------------
(* MergedInfoCalc: the layout of the merged buffer. *)

SumOver(f(_), n) == LET sum[k \in 0 .. n] == IF k = 0 THEN 0 ELSE sum[k - 1] + f(k) IN sum[n]

RowCount(schema, walks, i) ==
    LET rows(k) == walks[k][i - 1].slices[schema[i].list].rows IN SumOver(rows, Len(walks))
DataLen(schema, walks, i) ==
    LET len(k) == walks[k][i].slices[i].rows IN SumOver(len, Len(walks))

NoBuffer == [at |-> -1, len |-> 0]
Place(at, present, bytes) ==
    IF present THEN [at |-> at, len |-> padFor64byteAlignment(bytes)] ELSE NoBuffer

\* Validity when some table has one for the column; offsets and data when
\* the merged column has rows.
Placed(rows, p, v, o, d) ==
    [validity |-> v, offset |-> o, data |-> d, rows |-> rows, end |-> p + v.len + o.len + d.len]

ColumnOffsets(schema, tables, walks) ==
    LET hasNull(i) == \E k \in DOMAIN tables : HasValidityBuffer(tables[k], i)
        data(i, p, rows, v, o) ==
          Placed(rows, p, v, o,
                 Place(p + v.len + o.len, schema[i].kind \in {"string", "fixed"} /\ rows > 0,
                       IF schema[i].kind = "string" THEN DataLen(schema, walks, i)
                       ELSE rows * schema[i].size))
        offset(i, p, rows, v) ==
          data(i, p, rows, v,
               Place(p + v.len, HasOffsets(schema[i]) /\ rows > 0, (rows + 1) * IntBytes))
        validity(i, p, rows) ==
          offset(i, p, rows, Place(p, hasNull(i), getValidityLengthInBytes(rows)))
        place[i \in 0 .. Len(schema)] ==
          IF i = 0 THEN [end |-> 0]
          ELSE validity(i, place[i - 1].end, RowCount(schema, walks, i))
    IN  place

-----------------------------------------------------------------------------
(* ValidityBufferMerger: m.dest is the merged buffer, m.rows and m.nulls   *)
(* what has been appended to the validity buffer at destOffset so far.     *)

\* A word of src, bytes behind the end of the buffer read as 0.
getIntSafe(src, at) ==
    {b \in AllOnes : (at + (b \div ByteBits)) \in DOMAIN src /\ BitOf(src, at, b)}

DestWord(m, destOffset) == destOffset + (m.rows \div WordBits) * IntBytes
DestBit(m) == m.rows % WordBits
SrcInts(s) == CeilDiv(BufferLength(s), IntBytes)

appendAllValid(m, destOffset, rows) ==
    LET filled(at, words) ==
          LET fill[k \in 0 .. words] ==
                IF k = 0
                THEN SetWord(m.dest, at, GetWord(m.dest, at) \cup (AllOnes \ LowBits(DestBit(m))))
                ELSE SetWord(fill[k - 1], at + k * IntBytes, AllOnes)
          IN  fill[words]
    IN  IF rows <= 0 THEN m
        ELSE [m EXCEPT !.rows = @ + rows,
                       !.dest = filled(DestWord(m, destOffset),
                                       CeilDiv(MaxOf(0, rows - (WordBits - DestBit(m))), WordBits))]

\* The loop of the three copy cases.  It takes chunks of at most BufInts
\* source words while rows are left; out(in, carry) is the word stored for
\* an input word and carry(in) what is kept for the next one.  When the
\* source is used up the carry holds the rows that are left.
CopyLoop(src, srcOffset, s, out(_, _), carry(_), init) ==
    LET put(st, in, w) == [st EXCEPT !.k = @ + 1, !.at = @ + IntBytes,
                                     !.last = carry(in), !.out = w,
                                     !.dest = SetWord(@, st.at, w),
                                     !.nulls = @ + WordBits - Cardinality(w),
                                     !.left = @ - WordBits]
        word(st, in) == put(st, in, out(in, st.last))
        chunk(st, n) == LET run[j \in 0 .. n] ==
                              IF j = 0 THEN st
                              ELSE word(run[j - 1],
                                        getIntSafe(src, srcOffset + (st.k + j - 1) * IntBytes))
                        IN  run[n]
        tail(st) == [st EXCEPT !.dest = SetWord(@, st.at, st.last), !.left = 0,
                               !.nulls = @ + st.left
                                   - Cardinality(st.last \cap LowBits(st.left % WordBits))]
        RECURSIVE loop(_)
        loop(st) == IF st.left <= 0 THEN st
                    ELSE IF SrcInts(s) <= st.k THEN tail(st)
                    ELSE loop(chunk(st, MinOf(BufInts, SrcInts(s) - st.k)))
    IN  loop(init)

\* The last word may hold bits behind the last row, which were counted.
Corrected(st) ==
    [dest |-> st.dest,
     nulls |-> IF st.left < 0
               THEN st.nulls - (-st.left - Cardinality(Ushr(st.out, WordBits + st.left)))
               ELSE st.nulls]

\* The three cases: at is the destination word, db and sb the bits at which
\* destination and source begin, old what the destination word keeps, raw
\* the first source word.  A single source word is a case of its own.

\* The source slice begins at a lower bit than the destination.
copySourceCaseOne(dest, at, db, old, src, srcOffset, s, sb, raw) ==
    LET out(in, last) == Shl(in, db - sb) \cup last
        carry(in) == Ushr(in, WordBits - (db - sb))
        single(dest1) ==
          [dest |-> IF s.rows + db > WordBits
                    THEN SetWord(dest1, at + IntBytes, Ushr(raw, sb + WordBits - db))
                    ELSE dest1,
           nulls |-> s.rows - Cardinality(Shl(Ushr(raw, sb), WordBits - s.rows))]
        several(dest1, input) ==
          Corrected(CopyLoop(src, srcOffset, s, out, carry,
            [dest |-> dest1, at |-> at + IntBytes, k |-> 1, left |-> s.rows - (WordBits - db),
             nulls |-> WordBits - db - Cardinality(input \ LowBits(db)),
             last |-> carry(raw), out |-> {}]))
        begun(input) == IF SrcInts(s) = 1 THEN single(SetWord(dest, at, old \cup input))
                        ELSE several(SetWord(dest, at, old \cup input), input)
    IN  begun(Shl(Ushr(raw, sb), db))

\* The source slice begins at a higher bit than the destination.
copySourceCaseTwo(dest, at, db, old, src, srcOffset, s, sb, raw) ==
    LET out(in, last) == Shl(in, WordBits - (sb - db)) \cup last
        carry(in) == Ushr(in, sb - db)
        begun(first) ==
          IF SrcInts(s) = 1
          THEN [dest |-> SetWord(dest, at, first),
                nulls |-> s.rows - Cardinality(Shl(raw \ LowBits(sb), WordBits - sb - s.rows))]
          ELSE Corrected(CopyLoop(src, srcOffset, s, out, carry,
                 [dest |-> dest, at |-> at, k |-> 1, left |-> s.rows + db,
                  nulls |-> -(db - Cardinality(old)), last |-> first, out |-> {}]))
    IN  begun(old \cup Shl(Ushr(raw, sb), db))

\* Both begin at the same bit.
copySourceCaseThree(dest, at, db, old, src, srcOffset, s, sb, raw) ==
    LET out(in, last) == in
        carry(in) == {}
        begun(first, dest1) ==
          IF SrcInts(s) = 1
          THEN [dest |-> dest1, nulls |-> s.rows - Cardinality(Shl(first, WordBits - sb - s.rows))]
          ELSE Corrected(CopyLoop(src, srcOffset, s, out, carry,
                 [dest |-> dest1, at |-> at + IntBytes, k |-> 1, left |-> s.rows - (WordBits - sb),
                  nulls |-> WordBits - sb - Cardinality(first), last |-> {}, out |-> {}]))
    IN  begun(raw \ LowBits(db), SetWord(dest, at, (raw \ LowBits(db)) \cup old))

copyValidityBuffer(m, destOffset, src, srcOffset, s) ==
    LET copied(at, db, old, raw, sb) ==
          CASE sb < db -> copySourceCaseOne(m.dest, at, db, old, src, srcOffset, s, sb, raw)
            [] sb > db -> copySourceCaseTwo(m.dest, at, db, old, src, srcOffset, s, sb, raw)
            [] sb = db -> copySourceCaseThree(m.dest, at, db, old, src, srcOffset, s, sb, raw)
        appended(c) == [dest |-> c.dest, rows |-> m.rows + s.rows, nulls |-> m.nulls + c.nulls]
    IN  IF s.rows <= 0 THEN m
        ELSE appended(copied(DestWord(m, destOffset), DestBit(m),
                             GetWord(m.dest, DestWord(m, destOffset)) \cap LowBits(DestBit(m)),
                             getIntSafe(src, srcOffset), BeginBit(s)))

-----------------------------------------------------------------------------
(* KudoTableMerger: one step per node over all tables. *)

deserializeValidityBuffer(dest, place, schema, tables, walks, i) ==
    LET appended(m, k, c, s) ==
          IF HasValidityBuffer(tables[k], i)
          THEN copyValidityBuffer(m, place.at, tables[k].buffer, c.validity, s)
          ELSE appendAllValid(m, place.at, s.rows)
        m[k \in 0 .. Len(tables)] ==
          IF k = 0 THEN [dest |-> dest, rows |-> 0, nulls |-> 0]
          ELSE appended(m[k - 1], k, walks[k][i - 1], walks[k][i - 1].slices[schema[i].list])
    IN  IF place = NoBuffer THEN [dest |-> dest, nulls |-> 0] ELSE m[Len(tables)]

\* The offsets of each table moved behind those before, then the end.
deserializeOffsetBuffer(dest, place, schema, tables, walks, i) ==
    LET moved(m, k, c, rows, child) ==
          [dest |-> Store(m.dest, m.at, FlattenSeq([r \in 1 .. rows |->
                      LittleEndian(GetInt(tables[k].buffer, c.offset + (r - 1) * IntBytes)
                                     - child.offset + m.len)])),
           at |-> m.at + rows * IntBytes, len |-> m.len + child.rows]
        appended(m, k, c, rows) ==
          IF rows <= 0 THEN m ELSE moved(m, k, c, rows, walks[k][i].slices[i])
        m[k \in 0 .. Len(tables)] ==
          IF k = 0 THEN [dest |-> dest, at |-> place.at, len |-> 0]
          ELSE appended(m[k - 1], k, walks[k][i - 1], walks[k][i - 1].slices[schema[i].list].rows)
        ended(end) == Store(end.dest, end.at, LittleEndian(end.len))
    IN  IF place = NoBuffer THEN dest ELSE ended(m[Len(tables)])

deserializeDataBuffer(dest, place, schema, tables, walks, i) ==
    LET bytes(k, c) == Copied(tables[k].buffer, c.data,
                              IF schema[i].kind = "string" THEN walks[k][i].slices[i].rows
                              ELSE schema[i].size * c.slices[schema[i].list].rows)
    IN  IF place = NoBuffer \/ place.len = 0 THEN dest
        ELSE Store(dest, place.at, FlattenSeq([k \in DOMAIN tables |-> bytes(k, walks[k][i - 1])]))

\* The merged buffer, allocated with unknown contents (fill).
MergeInto(schema, tables, fill, walks, place) ==
    LET moved(m, i, v) ==
          [dest |-> deserializeDataBuffer(
                      deserializeOffsetBuffer(v.dest, place[i].offset, schema, tables, walks, i),
                      place[i].data, schema, tables, walks, i),
           nulls |-> Append(m.nulls, v.nulls)]
        m[i \in 0 .. Len(schema)] ==
          IF i = 0
          THEN [dest |-> [b \in 0 .. place[Len(schema)].end - 1 |-> fill], nulls |-> << >>]
          ELSE moved(m[i - 1], i, deserializeValidityBuffer(m[i - 1].dest, place[i].validity,
                                                            schema, tables, walks, i))
    IN  m[Len(schema)]

MergeWalked(schema, tables, fill, walks) ==
    LET merged(m, place) == [buffer |-> m.dest, nulls |-> m.nulls, length |-> place[Len(schema)].end,
                             place |-> [i \in Nodes(schema) |-> place[i]]]
        placed(place) == merged(MergeInto(schema, tables, fill, walks, place), place)
    IN  placed(ColumnOffsets(schema, tables, walks))

Merge(schema, tables, fill) ==
    MergeWalked(schema, tables, fill, [k \in DOMAIN tables |-> Cursors(schema, tables[k])])

\* ColumnViewInfo.buildColumnView: the columns the merged buffer stands for.
BuildColumns(schema, merged) ==
    [i \in Nodes(schema) |->
        LET p == merged.place[i]
        IN  [rows |-> p.rows, nullable |-> p.validity # NoBuffer,
             valid |-> IF p.validity = NoBuffer THEN {}
                       ELSE {r \in 0 .. p.rows - 1 : BitOf(merged.buffer, p.validity.at, r)},
             offs |-> IF p.offset = NoBuffer THEN << >>
                      ELSE [r \in 1 .. p.rows + 1 |->
                              GetInt(merged.buffer, p.offset.at + (r - 1) * IntBytes)],
             data |-> IF p.data = NoBuffer THEN << >>
                      ELSE Copied(merged.buffer, p.data.at, p.data.len)]]
=============================================================================
