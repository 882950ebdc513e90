---------------------------- MODULE KudoShuffle ----------------------------
(***************************************************************************)
(* One shuffle partition: map tasks append Kudo tables to its stream, on   *)
(* the host (KudoSerializer.writeToStream) or from the GPU (the partitions *)
(* shuffle_split made, KudoGpuSerializer), and a reduce task reads them    *)
(* back (KudoTable.from) and merges them, on the host (mergeOnHost) or on  *)
(* the GPU (shuffle_assemble).  The stream may be cut short.               *)
(***************************************************************************)
EXTENDS ShuffleAssemble

Split == INSTANCE ShuffleSplit

CONSTANTS
    Inputs,       \* records [schema, tables, slices, splits, offsets, maxTables, mayBreak]
    Fills,        \* what memory that nobody wrote may hold
    Orders        \* in which order the copy batches of the GPU take effect

VARIABLES
    input,        \* the schema and the tables of this shuffle
    stream,       \* the bytes not yet read
    written,      \* the slices written, in order: [cols, offset, rows, end], where
                  \* end is the length of the stream once it was written
    tables,       \* the Kudo tables read back
    merged,       \* the merged table, or NotMerged
    reading,      \* how it stands: "open", "end" or "failed"
    broken        \* the stream lost its tail

vars == <<input, stream, written, tables, merged, reading, broken>>

NotMerged == [done |-> FALSE]

Init ==
    /\ input \in Inputs
    /\ stream = << >> /\ written = << >> /\ tables = << >>
    /\ merged = NotMerged /\ reading = "open" /\ broken = FALSE

Appended(bytes, slices) ==
    /\ stream' = stream \o bytes
    /\ written' = written \o slices
    /\ UNCHANGED <<input, tables, merged, reading, broken>>

MayWrite == reading = "open" /\ merged = NotMerged /\ tables = << >> /\ ~broken

\* A map task on the host writes rows offset .. offset+rows-1 of a table.
WriteToStream(cols, offset, rows) ==
    /\ MayWrite
    /\ Len(written) < input.maxTables
    /\ rows > 0
    /\ \E bytes \in {writeSliced(input.schema, cols, offset, rows)} :
          /\ bytes # WriteFailed
          /\ Appended(bytes, <<[cols |-> cols, offset |-> offset, rows |-> rows,
                                end |-> Len(stream) + Len(bytes)]>>)

\* A row count record, of a table without columns.
WriteRowCount(rows) ==
    /\ MayWrite
    /\ Len(written) < input.maxTables
    /\ input.schema = << >>
    /\ Appended(writeRowCount(rows), <<[cols |-> << >>, offset |-> 0, rows |-> rows,
                                         end |-> Len(stream) + Len(writeRowCount(rows))]>>)

\* A map task splits a table on the GPU and all partitions go to this reader.
WriteFromGpu(cols, colOffset, splits, fill) ==
    /\ MayWrite
    /\ Len(written) + Len(splits) < input.maxTables
    /\ \A k \in DOMAIN splits : splits[k] <= cols[1].rows - colOffset
    /\ \E parts \in {Split!shuffle_split(input.schema, cols, colOffset, splits, fill)} :
          LET index == <<0>> \o splits \o <<cols[1].rows - colOffset>>
              upTo(p) == Len(FlattenSeq(SubSeq(parts, 1, p)))
          IN  Appended(FlattenSeq(parts),
                       [p \in DOMAIN parts |-> [cols |-> cols, offset |-> colOffset + index[p],
                                                rows |-> index[p + 1] - index[p],
                                                end |-> Len(stream) + upTo(p)]])

\* The stream is cut: its tail never reaches the reader.
Break(kept) ==
    /\ input.mayBreak /\ ~broken
    /\ tables = << >> /\ reading = "open"
    /\ stream' = SubSeq(stream, 1, kept)
    /\ broken' = TRUE
    /\ UNCHANGED <<input, written, tables, merged, reading>>

\* The reduce task reads the next table.
Read ==
    /\ reading = "open" /\ merged = NotMerged
    /\ written # << >>
    /\ \E t \in {KudoTableFrom(stream)} :
          IF t.outcome = "table"
          THEN /\ tables' = Append(tables, t)
               /\ stream' = SubSeq(stream, t.taken + 1, Len(stream))
               /\ UNCHANGED reading
          ELSE /\ reading' = t.outcome
               /\ UNCHANGED <<tables, stream>>
    /\ UNCHANGED <<input, written, merged, broken>>

MayMerge == reading = "end" /\ merged = NotMerged /\ tables # << >> /\ input.schema # << >>

\* TableBuilder makes columns of the merged buffer, as the GPU does.
Merged(result, cols) ==
    /\ merged' = [done |-> TRUE, columns |-> cols, nulls |-> result.nulls,
                  inBounds |-> DOMAIN result.buffer = 0 .. result.length - 1]
    /\ UNCHANGED <<input, stream, written, tables, reading, broken>>

MergeOnHost(fill) ==
    /\ MayMerge
    /\ \E result \in {Merge(input.schema, tables, fill)} :
          Merged(result, BuildColumns(input.schema, result))

AssembleOnGpu(fill, order) ==
    /\ MayMerge
    /\ IF \E k \in DOMAIN tables : tables[k].header.numRows > 0
       THEN \E result \in {shuffle_assemble(input.schema, tables, fill, order)} :
               Merged(result, BuildColumns(input.schema, result))
       ELSE Merged([nulls |-> [i \in Nodes(input.schema) |-> 0], buffer |-> << >>, length |-> 0],
                   shuffle_assemble_empty(input.schema))

Next ==
    \/ \E cols \in input.tables, s \in input.slices : WriteToStream(cols, s[1], s[2])
    \/ \E rows \in 1 .. 2 : WriteRowCount(rows)
    \/ \E cols \in input.tables, o \in input.offsets, splits \in input.splits, fill \in Fills :
          WriteFromGpu(cols, o, splits, fill)
    \/ \E kept \in 0 .. Len(stream) - 1 : Break(kept)
    \/ Read
    \/ \E fill \in Fills : MergeOnHost(fill)
    \/ \E fill \in Fills, order \in Orders : AssembleOnGpu(fill, order)

Spec == Init /\ [][Next]_vars

-----------------------------------------------------------------------------
(* Properties. *)

WrittenRows(n) ==
    FlattenSeq([k \in 1 .. n |->
        SliceRows(input.schema, written[k].cols, written[k].offset, written[k].rows)])

\* Whoever wrote the tables and whoever merges them, on the host or on the
\* GPU, the merged table has exactly the rows that were written, in order,
\* with the right null counts, whatever the memory held before and in
\* whatever order the GPU's copy batches took effect; and no merge writes
\* outside the buffer it allocated.
MergedIsConcatenation ==
    merged.done =>
        /\ merged.inBounds
        /\ LET top == SliceRows(input.schema, merged.columns, 0, merged.columns[1].rows)
           IN  top = WrittenRows(Len(tables))
        /\ \A i \in Nodes(input.schema) : merged.nulls[i] = NullCount(merged.columns[i])

\* The reader takes the stream apart where the writers put it together:
\* when it stops it has every table whose last byte arrived and no other,
\* with its row count, and it stops with an error only if bytes were lost.
ReadsExactlyWhatArrived ==
    LET arrived == Len(stream) + SumOver(LAMBDA k : tables[k].taken, Len(tables))
    IN  /\ reading # "open" =>
              Len(tables) = Cardinality({k \in DOMAIN written : written[k].end <= arrived})
        /\ reading = "failed" => broken
        /\ \A k \in DOMAIN tables : tables[k].header.numRows = written[k].rows
=============================================================================
