---------------------------- MODULE RowExchange ----------------------------
(***************************************************************************)
(* A table goes to rows and comes back: convert_to_rows or                 *)
(* convert_to_rows_fixed_width_optimized, then convert_from_rows or        *)
(* convert_from_rows_fixed_width_optimized on every batch.  The batches    *)
(* are found one at a time, and the blocks of a kernel run in any order.   *)
(***************************************************************************)
EXTENDS RowConversion

VARIABLES
    table,        \* the table to convert
    phase,        \* "batches", "data", "validity", "strings", "rows", "columns"; "failed"
                  \* when a reader rejects the rows, "too wide" when they exceed
                  \* the shared memory of the fixed width kernels, "too large"
                  \* when a batch cannot be allocated
    boundaries,   \* batch_row_boundaries
    pending,      \* the tiles whose block has not run
    buffers,      \* the bytes of each batch
    result,       \* the columns read back of each batch
    tiled         \* history: what the tiled kernels did, "wrote" and "read"

exchangeVars == <<table, phase, boundaries, pending, buffers, result, tiled>>

Info == compute_column_information(table.types)
Batches == 1 .. Len(boundaries) - 1
BatchBytes(b) == row_offset(table, boundaries[b], boundaries[b + 1])
Uninitialised(bytes) == [a \in 0 .. bytes - 1 |-> Garbage]

RowsInit ==
    /\ table \in Tables
    /\ phase = "batches" /\ boundaries = <<0>> /\ pending = {}
    /\ buffers = << >> /\ result = << >> /\ tiled = {}

\* One round of the loop of build_batches.
build_batches ==
    /\ phase = "batches"
    /\ boundaries[Len(boundaries)] < table.rows
    /\ boundaries' = Append(boundaries, row_end(table, boundaries[Len(boundaries)]))
    /\ UNCHANGED <<table, phase, pending, buffers, result, tiled>>

\* The buffers are allocated, not cleared, and the data tiles launched.  A batch of more than
\* MaxBatch bytes has a negative num_bytes, and its allocation throws.
launch_copy_to_rows ==
    /\ phase = "batches"
    /\ boundaries[Len(boundaries)] = table.rows
    /\ IF \E b \in Batches : BatchBytes(b) > MaxBatch
       THEN phase' = "too large" /\ UNCHANGED <<buffers, pending, tiled>>
       ELSE /\ buffers' = [b \in Batches |-> Uninitialised(BatchBytes(b))]
            /\ pending' = DataTiles(Info, table.rows, boundaries)
            /\ phase' = "data"
            /\ tiled' = {"wrote"}
    /\ UNCHANGED <<table, boundaries, result>>

DataBlock(tile) ==
    /\ phase = "data"
    /\ buffers' = [buffers EXCEPT ![tile.batch] =
                     Overlay(@, copy_to_rows(table, Info, boundaries, tile))]
    /\ pending' = pending \ {tile}
    /\ UNCHANGED <<table, phase, boundaries, result, tiled>>

launch_copy_validity_to_rows ==
    /\ phase = "data" /\ pending = {}
    /\ pending' = build_validity_tile_infos(Len(table.types), table.rows, boundaries)
    /\ phase' = "validity"
    /\ UNCHANGED <<table, boundaries, buffers, result, tiled>>

ValidityBlock(tile) ==
    /\ phase = "validity"
    /\ buffers' = [buffers EXCEPT ![tile.batch] =
                     Overlay(@, copy_validity_to_rows(table, Info, boundaries, tile))]
    /\ pending' = pending \ {tile}
    /\ UNCHANGED <<table, phase, boundaries, result, tiled>>

\* The strings of every batch, when there are any.
launch_copy_strings_to_rows ==
    /\ phase = "validity" /\ pending = {}
    /\ buffers' = IF all_fixed_width(table.types) THEN buffers
                  ELSE [b \in Batches |->
                          Overlay(buffers[b], copy_strings_to_rows(table, Info, boundaries, b))]
    /\ phase' = "rows"
    /\ UNCHANGED <<table, boundaries, pending, result, tiled>>

\* One batch of the fixed width converter: allocated, then filled.
fixed_width_convert_to_rows(first, rows) ==
    Overlay(Uninitialised(compute_fixed_width_layout(table.types).size_per_row * rows),
            copy_to_rows_fixed_width_optimized(table, first, rows))

\* The converter for fixed width tables, with batches of equal row counts.
convert_to_rows_fixed_width_optimized ==
    /\ phase = "batches" /\ boundaries = <<0>>
    /\ all_fixed_width(table.types)
    /\ LET most == max_rows_per_batch(table.types)
           first(b) == (b - 1) * most
           count == CeilDiv(table.rows, most)
       IN  IF calc_fixed_width_kernel_dims(table.types) = 0
           THEN phase' = "too wide" /\ UNCHANGED <<boundaries, buffers>>
           ELSE /\ boundaries' = [b \in 1 .. count + 1 |-> Min({first(b), table.rows})]
                /\ buffers' = [b \in 1 .. count |->
                                 fixed_width_convert_to_rows(first(b), Min({most, table.rows - first(b)}))]
                /\ phase' = "rows"
    /\ UNCHANGED <<table, pending, result, tiled>>

\* Reading all batches back, with either reader.
convert_from_rows ==
    /\ phase = "rows"
    /\ IF \E b \in Batches : ~layout_fits(table, boundaries[b + 1] - boundaries[b],
                                          Cardinality(DOMAIN buffers[b]))
       THEN phase' = "failed" /\ UNCHANGED <<result, tiled>>
       ELSE /\ tiled' = tiled \cup {"read"}
            /\ result' = [b \in Batches |->
                LET cells == copy_from_rows(table, boundaries, b, buffers[b])
                IN  [cells |-> copy_strings_from_rows(table, boundaries, b, buffers[b], cells),
                     nulls |-> copy_validity_from_rows(table, boundaries, b, buffers[b])]]
            /\ phase' = "columns"
    /\ UNCHANGED <<table, boundaries, pending, buffers>>

convert_from_rows_fixed_width_optimized ==
    /\ phase = "rows" /\ all_fixed_width(table.types)
    /\ LET size == compute_fixed_width_layout(table.types).size_per_row
           rows(b) == boundaries[b + 1] - boundaries[b]
       IN  IF \E b \in Batches : size * rows(b) # Cardinality(DOMAIN buffers[b])
           THEN phase' = "failed" /\ UNCHANGED result
           ELSE IF calc_fixed_width_kernel_dims(table.types) = 0
           THEN phase' = "too wide" /\ UNCHANGED result
           ELSE /\ result' = [b \in Batches |->
                      copy_from_rows_fixed_width_optimized(table, rows(b), buffers[b])]
                /\ phase' = "columns"
    /\ UNCHANGED <<table, boundaries, pending, buffers, tiled>>

RowsNext ==
    \/ build_batches
    \/ launch_copy_to_rows
    \/ \E tile \in pending : DataBlock(tile)
    \/ launch_copy_validity_to_rows
    \/ \E tile \in pending : ValidityBlock(tile)
    \/ launch_copy_strings_to_rows
    \/ convert_to_rows_fixed_width_optimized
    \/ convert_from_rows
    \/ convert_from_rows_fixed_width_optimized


-----------------------------------------------------------------------------
(* What the tiles lose.  A column that does not fit opens a tile of its own   *)
(* that is measured by where the column ends, not by where it begins.        *)

WrittenRanges == determine_tiles(Info, table.rows, boundaries[2])

\* The bytes of a row behind a tile that its padded copy takes along.  Another tile's block writes
\* them too, before or after.
Overrun ==
    LET from(range) == Info.starts[range[1]]
        end(range)  == Info.starts[range[2]] + Info.sizes[range[2]]
        to(range)   == from(range) + roundUp(end(range) - from(range), RowAlign)
        ranges      == WrittenRanges
    IN  UNION {end(ranges[k]) .. to(ranges[k]) - 1 : k \in DOMAIN ranges}

\* A last column that opens a tile is in none.
HasTile(column, ranges) == \E k \in DOMAIN ranges : column \in ranges[k][1] .. ranges[k][2]

\* The columns a string is read back as, or a cell.
ReadColumns(c) ==
    LET first == c + Cardinality({d \in 1 .. c - 1 : is_compound(table.types[d])})
    IN  IF is_compound(table.types[c]) THEN {first, first + 1} ELSE {first}

\* Whether the cells of a column are lost in rows of batch b on the way to rows, or back.
LostWriting(c) ==
    /\ "wrote" \in tiled /\ ~is_compound(table.types[c])
    /\ \/ ~HasTile(c, WrittenRanges)
       \/ (Info.starts[c] .. Info.starts[c] + Info.sizes[c] - 1) \cap Overrun # {}
LostReading(c, b) ==
    LET info == compute_column_information(string_schema(table.types))
        rows == boundaries[b + 1] - boundaries[b]
    IN  "read" \in tiled /\ \E column \in ReadColumns(c) : ~HasTile(column, determine_tiles(info, rows, rows))

-----------------------------------------------------------------------------
(* Properties. *)

ReadBack(b, c, r) == result[b].cells[c][r - boundaries[b]]
BatchOf(r) == CHOOSE b \in Batches : r \in boundaries[b] .. boundaries[b + 1] - 1

CameBack(c, r) ==
    LET t == table.types[c]
        want == IF is_compound(t) THEN [k \in 1 .. table.lens[c][r] |-> CharByte(c, r, k - 1)]
                ELSE [k \in 1 .. t.size |-> CellByte(c, r, k - 1)]
    IN  ReadBack(BatchOf(r), c, r) = want

\* Whichever converter wrote the rows, in whichever order the blocks of the
\* tiled kernels ran, and whichever reader reads them, every cell, string and
\* null of the table comes back, and no store or check went out of bounds.
\* Excepted are the cells that the tiles lose.
RowsRoundTrip ==
    /\ phase # "failed"
    /\ phase = "columns" =>
        /\ \A b \in Batches : DOMAIN buffers[b] = 0 .. BatchBytes(b) - 1
        /\ \A c \in DOMAIN table.types, r \in 0 .. table.rows - 1 :
             LostWriting(c) \/ LostReading(c, BatchOf(r)) \/ CameBack(c, r)
        /\ \A c \in DOMAIN table.types :
             UNION {{boundaries[b] + r : r \in result[b].nulls[c]} : b \in Batches} = table.nulls[c]

\* Batches follow each other without gap, begin where a word of validity
\* begins, and stay below the size a column of bytes can have but for their
\* first row, which build_batches does not measure.
BatchesFit ==
    \A b \in Batches : /\ boundaries[b] < boundaries[b + 1]
                       /\ boundaries[b] % Warp = 0
                       /\ BatchBytes(b) < MaxBatch + row_size(table, boundaries[b])

\* Two blocks of a kernel never write different values to one byte, but for the bytes behind a tile
\* that its copy takes along: what a block stored for a cell is what the next kernel finds.
CellsAreStable ==
    [][phase = "data" =>
        \A b \in DOMAIN buffers : \A r \in boundaries[b] .. boundaries[b + 1] - 1 :
          LET from == row_offset(table, boundaries[b], r)
              cells == 0 .. row_size(table, r) - 1
          IN  \A k \in cells \ Overrun :
                buffers[b][from + k] # Garbage => buffers'[b][from + k] = buffers[b][from + k]]_exchangeVars

-----------------------------------------------------------------------------
(* What comments of row_conversion.cu say and the code does not do *)

\* build_batches: "Care must be taken to avoid a batch larger than 2 gigs."  The first row of a batch is
\* not measured; with rows of a size that divides 2^31 the rounding to words of rows takes none away.
BatchesStayBelowTheLimit == \A b \in Batches : BatchBytes(b) <= MaxBatch

\* determine_tiles: "alignment required for shared memory tile boundary to match alignment of output
\* row."  A third tile may begin where no output word does, and the copy of the second, padded to one,
\* overwrites its first cells.
EveryCellComesBack ==
    phase = "columns" => \A c \in DOMAIN table.types, r \in 0 .. table.rows - 1 : CameBack(c, r)

\* determine_tiles: "Determines what data should be operated on by each tile for the incoming table."
\* A last column that does not fit opens a tile of width 0, which is not built.
EveryColumnHasATile == phase = "data" => \A c \in DOMAIN table.types : HasTile(c, WrittenRanges)
=============================================================================
