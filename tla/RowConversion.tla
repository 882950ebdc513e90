--------------------------- MODULE RowConversion ---------------------------
(***************************************************************************)
(* Columns to JCUDF rows and back: row_conversion.cu.  A table becomes one *)
(* or more byte buffers (row batches, each below MaxBatch bytes) in which  *)
(* every row holds its fixed width cells, offset and length of its         *)
(* strings, a validity bit per column and the characters.                  *)
(*                                                                         *)
(* The tiled kernels cut the table into tiles; every tile is one CUDA      *)
(* block and the blocks run in any order, so each is an action of its own. *)
(* Kernels of one stream follow each other.  Bytes are tokens that say     *)
(* whose byte they are; memory nobody wrote holds Garbage.                 *)
(***************************************************************************)
EXTENDS Integers, Sequences, FiniteSets, SequencesExt, FiniteSetsExt

CONSTANTS
    RowAlign,      \* JCUDF_ROW_ALIGNMENT, 8
    CharBits,      \* CHAR_BIT
    Warp,          \* warp_size and bits of a bitmask word, 32
    RowBlock,      \* rows of a validity tile are a multiple of this, 64
    MaxBatch,      \* MAX_BATCH_SIZE
    Shmem,         \* shared memory of a block
    SquareBias,    \* square_bias, 32
    MaxThreads,    \* threads of a block of the fixed width kernels, 1024
    IntSize,       \* sizeof(uint32_t)
    DirectSizes,   \* cell sizes with a copy of their own, {1, 2, 4, 8}
    Tables         \* the tables to convert

ASSUME RowConstants ==
    /\ {RowAlign, CharBits, Warp, RowBlock, MaxBatch, Shmem, SquareBias, MaxThreads, IntSize} \subseteq Nat \ {0}
    /\ RowBlock % Warp = 0

CeilDiv(a, b) == (a + b - 1) \div b
roundUp(n, m) == CeilDiv(n, m) * m
roundDown(n, m) == (n \div m) * m
isqrt(n) == Max({k \in 0 .. n : k * k <= n})
SumTo(f(_), n) == LET sum[k \in 0 .. n] == IF k = 0 THEN 0 ELSE sum[k - 1] + f(k) IN sum[n]

-----------------------------------------------------------------------------
(* Bytes. *)

Garbage == [of |-> "garbage"]
CellByte(c, r, b) == [of |-> "cell", col |-> c, row |-> r, byte |-> b]
CharByte(c, r, b) == [of |-> "char", col |-> c, row |-> r, byte |-> b]
IntByte(v, b)     == [of |-> "int", value |-> v, byte |-> b]
ValidByte(cols)   == [of |-> "valid", cols |-> cols]

\* A store outside a buffer enlarges it, so that it can be seen.
Overlay(mem, writes) == [a \in DOMAIN mem \cup DOMAIN writes |->
                            IF a \in DOMAIN writes THEN writes[a] ELSE mem[a]]

-----------------------------------------------------------------------------
(* Layout.  A type is [string, size]; a table is [types, rows, lens,       *)
(* nulls]: lens[c][r] is the length of string r of column c, nulls[c] the  *)
(* null rows of the column.  Columns count from 1, rows from 0.            *)

is_compound(t) == t.string
all_fixed_width(types) == \A c \in DOMAIN types : ~is_compound(types[c])
size_of(t) == IF is_compound(t) THEN 2 * IntSize ELSE t.size
alignment_needed(t) == IF is_compound(t) THEN IntSize ELSE t.size

\* starts has one more entry, the offset of the validity bytes.
compute_column_information(types) ==
    LET n == Len(types)
        end[c \in 0 .. n] == IF c = 0 THEN 0
                             ELSE roundUp(end[c - 1], alignment_needed(types[c])) + size_of(types[c])
    IN  [starts |-> [c \in 1 .. n + 1 |-> IF c = n + 1 THEN end[n] ELSE end[c] - size_of(types[c])],
         sizes |-> [c \in 1 .. n |-> size_of(types[c])],
         size_per_row |-> end[n] + CeilDiv(n, CharBits)]

\* The layout of the fixed width converter, rows padded.
compute_fixed_width_layout(types) ==
    LET info == compute_column_information(types)
    IN  [info EXCEPT !.size_per_row = roundUp(@, RowAlign)]

\* A string is read back as two integers.
string_schema(types) ==
    LET int == [string |-> FALSE, size |-> IntSize]
    IN  FlattenSeq([c \in DOMAIN types |->
                      IF is_compound(types[c]) THEN <<int, int>> ELSE <<types[c]>>])

\* Bytes of a row, with the characters of its strings.
row_size(t, r) ==
    LET chars(c) == IF is_compound(t.types[c]) THEN t.lens[c][r] ELSE 0
    IN  roundUp(compute_column_information(t.types).size_per_row
                  + SumTo(chars, Len(t.types)), RowAlign)

\* Where row r of batch b begins in the buffer of its batch.
row_offset(t, from, r) ==
    LET size(k) == row_size(t, from + k - 1) IN SumTo(size, r - from)

-----------------------------------------------------------------------------
(* Row batches. *)

\* Not the code: batches cut at any row.
row_end_unaligned(t, last) ==
    LET size(k) == row_size(t, last + k)
    IN  last + Cardinality({i \in last .. t.rows - 1 : SumTo(size, i - last) < MaxBatch})

\* The next boundary after row last.  The search measures a batch without
\* its first row; a batch that is not the last is cut at a full word of rows.
row_end(t, last) ==
    LET size(k) == row_size(t, last + k)
        measured(i) == SumTo(size, i - last)
        batch_size == Cardinality({i \in last .. t.rows - 1 : measured(i) < MaxBatch})
    IN  IF last + batch_size = t.rows THEN t.rows
        ELSE last + roundDown(batch_size, Warp)

\* The batches of the fixed width converter all have this many rows.
max_rows_per_batch(types) ==
    roundDown(MaxBatch \div compute_fixed_width_layout(types).size_per_row, Warp)

\* Rows a block of the fixed width kernels holds; none is an error.
calc_fixed_width_kernel_dims(types) ==
    LET y_block_size == Min({CeilDiv(Len(types), 4), Warp})
    IN  roundDown(Min({MaxThreads \div y_block_size,
                       Shmem \div compute_fixed_width_layout(types).size_per_row}), Warp)

-----------------------------------------------------------------------------
(* Tiles: [batch, startCol, endCol, startRow, endRow], ends included. *)

tile_height(rows, firstBatch) ==
    LET desired == roundUp(Min({isqrt(Shmem) \div SquareBias, rows}), Warp)
    IN  Max({1, Min({desired, firstBatch})})

\* The column ranges.  A column that does not fit closes the tile before it
\* and starts a new one, which counts as empty until another column joins.
determine_tiles(info, rows, firstBatch) ==
    LET n == Len(info.sizes)
        height == tile_height(rows, firstBatch)
        run[c \in 0 .. n] ==
          IF c = 0 THEN [start |-> 1, width |-> 0, size |-> 0, tiles |-> << >>]
          ELSE LET st == run[c - 1]  col == info.sizes[c]
                   with == roundUp(st.size, col) + col
               IN  IF roundUp(with, RowAlign) * height > Shmem
                   THEN [start |-> c, width |-> 0,
                         size |-> roundUp((info.starts[c] + col) % RowAlign, col) + col,
                         tiles |-> Append(st.tiles, <<st.start, IF c = 1 THEN 1 ELSE c - 1>>)]
                   ELSE [st EXCEPT !.size = with, !.width = @ + 1]
    IN  IF run[n].width > 0 THEN Append(run[n].tiles, <<run[n].start, n>>) ELSE run[n].tiles

\* The tiles of one column range, batch by batch.
build_tiles(range, boundaries, height) ==
    UNION {LET from == boundaries[b]  last == boundaries[b + 1] - 1
           IN  {[batch |-> b, startCol |-> range[1], endCol |-> range[2],
                 startRow |-> from + k * height,
                 endRow |-> Min({from + (k + 1) * height - 1, last})] :
                   k \in 0 .. CeilDiv(last + 1 - from, height) - 1} :
             b \in 1 .. Len(boundaries) - 1}

DataTiles(info, rows, boundaries) ==
    LET first == boundaries[2]  ranges == determine_tiles(info, rows, first)
    IN  UNION {build_tiles(ranges[k], boundaries, tile_height(rows, first)) : k \in DOMAIN ranges}

build_validity_tile_infos(columns, rows, boundaries) ==
    LET desired == isqrt(Shmem)
        stride == roundUp(IF desired > columns THEN columns ELSE roundDown(desired, CharBits),
                          RowAlign)
        bytes_per_row == roundUp(CeilDiv(stride, CharBits), RowAlign)
        row_stride == Min({rows, roundDown(Shmem \div bytes_per_row, RowBlock)})
    IN  UNION {build_tiles(<<k * stride + 1, Min({(k + 1) * stride, columns})>>,
                           boundaries, row_stride) : k \in 0 .. CeilDiv(columns, stride) - 1}

\* Not the code: measured from the beginning of the row.
whole_row_size(tile, info) ==
    roundUp(info.starts[tile.endCol] + info.sizes[tile.endCol], RowAlign)

\* Bytes of a tile's row in shared memory, and in the copy out of it.
get_shared_row_size(tile, info) ==
    roundUp(info.starts[tile.endCol] + info.sizes[tile.endCol] - info.starts[tile.startCol], RowAlign)

-----------------------------------------------------------------------------
(* The kernels, as the stores they make. *)

\* What the tile holds in shared memory for byte k of row r.  A cell of a
\* size that has no case of its own gets its first byte only.
SharedByte(t, info, tile, r, k) ==
    LET at == info.starts[tile.startCol] + k
        here == {c \in tile.startCol .. tile.endCol :
                   ~is_compound(t.types[c])
                     /\ at \in info.starts[c] .. info.starts[c] + info.sizes[c] - 1}
        c == CHOOSE c \in here : TRUE
        b == at - info.starts[c]
    IN  IF here = {} THEN Garbage
        ELSE IF info.sizes[c] \in DirectSizes \/ b = 0 THEN CellByte(c, r, b) ELSE Garbage

\* copy_to_rows: whole padded rows of the tile are copied out.
copy_to_rows(t, info, boundaries, tile) ==
    LET width == get_shared_row_size(tile, info)
        row(r) == row_offset(t, boundaries[tile.batch], r) + info.starts[tile.startCol]
        rowOf(a) == CHOOSE r \in tile.startRow .. tile.endRow : a \in row(r) .. row(r) + width - 1
    IN  [a \in UNION {row(r) .. row(r) + width - 1 : r \in tile.startRow .. tile.endRow} |->
            SharedByte(t, info, tile, rowOf(a), a - row(rowOf(a)))]

\* copy_validity_to_rows: words of column bits are turned into bytes of row
\* bits; bit i of the word that holds the section's first row is row i.
copy_validity_to_rows(t, info, boundaries, tile) ==
    LET n == Len(t.types)
        base(r) == row_offset(t, boundaries[tile.batch], r) + info.starts[n + 1]
                     + (tile.startCol - 1) \div CharBits
        row_bytes == CeilDiv(tile.endCol - tile.startCol + 1, CharBits)
        bit(r) == LET rel == r - tile.startRow
                  IN  roundDown(r - (rel % Warp), Warp) + (rel % Warp)
        byte(r, j) == ValidByte({c \in 1 .. n :
                          /\ (c - tile.startCol) \div CharBits = j /\ c >= tile.startCol
                          /\ bit(r) \notin t.nulls[c]})
        at == {<<r, j>> : r \in tile.startRow .. tile.endRow, j \in 0 .. row_bytes - 1}
    IN  [a \in {base(x[1]) + x[2] : x \in at} |->
            LET x == CHOOSE x \in at : base(x[1]) + x[2] = a IN byte(x[1], x[2])]

\* copy_strings_to_rows, for one batch: offset, length and characters.  The
\* rows end at the row COUNT of the batch while they begin at its first row.
copy_strings_to_rows(t, info, boundaries, batch) ==
    LET from == boundaries[batch]  count == boundaries[batch + 1] - from
        strings == {c \in DOMAIN t.types : is_compound(t.types[c])}
        offset(c, r) == LET len(d) == IF d \in strings THEN t.lens[d][r] ELSE 0
                        IN  info.size_per_row + SumTo(len, c - 1)
        row(r) == row_offset(t, from, r)
        slot(c, r) == [a \in row(r) + info.starts[c] .. row(r) + info.starts[c] + 2 * IntSize - 1 |->
                         LET b == a - row(r) - info.starts[c]
                         IN  IF b < IntSize THEN IntByte(offset(c, r), b)
                             ELSE IntByte(t.lens[c][r], b - IntSize)]
        chars(c, r) == [a \in row(r) + offset(c, r) .. row(r) + offset(c, r) + t.lens[c][r] - 1 |->
                          CharByte(c, r, a - row(r) - offset(c, r))]
    IN  FoldSet(LAMBDA x, mem : Overlay(mem, x), << >>,
                {slot(c, r) : c \in strings, r \in from .. count - 1}
                  \cup {chars(c, r) : c \in strings, r \in from .. count - 1})

\* copy_to_rows_fixed_width_optimized: a thread per row writes the whole row.
copy_to_rows_fixed_width_optimized(t, first, rows) ==
    LET n == Len(t.types)  info == compute_fixed_width_layout(t.types)  size == info.size_per_row
        byte(r, k) ==
          IF k >= info.starts[n + 1]
          THEN LET j == k - info.starts[n + 1]
               IN  IF j >= CeilDiv(n, CharBits) THEN Garbage
                   ELSE ValidByte({c \in 1 .. n : (c - 1) \div CharBits = j /\ r \notin t.nulls[c]})
          ELSE LET here == {c \in 1 .. n : k \in info.starts[c] .. info.starts[c] + info.sizes[c] - 1}
                   c == CHOOSE c \in here : TRUE
               IN  IF here = {} THEN Garbage ELSE CellByte(c, r, k - info.starts[c])
    IN  [a \in 0 .. size * rows - 1 |-> byte(first + (a \div size), a % size)]

-----------------------------------------------------------------------------
(* convert_from_rows. *)

\* Offsets of the rows of a list column of batch b, as the column holds them.
ListOffset(t, boundaries, b, r) == row_offset(t, boundaries[b], boundaries[b] + r)

\* The check on the size of the data, made with the layout of the reader.
layout_fits(t, rows, bytes) ==
    roundUp(compute_column_information(string_schema(t.types)).size_per_row, RowAlign) * rows
        <= bytes

\* Not the code: rows follow each other without their padding.
PackedRowStart(t, boundaries, b, r) ==
    IF all_fixed_width(t.types) THEN r * compute_column_information(t.types).size_per_row
    ELSE ListOffset(t, boundaries, b, r)

\* Where row r begins for the reader: rows of fixed width data are assumed
\* to follow each other, others are found through the list offsets.
RowStart(t, boundaries, b, r) ==
    IF all_fixed_width(t.types) THEN r * roundUp(compute_column_information(t.types).size_per_row, RowAlign)
    ELSE ListOffset(t, boundaries, b, r)

ReadAt(mem, a) == IF a \in DOMAIN mem THEN mem[a] ELSE Garbage
IntValue(bytes) == IF \E v \in 0 .. MaxBatch : bytes = [b \in 1 .. IntSize |-> IntByte(v, b - 1)]
                   THEN CHOOSE v \in 0 .. MaxBatch : bytes = [b \in 1 .. IntSize |-> IntByte(v, b - 1)]
                   ELSE -1

\* copy_from_rows: the cells of every tile of the batch.
copy_from_rows(t, boundaries, b, mem) ==
    LET types == string_schema(t.types)  info == compute_column_information(types)
        rows == boundaries[b + 1] - boundaries[b]
        tiles == DataTiles(info, rows, <<0, rows>>)
        covered(c, r) == \E tile \in tiles : /\ c \in tile.startCol .. tile.endCol
                                             /\ r \in tile.startRow .. tile.endRow
        at(c, r) == RowStart(t, boundaries, b, r) + info.starts[c]
    IN  [c \in DOMAIN types |-> [r \in 0 .. rows - 1 |->
            [k \in 1 .. info.sizes[c] |->
               IF covered(c, r) THEN ReadAt(mem, at(c, r) + k - 1) ELSE Garbage]]]

\* copy_validity_from_rows: bytes of row bits become words of column bits.
copy_validity_from_rows(t, boundaries, b, mem) ==
    LET info == compute_column_information(string_schema(t.types))
        rows == boundaries[b + 1] - boundaries[b]
        valid_at == info.starts[Len(info.starts)]
        byte(c, r) == ReadAt(mem, RowStart(t, boundaries, b, r) + valid_at + (c - 1) \div CharBits)
    IN  [c \in DOMAIN t.types |->
            {r \in 0 .. rows - 1 : ~(byte(c, r).of = "valid" /\ c \in byte(c, r).cols)}]

\* copy_strings_from_rows: the characters the offset and length stand for.
copy_strings_from_rows(t, boundaries, b, mem, cells) ==
    LET rows == boundaries[b + 1] - boundaries[b]
        slot(c) == c + Cardinality({d \in 1 .. c - 1 : is_compound(t.types[d])})
        chars(c, r) == LET off == IntValue(cells[slot(c)][r])  len == IntValue(cells[slot(c) + 1][r])
                       IN  [k \in 1 .. len |-> ReadAt(mem, RowStart(t, boundaries, b, r) + off + k - 1)]
    IN  [c \in DOMAIN t.types |->
            [r \in 0 .. rows - 1 |-> IF is_compound(t.types[c]) THEN chars(c, r) ELSE cells[slot(c)][r]]]

\* copy_from_rows_fixed_width_optimized.
copy_from_rows_fixed_width_optimized(t, rows, mem) ==
    LET n == Len(t.types)  info == compute_fixed_width_layout(t.types)
        at(c, r) == r * info.size_per_row + info.starts[c]
        byte(c, r) == ReadAt(mem, at(n + 1, r) + (c - 1) \div CharBits)
    IN  [cells |-> [c \in 1 .. n |-> [r \in 0 .. rows - 1 |->
                      [k \in 1 .. info.sizes[c] |-> ReadAt(mem, at(c, r) + k - 1)]]],
         nulls |-> [c \in 1 .. n |-> {r \in 0 .. rows - 1 :
                      ~(byte(c, r).of = "valid" /\ c \in byte(c, r).cols)}]]
=============================================================================
