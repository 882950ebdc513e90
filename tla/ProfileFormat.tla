--------------------------- MODULE ProfileFormat ---------------------------
(***************************************************************************)
(* What becomes of an activity record: the filters of profiler_serializer  *)
(* and the outputs of spark_rapids_profile_converter.                      *)
(*                                                                         *)
(* An activity is [kind, no, ok, call, id, flag, object, process, thread,  *)
(* stream]; no tells activities apart, ok says that its time stamps (or    *)
(* the content of a marker data record) are usable.  A flatbuffer is the   *)
(* sequence of its records, a file is [parts, whole]: the flatbuffers      *)
(* after the header and whether the last one is complete.                  *)
(***************************************************************************)
EXTENDS Integers, Sequences, SequencesExt, FiniteSets

CONSTANTS
    CaptureAllocs,   \* async_alloc_capture
    TidRange         \* thread ids per NVTXT thread id, 2^8

None == {}

-----------------------------------------------------------------------------
(* profiler_serializer: what is appended to the flatbuffer being built.    *)

process_api_activity(r) ==
    IF ~r.ok \/ r.call = "getter" \/ (r.call = "alloc" /\ ~CaptureAllocs) THEN << >> ELSE <<r>>

add_object_id(r) == IF r.object \in {"thread", "stream"} THEN r ELSE [r EXCEPT !.object = "none"]

process_marker_activity(r) == IF r.ok THEN <<add_object_id(r)>> ELSE << >>
process_marker_data(r)     == IF r.ok THEN <<r>> ELSE << >>
process_device_activity(r) == <<r>>
process_kernel(r)          == IF r.ok THEN <<r>> ELSE << >>
process_memcpy(r)          == IF r.ok THEN <<r>> ELSE << >>
process_memset(r)          == IF r.ok THEN <<r>> ELSE << >>
process_overhead(r)        == IF r.ok THEN <<add_object_id(r)>> ELSE << >>

\* The dispatch of process_cupti_buffer; other kinds are ignored.
process_record(r) ==
    CASE r.kind = "api"         -> process_api_activity(r)
      [] r.kind = "device"      -> process_device_activity(r)
      [] r.kind = "marker"      -> process_marker_activity(r)
      [] r.kind = "marker_data" -> process_marker_data(r)
      [] r.kind = "kernel"      -> process_kernel(r)
      [] r.kind = "memcpy"      -> process_memcpy(r)
      [] r.kind = "memset"      -> process_memset(r)
      [] r.kind = "overhead"    -> process_overhead(r)
      [] OTHER                  -> << >>

\* flush: one vector per kind, so order is kept within a kind only.
Vector(kind, records) == SelectSeq(records, LAMBDA r : r.kind = kind)

-----------------------------------------------------------------------------
(* The converter.  Its state is [out, starts, streams, pid, error]: events *)
(* written, open ranges by marker id, streams named, the process of the    *)
(* first API call, and the exception that ended it.                        *)

Fresh == [out |-> << >>, starts |-> [i \in None |-> None], streams |-> {}, pid |-> 0, error |-> "none"]

Emit(st, e) == [st EXCEPT !.out = Append(@, e)]
Event(of, last, process, thread, color) ==
    [of |-> of, last |-> last, process |-> process, thread |-> thread, color |-> color]

to_nvtxt_tid(tid) == tid \div TidRange

\* Where an NVTXT range is drawn: process 0 stands for the GPU, its threads
\* for streams.
nvtxt_thread(r) == IF r.process = 0 THEN r.stream ELSE to_nvtxt_tid(r.thread)

NameStream(st, r) == IF r.process = 0 THEN [st EXCEPT !.streams = @ \cup {r.stream}] ELSE st

\* Colours by marker id within one flatbuffer; a repeated id is an error.
marker_data_map(part) ==
    LET data == Vector("marker_data", part)
    IN  [i \in {data[k].id : k \in DOMAIN data} |-> (CHOOSE k \in DOMAIN data : data[k].id = i)]
duplicate_data(part) ==
    LET data == Vector("marker_data", part)
    IN  Cardinality({data[k].id : k \in DOMAIN data}) < Len(data)

ColorOf(part, r) ==
    IF r.id \in DOMAIN marker_data_map(part)
    THEN Vector("marker_data", part)[marker_data_map(part)[r.id]].no ELSE 0

\* A start opens a range, an end closes and writes it, an end alone is
\* ignored, a second start of an open range is an error.
convert_marker(st, part, r, thread) ==
    IF st.error # "none" \/ r.object = "none" THEN st
    ELSE IF r.flag = "start"
    THEN IF r.id \in DOMAIN st.starts THEN [st EXCEPT !.error = "duplicate marker start"]
         ELSE [st EXCEPT !.starts = [i \in DOMAIN @ \cup {r.id} |->
                 IF i = r.id THEN Event(r.no, 0, r.process, thread, ColorOf(part, r)) ELSE @[i]]]
    ELSE IF r.flag = "end" /\ r.id \in DOMAIN st.starts
    THEN [Emit(st, [st.starts[r.id] EXCEPT !.last = r.no])
            EXCEPT !.starts = [i \in DOMAIN @ \ {r.id} |-> @[i]]]
    ELSE st

\* Kernels, copies, sets and overheads, drawn as ranges of their own.
convert_plain(st, r, process, thread) ==
    IF st.error # "none" THEN st ELSE Emit(st, Event(r.no, r.no, process, thread, 0))

\* The vectors of one flatbuffer in convert_to_nvtxt.
nvtxt_api(st, r) == convert_plain(st, r, r.process, to_nvtxt_tid(r.thread))
nvtxt_marker(st, part, r) ==
    IF r.object = "none" THEN st ELSE convert_marker(NameStream(st, r), part, r, nvtxt_thread(r))
nvtxt_gpu(st, r) == convert_plain([st EXCEPT !.streams = @ \cup {r.stream}], r, 0, r.stream)
nvtxt_overhead(st, r) ==
    IF r.object = "none" THEN st ELSE convert_plain(NameStream(st, r), r, r.process, nvtxt_thread(r))

GpuRecords(part) == Vector("kernel", part) \o Vector("memcpy", part) \o Vector("memset", part)

CheckMarkerData(st, part) ==
    IF duplicate_data(part) THEN [st EXCEPT !.error = "duplicate marker data"] ELSE st

nvtxt_part(st, part) ==
    LET marker(s, r) == nvtxt_marker(s, part, r)
        afterApi == FoldLeft(nvtxt_api, st, Vector("api", part))
        afterMarkers == FoldLeft(marker, CheckMarkerData(afterApi, part), Vector("marker", part))
    IN  FoldLeft(nvtxt_overhead, FoldLeft(nvtxt_gpu, afterMarkers, GpuRecords(part)), Vector("overhead", part))

\* The loop reads before it looks for the end, so a file that has only its
\* header, or ends within a flatbuffer, is an error.
read_to_end(file, st) ==
    IF st.error = "none" /\ (file.parts = << >> \/ ~file.whole)
    THEN [st EXCEPT !.error = "Unexpected EOF"] ELSE st

complete_parts(file) == IF file.whole THEN file.parts ELSE Front(file.parts)

\* Mutant: forgets open ranges at the end of a flatbuffer.
convert_to_nvtxt_scoped(file) ==
    LET part_alone(st, part) == nvtxt_part([st EXCEPT !.starts = Fresh.starts], part)
    IN  read_to_end(file, FoldLeft(part_alone, Fresh, complete_parts(file)))

convert_to_nvtxt(file) == read_to_end(file, FoldLeft(nvtxt_part, Fresh, complete_parts(file)))

\* convert_to_json writes every complete flatbuffer.
convert_to_json(file) ==
    read_to_end(file, [Fresh EXCEPT !.out = FlattenSeq(complete_parts(file))])

\* The vectors of one flatbuffer in convert_to_nvtxw; GPU events carry the
\* process of the first API call seen, thread ids are kept.
nvtxw_api(st, r) ==
    convert_plain([st EXCEPT !.pid = IF @ = 0 THEN r.process ELSE @], r, r.process, r.thread)
nvtxw_device(st, r) == convert_plain(st, r, 0, 0)
nvtxw_marker(st, part, r) == convert_marker(st, part, r, r.thread)
nvtxw_gpu(st, r) == convert_plain(st, r, st.pid, r.stream)
nvtxw_overhead(st, r) == IF r.object = "none" THEN st ELSE convert_plain(st, r, r.process, r.thread)

nvtxw_part(st, part) ==
    LET marker(s, r) == nvtxw_marker(s, part, r)
        afterApi == FoldLeft(nvtxw_api, st, Vector("api", part))
        afterDevices == FoldLeft(nvtxw_device, afterApi, Vector("device", part))
        afterMarkers == FoldLeft(marker, CheckMarkerData(afterDevices, part), Vector("marker", part))
    IN  FoldLeft(nvtxw_overhead, FoldLeft(nvtxw_gpu, afterMarkers, GpuRecords(part)), Vector("overhead", part))

\* One output file of convert_to_nvtxw: chunk flatbuffers from first on (all
\* when chunk is 0).  Every output is a conversion of its own: ranges open at
\* its end do not reach the next one.
convert_to_nvtxw(file, ignore_truncated, first, chunk) ==
    LET parts == complete_parts(file)
        available == Len(parts) - first + 1
        wanted == IF chunk = 0 \/ chunk > available THEN available ELSE chunk
        taken == FoldLeft(nvtxw_part, Fresh, SubSeq(parts, first, first + wanted - 1))
        ranOut == (chunk = 0 \/ chunk > available) /\ (~file.whole \/ available = 0)
    IN  IF taken.error = "none" /\ ranOut /\ ~ignore_truncated
        THEN [taken EXCEPT !.error = "Unexpected EOF"] ELSE taken

\* The first flatbuffer of every output file.
chunk_starts(file, chunk) ==
    LET n == Len(complete_parts(file))
    IN  IF chunk = 0 THEN {1}
        ELSE {k * chunk + 1 : k \in 0 .. (IF file.whole /\ n > 0 THEN n - 1 ELSE n) \div chunk}
=============================================================================
