------------------------------ MODULE CsvReader ------------------------------
(***************************************************************************)
(* LineReader of csv.h, by which the test cases are read: three blocks of  *)
(* memory, two to take lines from and a third that a thread of             *)
(* AsynchronousReader fills meanwhile.  CSVReader::read_row makes a row of *)
(* each line.                                                              *)
(*                                                                         *)
(* A byte of the file is ordinary ("x"), a line feed ("n"), a carriage     *)
(* return ("r"), or one that makes its line malformed ("m").  A cell of    *)
(* the buffer holds the position of the byte it was filled with, so that a *)
(* byte lost, repeated or overwritten shows.                               *)
(***************************************************************************)
EXTENDS Integers, Sequences, FiniteSetsExt

CONSTANTS
  Files,      \* files, as sequences of bytes
  BlockLen    \* block_len

ASSUME CsvAssumption ==
  /\ BlockLen \in Nat \ {0}
  /\ \A f \in Files : f \in Seq({"x", "n", "r", "m"})

VARIABLES
  file,       \* the bytes of the file
  taken,      \* bytes taken from the byte source so far
  buffer,     \* the three blocks
  data_begin, data_end,   \* the part of the first two that is still to be given out
  caller,     \* where the thread that reads the rows stands
  worker,     \* the thread of AsynchronousReader: "none", "waiting" or "gone"
  wanted,     \* desired_byte_count is set
  read_byte_count,
  rows        \* the rows read so far

data == <<taken, buffer>>
window == <<data_begin, data_end>>
handover == <<worker, wanted, read_byte_count>>
csvVars == <<file, data, window, caller, handover, rows>>

Cells == 0..3 * BlockLen - 1
Least(a, b) == IF a < b THEN a ELSE b

\* What a read of so many bytes into the buffer, from the given cell on, leaves.
Filled(cell, count) ==
  [k \in Cells |-> IF k \in cell..cell + count - 1 THEN taken + k - cell + 1 ELSE buffer[k]]

\* Opening the file: the first two blocks are read at once.
CsvInit ==
  /\ file \in Files
  /\ data_begin = 0
  /\ data_end = Least(2 * BlockLen, Len(file))
  /\ taken = data_end
  /\ buffer = [k \in Cells |-> IF k < data_end THEN k + 1 ELSE 0]
  /\ worker = IF data_end = 2 * BlockLen THEN "waiting" ELSE "none"
  /\ wanted = (data_end = 2 * BlockLen)
  /\ read_byte_count = -1
  /\ caller = "asking"
  /\ rows = <<>>

-----------------------------------------------------------------------------
(* The thread of AsynchronousReader *)

\* It ends after the read that finds no more.
ReadBlock ==
  /\ worker = "waiting"
  /\ wanted
  /\ LET count == Least(BlockLen, Len(file) - taken) IN
       /\ buffer' = Filled(2 * BlockLen, count)
       /\ taken' = taken + count
       /\ read_byte_count' = count
       /\ worker' = IF count = 0 THEN "gone" ELSE "waiting"
  /\ wanted' = FALSE
  /\ UNCHANGED <<file, window, caller, rows>>

WorkerStops ==
  /\ worker = "waiting"
  /\ caller = "closing"
  /\ worker' = "gone"
  /\ UNCHANGED <<file, data, window, caller, wanted, read_byte_count, rows>>

-----------------------------------------------------------------------------
(* LineReader::next_line and CSVReader::read_row *)

CallerMoves(from, to) == caller = from /\ caller' = to

NoMoreLines ==
  /\ data_begin = data_end
  /\ CallerMoves("asking", "ended")
  /\ UNCHANGED <<file, data, window, handover, rows>>

SameBlock ==
  /\ data_begin # data_end
  /\ data_begin < BlockLen
  /\ CallerMoves("asking", "scanning")
  /\ UNCHANGED <<file, data, window, handover, rows>>

\* The second block becomes the first.
ShiftBlock ==
  /\ data_begin # data_end
  /\ data_begin >= BlockLen
  /\ buffer' = [k \in Cells |-> buffer[IF k < BlockLen THEN k + BlockLen ELSE k]]
  /\ data_begin' = data_begin - BlockLen
  /\ data_end' = data_end - BlockLen
  /\ CallerMoves("asking", IF worker = "none" THEN "scanning" ELSE "finishing")
  /\ UNCHANGED <<file, taken, handover, rows>>

\* Mutant of FinishRead: the next read is asked for before the block is copied,
\* and what it puts there first is taken for it.
Bug_ReadBeforeCopy ==
  /\ read_byte_count # -1
  /\ data_end' = data_end + read_byte_count
  /\ LET count == Least(BlockLen, Len(file) - taken)
         later == Filled(2 * BlockLen, count) IN
       buffer' = [k \in Cells |->
                    IF k \in BlockLen..2 * BlockLen - 1 THEN later[k + BlockLen] ELSE buffer[k]]
  /\ wanted' = TRUE
  /\ read_byte_count' = -1
  /\ CallerMoves("finishing", "scanning")
  /\ UNCHANGED <<file, taken, data_begin, worker, rows>>

\* The third block becomes the second, and the thread is asked for the next.
FinishRead ==
  /\ read_byte_count # -1
  /\ data_end' = data_end + read_byte_count
  /\ buffer' = [k \in Cells |->
                  buffer[IF k \in BlockLen..2 * BlockLen - 1 THEN k + BlockLen ELSE k]]
  /\ wanted' = TRUE
  /\ read_byte_count' = -1
  /\ CallerMoves("finishing", "scanning")
  /\ UNCHANGED <<file, taken, data_begin, worker, rows>>

ByteAt(cell) == IF buffer[cell] = 0 THEN "none" ELSE file[buffer[cell]]

\* The end of the next line: a line feed, or where the data end.
LineEnd == Min({k \in data_begin..data_end - 1 : ByteAt(k) = "n"} \cup {data_end})

\* The cells of that line; a carriage return before its end is not part of it.
Line ==
  LET end == IF LineEnd # data_begin /\ ByteAt(LineEnd - 1) = "r" THEN LineEnd - 1 ELSE LineEnd
  IN  [k \in 1..end - data_begin |-> buffer[data_begin + k - 1]]

\* A row has its columns and their digits; an empty line has too few columns.
WellFormed(bytes) == bytes # <<>> /\ \A k \in DOMAIN bytes : bytes[k] # "m"

TooLong == LineEnd - data_begin + 1 > BlockLen

\* Mutant of ReadRow: a last line without a line feed is one cell short.
Bug_LastLine ==
  /\ ~TooLong
  /\ WellFormed([k \in DOMAIN Line |-> file[Line[k]]])
  /\ rows' = Append(rows, Line)
  /\ data_begin' = LineEnd + 1
  /\ data_end' = data_end
  /\ CallerMoves("scanning", "asking")
  /\ UNCHANGED <<file, data, handover>>

ReadRow ==
  /\ ~TooLong
  /\ WellFormed([k \in DOMAIN Line |-> file[Line[k]]])
  /\ rows' = Append(rows, Line)
  /\ data_begin' = LineEnd + 1
  /\ data_end' = IF LineEnd = data_end THEN data_end + 1 ELSE data_end
  /\ CallerMoves("scanning", "asking")
  /\ UNCHANGED <<file, data, handover>>

\* A line of a block or longer, or one that makes no row, is an exception that
\* nobody catches.
ReadThrows ==
  /\ TooLong \/ ~WellFormed([k \in DOMAIN Line |-> file[Line[k]]])
  /\ CallerMoves("scanning", "failed")
  /\ UNCHANGED <<file, data, window, handover, rows>>

\* ~AsynchronousReader tells its thread to stop and joins it.
Terminate ==
  /\ CallerMoves("ended", "closing")
  /\ UNCHANGED <<file, data, window, handover, rows>>

JoinWorker ==
  /\ worker # "waiting"
  /\ CallerMoves("closing", "closed")
  /\ UNCHANGED <<file, data, window, handover, rows>>

Read == NoMoreLines \/ SameBlock \/ ShiftBlock \/ FinishRead \/ ReadRow \/ ReadThrows
Close == Terminate \/ JoinWorker
Worker == ReadBlock \/ WorkerStops

CsvNext == Read \/ Close \/ Worker

CsvSpec == CsvInit /\ [][CsvNext]_csvVars

-----------------------------------------------------------------------------
\* The lines of the file: line k runs from after the line feed before it to the
\* next one, and bytes after the last line feed are a line, too.
Feeds == {k \in 1..Len(file) : file[k] = "n"}
Starts == {k \in 1..Len(file) : k = 1 \/ k - 1 \in Feeds}
LineAt(start) ==
  LET stop == Min({k \in Feeds : k >= start} \cup {Len(file) + 1})
      end == IF stop > start /\ file[stop - 1] = "r" THEN stop - 1 ELSE stop
  IN  [k \in 1..end - start |-> start + k - 1]
\* Whether a line makes a row, its bytes fewer than those of a block.
Readable(start) ==
  /\ Min({k \in Feeds : k >= start} \cup {Len(file) + 1}) - start < BlockLen
  /\ WellFormed([k \in DOMAIN LineAt(start) |-> file[LineAt(start)[k]]])
\* The lines to be read: those before the first that makes no row.
Good == {s \in Starts : \A t \in Starts : t <= s => Readable(t)}

\* What the assertions of next_line say of the data, and the types of the rest.
CsvTypeOK ==
  /\ data_begin \in 0..data_end
  /\ data_end \in 0..2 * BlockLen
  /\ taken \in 0..Len(file)
  /\ buffer \in [Cells -> 0..Len(file)]
  /\ caller \in {"asking", "finishing", "scanning", "failed", "ended", "closing",
                 "closed"}
  /\ worker \in {"none", "waiting", "gone"}
  /\ wanted \in BOOLEAN
  /\ read_byte_count \in -1..BlockLen

\* Wherever the blocks cut the file and whenever the thread reads, the rows are
\* its lines, each byte where it belongs, up to the first that cannot be read;
\* reading ends at the end of the file or at that line (next_line, read_row).
RowsExact ==
  /\ \A k \in 1..Len(rows) : \E s \in Good :
       /\ Cardinality({t \in Good : t <= s}) = k
       /\ rows[k] = LineAt(s)
  /\ caller \in {"ended", "closing", "closed"} => Len(rows) = Cardinality(Starts)
  /\ caller = "failed" => Len(rows) = Cardinality(Good) /\ Good # Starts
=============================================================================
