------------------------------- MODULE AdIndex -------------------------------
(***************************************************************************)
(* How a node loads its shard (SearchServiceImpl::init, load_csv_data,     *)
(* parserRawData): it reads the file line by line, keeps the active lines  *)
(* of the keywords it owns, sorts them by keyword and records the range of *)
(* each keyword.  A search then reads the rows of a keyword's range.       *)
(*                                                                         *)
(* A line is a keyword and a status, told apart by its number.  A keyword  *)
(* is unsigned in the file, signed in RawData and unsigned again in the    *)
(* index and in a request.  Rows are numbered from 1 here.                 *)
(***************************************************************************)
EXTENDS Integers, Sequences

CONSTANTS
  Files,        \* the files a node may find: sequences of lines
  Capacity,     \* rows allocated: total_data_num
  Half          \* half the values of a keyword: 2^63

NodeNum == 2
Keywords == 0..2 * Half - 1
Lines == [keyword : Keywords, status : {0, 1}]

ASSUME IndexAssumption ==
  /\ Capacity \in Nat
  /\ Half \in Nat \ {0}
  /\ Files \subseteq Seq(Lines)

VARIABLES
  node_id,      \* this node, 0 or 1
  file,         \* the lines of the file
  line,         \* lines read so far
  raw_datas,    \* the rows kept: a keyword and the line it comes from
  indexs,       \* per keyword, its range of rows
  s,            \* first row of the keyword being scanned
  i,            \* next row to compare with the row before it
  stage         \* where init stands

vars == <<node_id, file, line, raw_datas, indexs, s, i, stage>>

\* uint64 to int64 and back, and % on int64, which follows the dividend.
Signed(k) == IF k < Half THEN k ELSE k - 2 * Half
Unsigned(k) == IF k >= 0 THEN k ELSE k + 2 * Half
Remainder(k) == IF k >= 0 THEN k % NodeNum ELSE -((-k) % NodeNum)

\* The line is active and its keyword is this node's.
Kept(l) == Remainder(Signed(l.keyword)) = node_id /\ l.status = 1

SetRange(k, first, last) ==
  indexs' = [x \in DOMAIN indexs \cup {k} |->
               IF x = k THEN <<first, last>> ELSE indexs[x]]

Init ==
  /\ node_id \in {0, 1}
  /\ file \in Files
  /\ line = 0
  /\ raw_datas = <<>>
  /\ indexs = <<>>
  /\ s = 1
  /\ i = 2
  /\ stage = "load"

\* One turn of the getline loop; a rejected line is overwritten by the next.
LoadLine ==
  /\ stage = "load"
  /\ line < Len(file)
  /\ Len(raw_datas) < Capacity
  /\ line' = line + 1
  /\ raw_datas' = IF Kept(file[line + 1])
                  THEN Append(raw_datas, [keyword |-> Signed(file[line + 1].keyword),
                                          line |-> line + 1])
                  ELSE raw_datas
  /\ UNCHANGED <<node_id, file, indexs, s, i, stage>>

\* With every row in use, the next line, kept or not, is parsed behind the
\* end of the array.
Overrun ==
  /\ stage = "load"
  /\ line < Len(file)
  /\ Len(raw_datas) = Capacity
  /\ stage' = "overrun"
  /\ UNCHANGED <<node_id, file, line, raw_datas, indexs, s, i>>

\* Mutant of SortRows: the order of the file is kept.
Bug_DoNotSort ==
  /\ stage = "load"
  /\ line = Len(file)
  /\ stage' = "index"
  /\ UNCHANGED <<node_id, file, line, raw_datas, indexs, s, i>>

\* std::sort by keyword: rows of one keyword end up in any order.
SortRows ==
  /\ stage = "load"
  /\ line = Len(file)
  /\ LET rows == {raw_datas[j] : j \in DOMAIN raw_datas}
     IN \E sorted \in [DOMAIN raw_datas -> rows] :
          /\ {sorted[j] : j \in DOMAIN sorted} = rows
          /\ \A j, k \in DOMAIN sorted : j < k => sorted[j].keyword <= sorted[k].keyword
          /\ raw_datas' = sorted
  /\ stage' = "index"
  /\ UNCHANGED <<node_id, file, line, indexs, s, i>>

\* Mutant of NextKeyword: the range starts one row late.
Bug_StartOneLate ==
  /\ stage = "index"
  /\ i <= Len(raw_datas)
  /\ raw_datas[i].keyword # raw_datas[i - 1].keyword
  /\ SetRange(Unsigned(raw_datas[s].keyword), s, i - 1)
  /\ s' = i + 1
  /\ i' = i + 1
  /\ UNCHANGED <<node_id, file, line, raw_datas, stage>>

\* One turn of the indexing loop: row i starts the next keyword,
NextKeyword ==
  /\ stage = "index"
  /\ i <= Len(raw_datas)
  /\ raw_datas[i].keyword # raw_datas[i - 1].keyword
  /\ SetRange(Unsigned(raw_datas[s].keyword), s, i - 1)
  /\ s' = i
  /\ i' = i + 1
  /\ UNCHANGED <<node_id, file, line, raw_datas, stage>>

\* or belongs to the same keyword.
SameKeyword ==
  /\ stage = "index"
  /\ i <= Len(raw_datas)
  /\ raw_datas[i].keyword = raw_datas[i - 1].keyword
  /\ i' = i + 1
  /\ UNCHANGED <<node_id, file, line, raw_datas, indexs, s, stage>>

\* After the loop: the range of the last keyword.
LastKeyword ==
  /\ stage = "index"
  /\ i > Len(raw_datas)
  /\ raw_datas # <<>>
  /\ SetRange(Unsigned(raw_datas[s].keyword), s, Len(raw_datas))
  /\ stage' = "ready"
  /\ UNCHANGED <<node_id, file, line, raw_datas, s, i>>

\* With no row kept, the same line indexes whatever keyword the first element
\* of the array happens to hold, with an empty range.
PhantomKeyword ==
  /\ stage = "index"
  /\ raw_datas = <<>>
  /\ \E k \in Keywords : SetRange(k, 1, 0)
  /\ stage' = "ready"
  /\ UNCHANGED <<node_id, file, line, raw_datas, s, i>>

Next == LoadLine \/ Overrun \/ SortRows \/ NextKeyword \/ SameKeyword
          \/ LastKeyword \/ PhantomKeyword

Spec == Init /\ [][Next]_vars

-----------------------------------------------------------------------------
\* Every variable has its type; the rows kept are no more than the lines read
\* and fit the array, and the scan never gets past the row after the last one.
TypeOK ==
  /\ node_id \in {0, 1}
  /\ file \in Files
  /\ line \in 0..Len(file)
  /\ raw_datas \in Seq([keyword : -Half..Half - 1, line : 1..Len(file)])
  /\ Len(raw_datas) <= line /\ Len(raw_datas) <= Capacity
  /\ DOMAIN indexs \subseteq Keywords
  /\ s \in Nat \ {0} /\ i \in Nat /\ s < i
  /\ i <= Len(raw_datas) + 1 \/ i = 2
  /\ stage \in {"load", "overrun", "index", "ready"}

\* The lines a search on this node finds for keyword k (searchTopNByKeyword).
Found(k) ==
  IF k % NodeNum = node_id /\ k \in DOMAIN indexs
  THEN {raw_datas[j].line : j \in indexs[k][1]..indexs[k][2]}
  ELSE {}

\* The active lines with keyword k.
Active(k) == {l \in 1..line : file[l].keyword = k /\ file[l].status = 1}

\* A search finds exactly the active lines of a keyword the node owns, and
\* nothing under a phantom keyword or another node's, unless the keyword is odd
\* and negative as an int64.
IndexExact ==
  stage = "ready" => \A k \in Keywords : k < Half \/ k % NodeNum = 0 =>
    Found(k) = IF k % NodeNum = node_id THEN Active(k) ELSE {}

(* The inductive invariant behind IndexExact *)

\* The rows are the lines kept so far, with their keywords.
LoadInv ==
  /\ \A j \in DOMAIN raw_datas :
       /\ raw_datas[j].line \in 1..line
       /\ Kept(file[raw_datas[j].line])
       /\ raw_datas[j].keyword = Signed(file[raw_datas[j].line].keyword)
  /\ \A l \in 1..line :
       Kept(file[l]) => \E j \in DOMAIN raw_datas : raw_datas[j].line = l

SortedInv ==
  stage \in {"index", "ready"} =>
    \A j, k \in DOMAIN raw_datas : j < k => raw_datas[j].keyword <= raw_datas[k].keyword

\* Each range indexed so far holds the rows of its keyword and no others,
RangesInv ==
  \A k \in DOMAIN indexs :
    /\ indexs[k] \in (Nat \ {0}) \X (0..Len(raw_datas))
    /\ \A j \in DOMAIN raw_datas :
         j \in indexs[k][1]..indexs[k][2] <=> Unsigned(raw_datas[j].keyword) = k

\* and the scan is inside the run of rows that starts at s.
ScanInv ==
  /\ stage = "load" => indexs = <<>> /\ s = 1 /\ i = 2
  /\ stage = "index" =>
       /\ raw_datas # <<>> => s <= Len(raw_datas)
       /\ \A j \in DOMAIN raw_datas :
            /\ j < s => /\ Unsigned(raw_datas[j].keyword) \in DOMAIN indexs
                       /\ raw_datas[j].keyword < raw_datas[s].keyword
            /\ j \in s..i - 1 => raw_datas[j].keyword = raw_datas[s].keyword
  /\ stage = "ready" =>
       \A j \in DOMAIN raw_datas : Unsigned(raw_datas[j].keyword) \in DOMAIN indexs

IInv == TypeOK /\ LoadInv /\ SortedInv /\ RangesInv /\ ScanInv
=============================================================================
