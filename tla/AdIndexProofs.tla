---------------------------- MODULE AdIndexProofs ----------------------------
(***************************************************************************)
(* Proofs about AdIndex, for files of any length, arrays of any size and   *)
(* keywords of any width.  IInv says what the loop of init has established *)
(* so far: LoadInv for the rows kept, SortedInv after the sort, RangesInv  *)
(* for the ranges recorded, and ScanInv for the run of equal keywords the  *)
(* scan is in, which sorting separates from the rows before and after it.  *)
(***************************************************************************)
EXTENDS AdIndex, TLAPS

\* Converting a keyword to int64 and back gives it back.
LEMMA RoundTrip ==
  ASSUME NEW k \in Keywords
  PROVE  Signed(k) \in -Half..Half - 1 /\ Unsigned(Signed(k)) = k
  BY IndexAssumption DEF Keywords, Signed, Unsigned

\* A keyword of the index is unsigned again.
LEMMA UnsignedType ==
  ASSUME NEW k \in -Half..Half - 1
  PROVE  Unsigned(k) \in Keywords /\ Signed(Unsigned(k)) = k
  BY IndexAssumption DEF Keywords, Signed, Unsigned

\* The node that owns a keyword keeps its lines, if the keyword is not odd and
\* negative; no node keeps another's.
LEMMA Ownership ==
  ASSUME NEW k \in Keywords, NEW n \in {0, 1}
  PROVE  /\ Remainder(Signed(k)) = n => k % NodeNum = n
         /\ (k < Half \/ k % NodeNum = 0) /\ k % NodeNum = n
              => Remainder(Signed(k)) = n
<1>1. k \in Nat /\ Half \in Nat
  BY IndexAssumption DEF Keywords
<1>2. CASE k < Half
  BY <1>1, <1>2 DEF Remainder, Signed, NodeNum
<1>3. CASE k >= Half
  <2>1. Signed(k) = k - 2 * Half /\ k - 2 * Half < 0
    BY <1>1, <1>3 DEF Signed, Keywords
  <2>2. Remainder(Signed(k)) = -((2 * Half - k) % 2)
    BY <2>1, <1>1 DEF Remainder, NodeNum
  <2>3. (2 * Half - k) % 2 = k % 2
    BY <1>1
  <2> QED
    BY <1>1, <1>3, <2>2, <2>3 DEF NodeNum
<1> QED BY <1>1, <1>2, <1>3

\* Nothing is loaded yet.
LEMMA InitIInv == Init => IInv
  BY IndexAssumption
     DEF Init, IInv, TypeOK, LoadInv, SortedInv, RangesInv, ScanInv

Row == [keyword : -Half..Half - 1, line : 1..Len(file)]

\* What the proofs use of the type invariant.
LEMMA Types ==
  ASSUME TypeOK
  PROVE  /\ file \in Seq(Lines) /\ Len(file) \in Nat
         /\ raw_datas \in Seq(Row) /\ Len(raw_datas) \in Nat
         /\ DOMAIN raw_datas = 1..Len(raw_datas)
         /\ \A j \in DOMAIN raw_datas : raw_datas[j] \in Row
<1>1. file \in Seq(Lines)
  BY IndexAssumption DEF TypeOK
<1>2. raw_datas \in Seq(Row)
  BY DEF TypeOK, Row
<1> HIDE DEF Row
<1> QED BY <1>1, <1>2

\* A line adds its row or none.
LEMMA LoadLineStep ==
  ASSUME IInv, LoadLine
  PROVE  IInv'
<1> USE IndexAssumption DEF IInv, LoadLine
<1> DEFINE row == [keyword |-> Signed(file[line + 1].keyword), line |-> line + 1]
<1>1. file[line + 1] \in Lines /\ line + 1 \in 1..Len(file)
  BY Types DEF TypeOK
<1>2. row \in Row
  BY <1>1, RoundTrip DEF Row, Lines
<1>3. \/ raw_datas' = Append(raw_datas, row) /\ Kept(file[line + 1])
      \/ raw_datas' = raw_datas /\ ~Kept(file[line + 1])
  OBVIOUS
<1>4. raw_datas' \in Seq(Row) /\ Len(raw_datas') \in Nat
      /\ Len(raw_datas') <= Len(raw_datas) + 1
  <2> HIDE DEF row
  <2>1. CASE raw_datas' = Append(raw_datas, row)
    BY <2>1, <1>2, Types
  <2>2. CASE raw_datas' = raw_datas
    <3>1. raw_datas \in Seq(Row) /\ Len(raw_datas) \in Nat
      BY Types
    <3> HIDE DEF LoadLine, IInv
    <3> QED BY <2>2, <3>1
  <2> QED BY <1>3, <2>1, <2>2
<1>5. TypeOK'
  BY <1>1, <1>4 DEF TypeOK, Row, ScanInv
<1>6. LoadInv'
  <2>1. CASE raw_datas' = raw_datas /\ ~Kept(file[line + 1])
    <3>1. \A l \in 1..line' : l \in 1..line \/ l = line + 1
      BY DEF TypeOK
    <3> QED BY <2>1, <3>1 DEF TypeOK, LoadInv, Kept
  <2>2. CASE raw_datas' = Append(raw_datas, row) /\ Kept(file[line + 1])
    <3>1. /\ Len(raw_datas') = Len(raw_datas) + 1
          /\ DOMAIN raw_datas' = 1..Len(raw_datas) + 1
          /\ raw_datas'[Len(raw_datas) + 1] = row
          /\ \A j \in DOMAIN raw_datas : raw_datas'[j] = raw_datas[j]
      BY <2>2, <1>2, Types
    <3>2. \A j \in DOMAIN raw_datas' : j \in DOMAIN raw_datas \/ j = Len(raw_datas) + 1
      BY <3>1, Types
    <3>3. ASSUME NEW j \in DOMAIN raw_datas'
          PROVE  /\ raw_datas'[j].line \in 1..line'
                 /\ Kept(file[raw_datas'[j].line])
                 /\ raw_datas'[j].keyword = Signed(file[raw_datas'[j].line].keyword)
      <4>1. CASE j \in DOMAIN raw_datas
        <5>1. raw_datas'[j] = raw_datas[j]
          BY <4>1, <3>1
        <5>2. raw_datas[j].line \in 1..line /\ line \in Nat
          BY <4>1, Types DEF LoadInv, TypeOK
        <5> HIDE DEF row
        <5> QED BY <4>1, <5>1, <5>2 DEF LoadInv
      <4>2. CASE j = Len(raw_datas) + 1
        BY <4>2, <3>1, <2>2 DEF TypeOK
      <4> QED BY <4>1, <4>2, <3>2
    <3>4. ASSUME NEW l \in 1..line', Kept(file[l])
          PROVE  \E j \in DOMAIN raw_datas' : raw_datas'[j].line = l
      <4>1. CASE l = line + 1
        BY <4>1, <3>1, Types
      <4>2. CASE l # line + 1
        <5>1. l \in 1..line
          BY <4>2 DEF TypeOK
        <5>2. PICK j \in DOMAIN raw_datas : raw_datas[j].line = l
          BY <5>1, <3>4 DEF LoadInv
        <5> QED BY <5>2, <3>1, Types
      <4> QED BY <4>1, <4>2
    <3> QED BY <3>3, <3>4 DEF LoadInv, Kept
  <2> QED BY <1>3, <2>1, <2>2
<1>7. SortedInv' /\ RangesInv' /\ ScanInv'
  BY DEF TypeOK, SortedInv, RangesInv, ScanInv
<1> QED BY <1>5, <1>6, <1>7

\* Sorting keeps the set of rows, which is all LoadInv speaks of.
LEMMA SortRowsStep ==
  ASSUME IInv, SortRows
  PROVE  IInv'
<1> USE IndexAssumption DEF IInv
<1> DEFINE rows == {raw_datas[j] : j \in DOMAIN raw_datas}
<1>1. /\ raw_datas' \in [DOMAIN raw_datas -> rows]
      /\ {raw_datas'[j] : j \in DOMAIN raw_datas'} = rows
      /\ \A j, k \in DOMAIN raw_datas' :
           j < k => raw_datas'[j].keyword <= raw_datas'[k].keyword
  BY DEF SortRows
<1>2. DOMAIN raw_datas' = DOMAIN raw_datas
  BY <1>1
<1>3. \A j \in DOMAIN raw_datas : \E k \in DOMAIN raw_datas : raw_datas'[j] = raw_datas[k]
  BY <1>1
<1>4. \A k \in DOMAIN raw_datas : \E j \in DOMAIN raw_datas : raw_datas'[j] = raw_datas[k]
  <2> SUFFICES ASSUME NEW k \in DOMAIN raw_datas
               PROVE  \E j \in DOMAIN raw_datas : raw_datas'[j] = raw_datas[k]
    OBVIOUS
  <2>1. raw_datas[k] \in {raw_datas'[j] : j \in DOMAIN raw_datas'}
    BY <1>1
  <2> QED BY <2>1, <1>2
<1>5. raw_datas' \in [1..Len(raw_datas) -> Row]
  BY <1>1, <1>3, Types
<1>6. raw_datas' \in Seq(Row) /\ Len(raw_datas') = Len(raw_datas)
  BY <1>5, Types
<1>7. UNCHANGED <<node_id, file, line, indexs, s, i>> /\ stage = "load" /\ stage' = "index"
  BY DEF SortRows
<1>8. TypeOK'
  BY <1>6, <1>7 DEF TypeOK, Row
<1>9. LoadInv'
  <2>1. ASSUME NEW j \in DOMAIN raw_datas
        PROVE  /\ raw_datas'[j].line \in 1..line
               /\ Kept(file[raw_datas'[j].line])
               /\ raw_datas'[j].keyword = Signed(file[raw_datas'[j].line].keyword)
    BY <1>3 DEF LoadInv
  <2>2. ASSUME NEW l \in 1..line, Kept(file[l])
        PROVE  \E j \in DOMAIN raw_datas : raw_datas'[j].line = l
    <3>1. PICK k \in DOMAIN raw_datas : raw_datas[k].line = l
      BY <2>2 DEF LoadInv
    <3> QED BY <3>1, <1>4
  <2> QED BY <2>1, <2>2, <1>2, <1>7 DEF LoadInv, Kept
<1>10. SortedInv'
  BY <1>1 DEF SortedInv
<1>11. RangesInv' /\ ScanInv'
  <2>1. indexs' = <<>> /\ s' = 1 /\ i' = 2
    BY <1>7 DEF ScanInv
  <2>2. DOMAIN indexs' = {}
    BY <2>1
  <2> QED
    BY <1>6, <1>7, <2>1, <2>2, Types DEF RangesInv, ScanInv
<1> QED BY <1>8, <1>9, <1>10, <1>11

\* Where the scan stands: rows before s are smaller, rows s to i - 1 are equal
\* to row s, and sorting puts the others after them.
LEMMA Run ==
  ASSUME IInv, stage = "index", raw_datas # <<>>
  PROVE  /\ s \in DOMAIN raw_datas
         /\ \A j \in DOMAIN raw_datas : raw_datas[j].keyword \in -Half..Half - 1
         /\ \A j \in DOMAIN raw_datas : j < s => raw_datas[j].keyword < raw_datas[s].keyword
         /\ \A j \in DOMAIN raw_datas :
              j \in s..i - 1 => raw_datas[j].keyword = raw_datas[s].keyword
         /\ \A j, k \in DOMAIN raw_datas :
              j < k => raw_datas[j].keyword <= raw_datas[k].keyword
<1>1. \A j \in DOMAIN raw_datas : raw_datas[j].keyword \in -Half..Half - 1
  BY Types DEF IInv, Row
<1>2. s \in DOMAIN raw_datas
  BY Types DEF IInv, TypeOK, ScanInv
<1> QED BY <1>1, <1>2 DEF IInv, ScanInv, SortedInv

\* Distinct int64 keywords stay distinct in the index.
LEMMA UnsignedInjective ==
  ASSUME NEW k \in -Half..Half - 1, NEW l \in -Half..Half - 1
  PROVE  Unsigned(k) = Unsigned(l) <=> k = l
  BY IndexAssumption DEF Unsigned

\* Recording the range of the run of rows s to last keeps RangesInv.
LEMMA RangeStep ==
  ASSUME IInv, stage = "index", raw_datas # <<>>, UNCHANGED raw_datas,
         NEW last \in DOMAIN raw_datas,
         SetRange(Unsigned(raw_datas[s].keyword), s, last),
         \A j \in DOMAIN raw_datas :
           j \in s..last <=> raw_datas[j].keyword = raw_datas[s].keyword
  PROVE  /\ RangesInv'
         /\ DOMAIN indexs' = DOMAIN indexs \cup {Unsigned(raw_datas[s].keyword)}
         /\ DOMAIN indexs' \subseteq Keywords
<1> USE DEF IInv
<1> DEFINE key == Unsigned(raw_datas[s].keyword)
<1>1. DOMAIN indexs' = DOMAIN indexs \cup {key}
  BY DEF SetRange
<1>2. key \in Keywords
  BY Run, UnsignedType
<1>3. ASSUME NEW k \in DOMAIN indexs'
      PROVE  /\ indexs'[k] \in (Nat \ {0}) \X (0..Len(raw_datas))
             /\ \A j \in DOMAIN raw_datas :
                  j \in indexs'[k][1]..indexs'[k][2] <=> Unsigned(raw_datas[j].keyword) = k
  <2>1. CASE k = key
    <3>1. indexs'[k] = <<s, last>>
      BY <2>1, <1>1 DEF SetRange
    <3>2. s \in Nat \ {0} /\ last \in 0..Len(raw_datas)
      BY Run, Types
    <3>3. \A j \in DOMAIN raw_datas : Unsigned(raw_datas[j].keyword) = key
                                        <=> raw_datas[j].keyword = raw_datas[s].keyword
      BY Run, UnsignedInjective
    <3> QED BY <2>1, <3>1, <3>2, <3>3
  <2>2. CASE k # key
    <3>1. k \in DOMAIN indexs /\ indexs'[k] = indexs[k]
      BY <2>2, <1>1 DEF SetRange
    <3> QED BY <3>1 DEF RangesInv
  <2> QED BY <2>1, <2>2
<1> QED BY <1>1, <1>2, <1>3 DEF RangesInv, TypeOK

\* Row i is the first one after the run of its predecessor's keyword.
LEMMA NextKeywordStep ==
  ASSUME IInv, NextKeyword
  PROVE  IInv'
<1> USE DEF IInv
<1>1. /\ stage = "index" /\ i <= Len(raw_datas) /\ i \in Nat /\ s \in Nat /\ s < i
      /\ raw_datas[i].keyword # raw_datas[i - 1].keyword
      /\ SetRange(Unsigned(raw_datas[s].keyword), s, i - 1)
      /\ s' = i /\ i' = i + 1
      /\ UNCHANGED <<node_id, file, line, raw_datas, stage>>
  BY DEF NextKeyword, TypeOK
<1>2. raw_datas # <<>> /\ i \in DOMAIN raw_datas /\ i - 1 \in DOMAIN raw_datas
  BY <1>1, Types, Run
<1>3. raw_datas[i - 1].keyword = raw_datas[s].keyword
  BY <1>1, <1>2, Run
<1>4. raw_datas[s].keyword < raw_datas[i].keyword
  BY <1>1, <1>2, <1>3, Run
<1>5. ASSUME NEW j \in DOMAIN raw_datas
      PROVE  j \in s..i - 1 <=> raw_datas[j].keyword = raw_datas[s].keyword
  <2>1. j < s \/ j \in s..i - 1 \/ j = i \/ i < j
    BY <1>1, Types
  <2> QED BY <2>1, <1>1, <1>2, <1>4, Run, Types
<1>6. /\ RangesInv'
      /\ DOMAIN indexs' = DOMAIN indexs \cup {Unsigned(raw_datas[s].keyword)}
      /\ DOMAIN indexs' \subseteq Keywords
  BY <1>1, <1>2, <1>5, RangeStep
<1>7. TypeOK'
  BY <1>1, <1>6 DEF TypeOK
<1>8. LoadInv' /\ SortedInv'
  BY <1>1 DEF LoadInv, SortedInv, Kept
<1>9. ScanInv'
  <2>1. ASSUME NEW j \in DOMAIN raw_datas, j < i
        PROVE  /\ Unsigned(raw_datas[j].keyword) \in DOMAIN indexs'
               /\ raw_datas[j].keyword < raw_datas[i].keyword
    <3>1. CASE j < s
      BY <3>1, <1>1, <1>2, <1>4, <1>6, Run, IndexAssumption, SMTT(30) DEF ScanInv
    <3>2. CASE j \in s..i - 1
      BY <3>2, <1>4, <1>5, <1>6
    <3> QED BY <3>1, <3>2, <2>1, <1>1, Types
  <2>2. \A j \in DOMAIN raw_datas : j \in i..i => raw_datas[j].keyword = raw_datas[i].keyword
    BY <1>1
  <2> QED BY <1>1, <1>2, <2>1, <2>2, Types DEF ScanInv
<1> QED BY <1>6, <1>7, <1>8, <1>9

\* Row i extends the run.
LEMMA SameKeywordStep ==
  ASSUME IInv, SameKeyword
  PROVE  IInv'
<1> USE IndexAssumption DEF IInv, SameKeyword
<1>1. TypeOK'
  BY DEF TypeOK
<1>2. LoadInv' /\ SortedInv' /\ RangesInv'
  BY DEF LoadInv, SortedInv, RangesInv, Kept
<1>3. ASSUME NEW j \in DOMAIN raw_datas, j \in s..i
      PROVE  raw_datas[j].keyword = raw_datas[s].keyword
  <2>1. i \in DOMAIN raw_datas /\ i - 1 \in s..i - 1 /\ i - 1 \in DOMAIN raw_datas
    BY Types DEF TypeOK
  <2>2. j = i \/ j \in s..i - 1
    BY <1>3, Types DEF TypeOK
  <2> QED BY <2>1, <2>2 DEF ScanInv
<1>4. i' - 1 = i
  BY DEF TypeOK
<1>5. ScanInv'
  BY <1>3, <1>4 DEF ScanInv
<1> QED BY <1>1, <1>2, <1>5

\* The last run reaches the last row.
LEMMA LastKeywordStep ==
  ASSUME IInv, LastKeyword
  PROVE  IInv'
<1> USE DEF IInv
<1>1. /\ stage = "index" /\ i > Len(raw_datas) /\ i \in Nat /\ s \in Nat /\ s < i
      /\ raw_datas # <<>> /\ stage' = "ready"
      /\ SetRange(Unsigned(raw_datas[s].keyword), s, Len(raw_datas))
      /\ UNCHANGED <<node_id, file, line, raw_datas, s, i>>
  BY DEF LastKeyword, TypeOK
<1>2. Len(raw_datas) \in DOMAIN raw_datas
  BY <1>1, Types
<1>3. ASSUME NEW j \in DOMAIN raw_datas
      PROVE  j \in s..Len(raw_datas) <=> raw_datas[j].keyword = raw_datas[s].keyword
  BY <1>1, Run, Types
<1>4. /\ RangesInv'
      /\ DOMAIN indexs' = DOMAIN indexs \cup {Unsigned(raw_datas[s].keyword)}
      /\ DOMAIN indexs' \subseteq Keywords
  BY <1>1, <1>2, <1>3, RangeStep
<1>5. TypeOK'
  BY <1>1, <1>4 DEF TypeOK
<1>6. LoadInv' /\ SortedInv'
  BY <1>1 DEF LoadInv, SortedInv, Kept
<1>7. ScanInv'
  <2>1. ASSUME NEW j \in DOMAIN raw_datas
        PROVE  Unsigned(raw_datas[j].keyword) \in DOMAIN indexs'
    <3>1. CASE j < s
      BY <3>1, <1>1, <1>4 DEF ScanInv
    <3>2. CASE j >= s
      BY <3>2, <1>1, <1>3, <1>4, Types
    <3> QED BY <3>1, <3>2, <1>1, Types
  <2> QED BY <1>1, <2>1 DEF ScanInv
<1> QED BY <1>4, <1>5, <1>6, <1>7

\* The phantom range is empty, and there is no row for it to miss.
LEMMA PhantomKeywordStep ==
  ASSUME IInv, PhantomKeyword
  PROVE  IInv'
<1> USE IndexAssumption DEF IInv, PhantomKeyword, SetRange
<1>1. TypeOK'
  BY DEF TypeOK
<1>2. LoadInv' /\ SortedInv' /\ RangesInv' /\ ScanInv'
  BY DEF TypeOK, LoadInv, SortedInv, RangesInv, ScanInv, Kept
<1> QED BY <1>1, <1>2

\* An overrun changes the stage only.
LEMMA QuietStep ==
  ASSUME IInv, Overrun \/ UNCHANGED vars
  PROVE  IInv'
  BY DEF IInv, Overrun, vars, TypeOK, LoadInv, SortedInv, RangesInv, ScanInv, Kept

\* The inductive invariant holds in every reachable state.
THEOREM Invariance == Spec => []IInv
<1>1. IInv /\ [Next]_vars => IInv'
  BY LoadLineStep, SortRowsStep, NextKeywordStep, SameKeywordStep,
     LastKeywordStep, PhantomKeywordStep, QuietStep DEF Next
<1> QED
  BY InitIInv, <1>1, PTL DEF Spec

\* Rows never outnumber the lines read or the space allocated, and the scan
\* stays within one row of the end.
THEOREM TypeCorrect == Spec => []TypeOK
<1>1. IInv => TypeOK
  BY DEF IInv
<1> QED
  BY <1>1, Invariance, PTL

\* For a file of any length: once loaded, a keyword finds exactly its active
\* lines on the node that owns it, and nothing on the other node.
THEOREM Exactness == Spec => []IndexExact
<1>1. IInv => IndexExact
  <2> SUFFICES ASSUME IInv, stage = "ready", NEW k \in Keywords,
                      k < Half \/ k % NodeNum = 0
               PROVE  Found(k) = IF k % NodeNum = node_id THEN Active(k) ELSE {}
    BY DEF IndexExact
  <2> USE DEF IInv
  <2>1. CASE k % NodeNum # node_id
    BY <2>1 DEF Found
  <2>2. CASE k % NodeNum = node_id
    <3>1. ASSUME NEW j \in DOMAIN raw_datas
          PROVE  Unsigned(raw_datas[j].keyword) = file[raw_datas[j].line].keyword
      <4>1. file[raw_datas[j].line].keyword \in Keywords
        <5>1. raw_datas[j].line \in 1..Len(file)
          BY Types DEF Row
        <5>2. file[raw_datas[j].line] \in Lines
          BY <5>1, Types
        <5> QED BY <5>2 DEF Lines
      <4> QED BY <4>1, RoundTrip DEF LoadInv
    <3>2. ASSUME NEW l \in Found(k)
          PROVE  l \in Active(k)
      <4>1. PICK j \in indexs[k][1]..indexs[k][2] : raw_datas[j].line = l
        BY <3>2 DEF Found
      <4>2. k \in DOMAIN indexs
        BY <3>2 DEF Found
      <4>3. j \in DOMAIN raw_datas
        BY <4>1, <4>2, Types DEF RangesInv
      <4>4. Unsigned(raw_datas[j].keyword) = k
        BY <4>1, <4>2, <4>3 DEF RangesInv
      <4> QED BY <3>1, <4>1, <4>3, <4>4 DEF Active, LoadInv, Kept
    <3>3. ASSUME NEW l \in Active(k)
          PROVE  l \in Found(k)
      <4>1. l \in 1..line /\ file[l].keyword = k /\ file[l].status = 1
        BY DEF Active
      <4>2. Kept(file[l])
        BY <4>1, <2>2, Ownership DEF Kept, TypeOK
      <4>3. PICK j \in DOMAIN raw_datas : raw_datas[j].line = l
        BY <4>1, <4>2 DEF LoadInv
      <4>4. Unsigned(raw_datas[j].keyword) = k
        BY <3>1, <4>1, <4>3
      <4>5. k \in DOMAIN indexs /\ j \in indexs[k][1]..indexs[k][2]
        BY <4>4 DEF ScanInv, RangesInv
      <4> QED BY <2>2, <4>3, <4>5 DEF Found
    <3> QED BY <2>2, <3>2, <3>3
  <2> QED BY <2>1, <2>2
<1> QED
  BY <1>1, Invariance, PTL
=============================================================================
