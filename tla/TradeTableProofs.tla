--------------------------- MODULE TradeTableProofs ---------------------------
(***************************************************************************)
(* Ids, and what the file holds and gives back, for every bound on ids and *)
(* rows.                                                                   *)
(***************************************************************************)
EXTENDS TradeTable, SequenceTheorems, TLAPS

(***************************************************************************)
(* None of the invariants can be shown alone.  That next_id stays within   *)
(* its bound needs that the lines of the file come from rows (DiskBelow);  *)
(* that the table does not overflow needs how much of a file is still to   *)
(* be read (Room); that the lines of the file are the first rows that were *)
(* saved, all of them unless the end was lost (FirstRows); and what a load *)
(* has given back has to be said of every line already read (ReadBack),    *)
(* not only at the end.                                                    *)
(***************************************************************************)
DiskBelow == \A i \in DOMAIN disk : disk[i].id < MaxId

Room ==
  /\ pc = "saving" => k <= Len(rows) + 1
  /\ pc = "loading" => /\ k <= Len(disk) + 1
                       /\ Len(rows) + (Len(disk) + 1 - k) <= MaxRows

FirstRows ==
  /\ pc = "saving" => ~cut /\ was = [i \in DOMAIN rows |-> Written(rows[i])]
  /\ pc # "saving" /\ ~cut => Len(disk) = Len(was)
  /\ Len(disk) <= Len(was)
  /\ \A i \in DOMAIN disk : \/ disk[i] = was[i]
                            \/ i = Len(disk) /\ cut /\ disk[i].text = "torn"

ReadBack ==
  pc = "loading" =>
    \A i \in DOMAIN disk : (i < k /\ disk[i].text = "plain") =>
      \E j \in DOMAIN rows : rows[j] = disk[i]

TradeInv ==
  /\ TypeOK /\ DiskBelow /\ Room /\ FirstRows /\ ReadBack
  /\ NextIdAbove /\ UniqueUnlessLoaded /\ PrefixWhileSaving

-----------------------------------------------------------------------------
\* A row that parse_csv_line makes of a line has the line's id, and is the
\* line itself if that was plain.
LEMMA ParsedRow ==
  ASSUME NEW l \in Line, NEW r \in Parsed(l)
  PROVE  /\ r # NoRow => r \in Row /\ r.id = l.id
         /\ l.text = "plain" => r = l /\ r # NoRow
<1>1. l.id \in 1..MaxId /\ l.text \in Text \cup {"torn"} /\ l.price = "short"
  BY DEF Line
<1>2. NoRow.id = 0
  BY DEF NoRow
<1>3. CASE l.text = "plain"
  <2>1. r = l
    BY <1>3 DEF Parsed
  <2>2. l \in Row
    BY <1>3 DEF Line, Row, Text, Price
  <2>3. r # NoRow
    BY <1>1, <1>2, <2>1
  <2>4. QED
    BY <2>1, <2>2, <2>3
<1>4. CASE l.text # "plain"
  <2>1. r = NoRow \/ r = [l EXCEPT !.text = "other"]
    BY <1>4 DEF Parsed
  <2>2. /\ [l EXCEPT !.text = "other"] \in Row
        /\ [l EXCEPT !.text = "other"].id = l.id
    BY DEF Line, Row, Text, Price
  <2>3. QED
    BY <1>4, <2>1, <2>2
<1>5. QED
  BY <1>3, <1>4

\* What the file holds of a row, and of a line that is cut.
LEMMA WrittenLine ==
  ASSUME NEW r \in Row
  PROVE  Written(r) \in Line /\ Written(r).id = r.id
  BY DEF Row, Line, Written

LEMMA TornLine ==
  ASSUME NEW l \in Line
  PROVE  Torn(l) \in Line /\ Torn(l).id = l.id /\ Torn(l).text = "torn"
  BY DEF Line, Torn

\* What append does.
LEMMA Appended ==
  ASSUME NEW S, NEW s \in Seq(S), NEW e \in S
  PROVE  /\ Append(s, e) \in Seq(S)
         /\ Len(Append(s, e)) = Len(s) + 1
         /\ Append(s, e)[Len(s) + 1] = e
         /\ \A i \in DOMAIN s : Append(s, e)[i] = s[i]
         /\ DOMAIN s = 1..Len(s) /\ DOMAIN Append(s, e) = 1..(Len(s) + 1)
         /\ Len(s) \in Nat
OBVIOUS

\* What is left of a sequence when element i is overwritten by the last one
\* and the last place given up: its elements, each from a place of its own.
LEMMA MovedLast ==
  ASSUME NEW S, NEW s \in Seq(S), NEW i \in DOMAIN s,
         NEW t, t = SubSeq([s EXCEPT ![i] = s[Len(s)]], 1, Len(s) - 1)
  PROVE  /\ t \in Seq(S) /\ Len(t) = Len(s) - 1 /\ Len(s) \in Nat
         /\ \A j \in DOMAIN t : t[j] = s[IF j = i THEN Len(s) ELSE j]
<1> DEFINE u == [s EXCEPT ![i] = s[Len(s)]]
<1>1. Len(s) \in Nat /\ i \in 1..Len(s) /\ Len(s) \in 1..Len(s)
  BY LenProperties
<1>2. s[Len(s)] \in S
  BY <1>1, ElementOfSeq
<1>3. /\ u \in Seq(S) /\ Len(u) = Len(s)
      /\ \A j \in 1..Len(s) : u[j] = IF j = i THEN s[Len(s)] ELSE s[j]
  BY <1>1, <1>2, ExceptSeq
<1>4. \A j \in 1..(Len(s) - 1) : u[j] \in S
  BY <1>1, <1>3, ElementOfSeq
<1>5. /\ t \in Seq(S) /\ Len(t) = Len(s) - 1
      /\ \A j \in 1..(Len(s) - 1) : t[j] = u[j]
  <2> DEFINE n == Len(s) - 1
  <2>1. t = SubSeq(u, 1, n) /\ n \in Int /\ 1 \in Int
    BY <1>1
  <2>2. \A j \in 1..n : u[j] \in S
    BY <1>4
  <2> HIDE DEF u, n
  <2>3. /\ SubSeq(u, 1, n) \in Seq(S)
        /\ Len(SubSeq(u, 1, n)) = IF 1 <= n THEN n - 1 + 1 ELSE 0
        /\ \A j \in 1..(n - 1 + 1) : SubSeq(u, 1, n)[j] = u[1 + j - 1]
    BY <2>1, <2>2, SubSeqProperties
  <2>4. n - 1 + 1 = n /\ \A j \in 1..n : 1 + j - 1 = j
    BY <2>1
  <2>5. n >= 0 /\ n = Len(s) - 1
    BY <1>1 DEF n
  <2>6. QED
    BY <2>1, <2>3, <2>4, <2>5
<1>6. DOMAIN t = 1..(Len(s) - 1)
  BY <1>5, LenProperties
<1>7. QED
  BY <1>1, <1>3, <1>5, <1>6

LEMMA Bounds == 1 \in 1..MaxId /\ 0 \in 0..MaxId /\ 0 <= MaxRows /\ 1 \in 1..(MaxRows + 1)
<1>1. MaxId \in Nat /\ MaxId # 0 /\ MaxRows \in Nat
  BY BoundsAssumption
<1>2. QED
  BY <1>1

LEMMA InitTradeInv == Init => TradeInv
<1> SUFFICES ASSUME Init PROVE TradeInv
  OBVIOUS
<1>1. rows = <<>> /\ disk = <<>> /\ DOMAIN rows = {} /\ DOMAIN disk = {}
      /\ Len(rows) = 0 /\ Len(disk) = 0 /\ was = <<>> /\ Len(was) = 0
  BY DEF Init
<1>2. TypeOK
  <2>1. rows \in Seq(Row) /\ disk \in Seq(Line) /\ was \in Seq(Line)
    BY <1>1, EmptySeq
  <2>2. QED
    BY <1>1, <2>1, Bounds DEF Init, TypeOK
<1>3. QED
  BY <1>1, <1>2 DEF Init, TradeInv, DiskBelow, Room, FirstRows, ReadBack,
                    NextIdAbove, UniqueUnlessLoaded, PrefixWhileSaving

\* A run that starts keeps nothing but the file.
LEMMA FreshKeeps ==
  ASSUME Fresh, disk' \in Seq(Line), Len(disk') <= MaxRows, cut' \in BOOLEAN,
         was' \in Seq(Line), DiskBelow', FirstRows'
  PROVE  TradeInv'
<1>1. rows' = <<>> /\ DOMAIN rows' = {} /\ Len(rows') = 0
  BY DEF Fresh
<1>2. TypeOK'
  <2>1. rows' \in Seq(Row)
    BY <1>1, EmptySeq
  <2>2. QED
    BY <1>1, <2>1, Bounds DEF Fresh, TypeOK
<1>3. QED
  BY <1>1, <1>2 DEF Fresh, TradeInv, Room, ReadBack, NextIdAbove,
                    UniqueUnlessLoaded, PrefixWhileSaving

LEMMA FileKept ==
  ASSUME TradeInv, Fresh, pc # "saving", UNCHANGED file
  PROVE  TradeInv'
<1>1. UNCHANGED <<disk, was, cut>> /\ pc' = "prompt"
  BY DEF file, Fresh
<1>2. DiskBelow' /\ FirstRows'
  BY <1>1 DEF TradeInv, DiskBelow, FirstRows
<1>3. QED
  BY <1>1, <1>2, FreshKeeps DEF TradeInv, TypeOK

\* Every command at the prompt that leaves file and position alone keeps the
\* invariant if it keeps the types and the ids.
LEMMA PromptKeeps ==
  ASSUME TradeInv, pc = "prompt", UNCHANGED <<file, pc, k, clash>>,
         rows' \in Seq(Row), Len(rows') <= MaxRows, next_id' \in 1..MaxId,
         last' \in 0..MaxId, NextIdAbove', UniqueUnlessLoaded'
  PROVE  TradeInv'
BY DEF TradeInv, TypeOK, DiskBelow, Room, FirstRows, ReadBack, PrefixWhileSaving,
   file

LEMMA AddKeeps ==
  ASSUME TradeInv, NEW t \in Text, NEW p \in Price, Add(t, p)
  PROVE  TradeInv'
<1> DEFINE r == [id |-> next_id, text |-> t, price |-> p]
<1>1. /\ rows \in Seq(Row) /\ next_id \in 1..MaxId /\ next_id < MaxId
      /\ Len(rows) < MaxRows /\ last \in 0..MaxId /\ MaxId \in Nat
      /\ MaxRows \in Nat
  BY BoundsAssumption DEF TradeInv, TypeOK, Add
<1>2. \A i \in DOMAIN rows : rows[i] \in Row /\ rows[i].id \in Nat
                               /\ rows[i].id < next_id
  <2>1. \A i \in DOMAIN rows : rows[i] \in Row
    BY <1>1
  <2>2. QED
    BY <2>1 DEF Row, TradeInv, NextIdAbove
<1>3. pc = "prompt" /\ UNCHANGED <<file, pc, k, clash>> /\ next_id' = next_id + 1
  BY DEF Add
<1>4. CASE rows' = rows /\ last' = last
  <2>1. NextIdAbove'
    BY <1>1, <1>2, <1>3, <1>4 DEF TradeInv, NextIdAbove
  <2>2. UniqueUnlessLoaded'
    BY <1>3, <1>4 DEF TradeInv, UniqueUnlessLoaded
  <2>3. QED
    BY <1>1, <1>3, <1>4, <2>1, <2>2, PromptKeeps
<1>5. CASE rows' = Append(rows, r) /\ last' = next_id
  <2>1. r \in Row /\ r.id = next_id
    BY <1>1 DEF Row
  <2> HIDE DEF r
  <2>2. /\ rows' \in Seq(Row) /\ Len(rows') = Len(rows) + 1 /\ Len(rows) \in Nat
        /\ rows'[Len(rows) + 1] = r
        /\ \A i \in DOMAIN rows : rows'[i] = rows[i]
        /\ DOMAIN rows = 1..Len(rows) /\ DOMAIN rows' = 1..(Len(rows) + 1)
    BY <1>1, <1>5, <2>1, Appended
  <2>3. \A i \in DOMAIN rows' : \/ i \in DOMAIN rows /\ rows'[i] = rows[i]
                                \/ i = Len(rows) + 1 /\ rows'[i] = r
    BY <2>2
  <2>4. NextIdAbove'
    BY <1>1, <1>2, <1>3, <1>5, <2>1, <2>3 DEF NextIdAbove
  <2>5. UniqueUnlessLoaded'
    BY <1>2, <1>3, <2>1, <2>3 DEF TradeInv, UniqueUnlessLoaded
  <2>6. QED
    BY <1>1, <1>3, <1>5, <2>2, <2>4, <2>5, PromptKeeps
<1>6. QED
  BY <1>4, <1>5 DEF Add

LEMMA EditKeeps ==
  ASSUME TradeInv, NEW t \in Text, NEW p \in Price, NEW id \in Ids,
         Edit(id, t, p)
  PROVE  TradeInv'
<1>1. PICK i \in DOMAIN rows :
        rows' = [rows EXCEPT ![i] = [id |-> @.id, text |-> t, price |-> p]]
  BY DEF Edit
<1> DEFINE r == [id |-> rows[i].id, text |-> t, price |-> p]
<1>2. rows \in Seq(Row) /\ Len(rows) <= MaxRows /\ DOMAIN rows = 1..Len(rows)
  BY DEF TradeInv, TypeOK
<1>3. rows[i] \in Row
  BY <1>2
<1>4. r \in Row /\ r.id = rows[i].id
  BY <1>3 DEF Row
<1>5. rows' = [rows EXCEPT ![i] = r]
  BY <1>1
<1> HIDE DEF r
<1>6. /\ rows' \in Seq(Row) /\ Len(rows') = Len(rows)
      /\ \A j \in 1..Len(rows) : rows'[j] = IF j = i THEN r ELSE rows[j]
  BY <1>2, <1>4, <1>5, ExceptSeq
<1>7. DOMAIN rows' = DOMAIN rows /\ \A j \in DOMAIN rows : rows'[j].id = rows[j].id
  BY <1>2, <1>4, <1>6, LenProperties
<1>8. /\ pc = "prompt" /\ UNCHANGED <<file, pc, k, clash>>
      /\ UNCHANGED <<next_id, last>>
  BY DEF Edit
<1>9. NextIdAbove' /\ UniqueUnlessLoaded'
  BY <1>7, <1>8 DEF TradeInv, NextIdAbove, UniqueUnlessLoaded
<1>10. QED
  BY <1>2, <1>6, <1>8, <1>9, PromptKeeps DEF TradeInv, TypeOK

LEMMA DeleteKeeps ==
  ASSUME TradeInv, NEW id \in Ids, Delete(id)
  PROVE  TradeInv'
<1>1. PICK i \in DOMAIN rows :
        rows' = SubSeq([rows EXCEPT ![i] = rows[Len(rows)]], 1, Len(rows) - 1)
  BY DEF Delete
<1>2. rows \in Seq(Row) /\ Len(rows) <= MaxRows /\ DOMAIN rows = 1..Len(rows)
      /\ MaxRows \in Nat
  BY BoundsAssumption DEF TradeInv, TypeOK
<1>3. /\ rows' \in Seq(Row) /\ Len(rows') = Len(rows) - 1 /\ Len(rows) \in Nat
      /\ \A j \in DOMAIN rows' : rows'[j] = rows[IF j = i THEN Len(rows) ELSE j]
  BY <1>1, <1>2, MovedLast
<1>4. DOMAIN rows' = 1..(Len(rows) - 1)
  BY <1>3, LenProperties
<1>5. \A j \in DOMAIN rows' : (IF j = i THEN Len(rows) ELSE j) \in DOMAIN rows
  BY <1>2, <1>3, <1>4
<1>6. /\ pc = "prompt" /\ UNCHANGED <<file, pc, k, clash>>
      /\ UNCHANGED <<next_id, last>>
  BY DEF Delete
<1>7. NextIdAbove'
  BY <1>3, <1>5, <1>6 DEF TradeInv, NextIdAbove
<1>8. UniqueUnlessLoaded'
  <2> SUFFICES ASSUME ~clash, NEW j \in DOMAIN rows', NEW l \in DOMAIN rows',
                      rows'[j].id = rows'[l].id
               PROVE  j = l
    BY <1>6 DEF UniqueUnlessLoaded
  <2>1. (IF j = i THEN Len(rows) ELSE j) = (IF l = i THEN Len(rows) ELSE l)
    BY <1>3, <1>5 DEF TradeInv, UniqueUnlessLoaded
  <2>2. j # Len(rows) /\ l # Len(rows)
    BY <1>3, <1>4
  <2>3. QED
    BY <2>1, <2>2
<1>9. QED
  BY <1>2, <1>3, <1>6, <1>7, <1>8, PromptKeeps DEF TradeInv, TypeOK

LEMMA SortKeeps ==
  ASSUME TradeInv, Sort
  PROVE  TradeInv'
<1>1. PICK i \in DOMAIN rows, j \in DOMAIN rows :
        i < j /\ rows' = [rows EXCEPT ![i] = rows[j], ![j] = rows[i]]
  BY DEF Sort
<1>2. rows \in Seq(Row) /\ Len(rows) <= MaxRows /\ DOMAIN rows = 1..Len(rows)
  BY DEF TradeInv, TypeOK
<1>3. /\ rows' \in Seq(Row) /\ Len(rows') = Len(rows)
      /\ \A q \in 1..Len(rows) :
           rows'[q] = IF q = i THEN rows[j] ELSE IF q = j THEN rows[i] ELSE rows[q]
  <2> DEFINE u == [rows EXCEPT ![i] = rows[j]]
  <2>1. rows[i] \in Row /\ rows[j] \in Row
    BY <1>2
  <2>2. /\ u \in Seq(Row) /\ Len(u) = Len(rows)
        /\ \A q \in 1..Len(rows) : u[q] = IF q = i THEN rows[j] ELSE rows[q]
    BY <1>2, <2>1, ExceptSeq
  <2>3. rows' = [u EXCEPT ![j] = rows[i]]
    BY <1>1
  <2> HIDE DEF u
  <2>4. /\ rows' \in Seq(Row) /\ Len(rows') = Len(u)
        /\ \A q \in 1..Len(u) : rows'[q] = IF q = j THEN rows[i] ELSE u[q]
    BY <1>2, <2>1, <2>2, <2>3, ExceptSeq
  <2>5. i # j
    BY <1>1, <1>2
  <2>6. QED
    BY <2>2, <2>4, <2>5
<1>4. DOMAIN rows' = DOMAIN rows
  BY <1>2, <1>3, LenProperties
<1>5. /\ pc = "prompt" /\ UNCHANGED <<file, pc, k, clash>>
      /\ UNCHANGED <<next_id, last>>
  BY DEF Sort
<1>6. NextIdAbove'
  BY <1>1, <1>2, <1>3, <1>4, <1>5 DEF TradeInv, NextIdAbove
<1>7. UniqueUnlessLoaded'
  <2> DEFINE from(q) == IF q = i THEN j ELSE IF q = j THEN i ELSE q
  <2> SUFFICES ASSUME ~clash, NEW a \in DOMAIN rows, NEW b \in DOMAIN rows,
                      rows'[a].id = rows'[b].id
               PROVE  a = b
    BY <1>4, <1>5 DEF UniqueUnlessLoaded
  <2>1. rows'[a] = rows[from(a)] /\ rows'[b] = rows[from(b)]
    BY <1>2, <1>3
  <2>2. from(a) \in DOMAIN rows /\ from(b) \in DOMAIN rows
    OBVIOUS
  <2>3. from(a) = from(b)
    BY <2>1, <2>2 DEF TradeInv, UniqueUnlessLoaded
  <2>4. QED
    BY <2>3
<1>8. QED
  BY <1>2, <1>3, <1>5, <1>6, <1>7, PromptKeeps DEF TradeInv, TypeOK

-----------------------------------------------------------------------------
\* Lines are rows, and rows are below MaxId.
LEMMA Parts ==
  ASSUME TradeInv
  PROVE  /\ rows \in Seq(Row) /\ Len(rows) <= MaxRows /\ DOMAIN rows = 1..Len(rows)
         /\ disk \in Seq(Line) /\ Len(disk) <= MaxRows /\ DOMAIN disk = 1..Len(disk)
         /\ Len(rows) \in Nat /\ Len(disk) \in Nat /\ MaxRows \in Nat
         /\ next_id \in 1..MaxId /\ MaxId \in Nat /\ k \in Nat /\ k >= 1
         /\ \A i \in DOMAIN rows :
              /\ rows[i] \in Row /\ rows[i].id < MaxId
              /\ Written(rows[i]) \in Line /\ Written(rows[i]).id = rows[i].id
         /\ \A i \in DOMAIN disk : disk[i] \in Line
<1>1. /\ rows \in Seq(Row) /\ Len(rows) <= MaxRows
      /\ disk \in Seq(Line) /\ Len(disk) <= MaxRows
      /\ next_id \in 1..MaxId /\ k \in 1..(MaxRows + 1)
      /\ MaxRows \in Nat /\ MaxId \in Nat
  BY BoundsAssumption DEF TradeInv, TypeOK
<1>2. /\ DOMAIN rows = 1..Len(rows) /\ Len(rows) \in Nat
      /\ DOMAIN disk = 1..Len(disk) /\ Len(disk) \in Nat
  BY <1>1, LenProperties
<1>3. ASSUME NEW i \in DOMAIN rows
      PROVE  /\ rows[i] \in Row /\ rows[i].id < MaxId
             /\ Written(rows[i]) \in Line /\ Written(rows[i]).id = rows[i].id
  <2>1. rows[i] \in Row
    BY <1>1
  <2>2. rows[i].id \in 1..MaxId /\ rows[i].id < next_id
    BY <2>1 DEF Row, TradeInv, NextIdAbove
  <2>3. Written(rows[i]) \in Line /\ Written(rows[i]).id = rows[i].id
    BY <2>1, WrittenLine
  <2>4. QED
    BY <1>1, <2>1, <2>2, <2>3
<1>4. \A i \in DOMAIN disk : disk[i] \in Line
  BY <1>1
<1>5. QED
  BY <1>1, <1>2, <1>3, <1>4

LEMMA SaveOpenKeeps == ASSUME TradeInv, SaveOpen PROVE TradeInv'
<1>1. /\ disk' = <<>> /\ Len(disk') = 0 /\ DOMAIN disk' = {} /\ disk' \in Seq(Line)
      /\ cut' = FALSE /\ pc' = "saving" /\ k' = 1
      /\ was' = [i \in DOMAIN rows |-> Written(rows[i])]
      /\ UNCHANGED <<rows, next_id, clash, last>>
  BY EmptySeq DEF SaveOpen
<1>6. was' \in Seq(Line) /\ Len(was') \in Nat
  <2>1. was' \in [1..Len(rows) -> Line]
    BY <1>1, Parts
  <2>2. was' \in Seq(Line)
    BY <2>1, Parts, IsASeq
  <2>3. QED
    BY <2>2, LenProperties
<1>2. TypeOK'
  BY <1>1, <1>6, Bounds DEF TradeInv, TypeOK
<1>7. FirstRows'
  BY <1>1, <1>6 DEF FirstRows
<1>3. Room'
  BY <1>1, Parts DEF Room
<1>4. NextIdAbove' /\ UniqueUnlessLoaded'
  BY <1>1 DEF TradeInv, NextIdAbove, UniqueUnlessLoaded
<1>5. QED
  BY <1>1, <1>2, <1>3, <1>4, <1>7
     DEF TradeInv, DiskBelow, ReadBack, PrefixWhileSaving

LEMMA SaveRowKeeps == ASSUME TradeInv, SaveRow PROVE TradeInv'
<1> DEFINE w == Written(rows[k])
<1>1. /\ pc = "saving" /\ pc' = "saving" /\ k <= Len(rows) /\ k' = k + 1
      /\ disk' = Append(disk, w)
      /\ UNCHANGED <<rows, next_id, was, cut, clash, last>>
  BY DEF SaveRow
<1>2. k \in DOMAIN rows /\ w \in Line /\ w.id < MaxId
  BY <1>1, Parts
<1>12. was[k] = w /\ Len(was) = Len(rows) /\ ~cut
  <2>1. was = [i \in DOMAIN rows |-> Written(rows[i])] /\ ~cut
    BY <1>1 DEF TradeInv, FirstRows
  <2>2. was \in Seq(Line) /\ DOMAIN was = 1..Len(rows)
    BY <2>1, Parts DEF TradeInv, TypeOK
  <2>3. QED
    BY <1>2, <2>1, <2>2, Parts, LenProperties
<1> HIDE DEF w
<1>3. /\ disk' \in Seq(Line) /\ Len(disk') = Len(disk) + 1
      /\ disk'[Len(disk) + 1] = w
      /\ \A i \in DOMAIN disk : disk'[i] = disk[i]
      /\ DOMAIN disk' = 1..(Len(disk) + 1)
  BY <1>1, <1>2, Parts, Appended
<1>4. Len(disk) = k - 1 /\ \A i \in DOMAIN disk : disk[i] = Written(rows[i])
  BY <1>1 DEF TradeInv, PrefixWhileSaving
<1>5. \A i \in DOMAIN disk' : \/ i \in DOMAIN disk /\ disk'[i] = disk[i]
                              \/ i = k /\ disk'[i] = w
  BY <1>3, <1>4, Parts
<1>6. TypeOK'
  <2>1. Len(disk') <= MaxRows /\ k' \in 1..(MaxRows + 1)
    BY <1>1, <1>3, <1>4, Parts
  <2>2. QED
    BY <1>1, <1>3, <2>1 DEF TradeInv, TypeOK
<1>7. DiskBelow'
  BY <1>2, <1>5 DEF TradeInv, DiskBelow
<1>8. Room'
  BY <1>1, Parts DEF Room
<1>9. PrefixWhileSaving'
  BY <1>1, <1>3, <1>4, <1>5, Parts DEF PrefixWhileSaving, w
<1>13. FirstRows'
  <2>1. Len(disk') <= Len(was)
    BY <1>1, <1>3, <1>4, <1>12, Parts
  <2>2. \A i \in DOMAIN disk' : disk'[i] = was[i]
    BY <1>1, <1>5, <1>12 DEF TradeInv, FirstRows
  <2>3. QED
    BY <1>1, <2>1, <2>2 DEF TradeInv, FirstRows
<1>10. NextIdAbove' /\ UniqueUnlessLoaded' /\ ReadBack'
  BY <1>1 DEF TradeInv, NextIdAbove, UniqueUnlessLoaded, ReadBack
<1>11. QED
  BY <1>6, <1>7, <1>8, <1>9, <1>10, <1>13 DEF TradeInv

LEMMA LoadOpenKeeps == ASSUME TradeInv, LoadOpen PROVE TradeInv'
<1>1. /\ pc' = "loading" /\ k' = 1 /\ Len(rows) + Len(disk) <= MaxRows
      /\ UNCHANGED <<rows, next_id, disk, was, cut, clash, last>> /\ pc = "prompt"
  BY DEF LoadOpen, file
<1>2. TypeOK'
  BY <1>1, Bounds DEF TradeInv, TypeOK
<1>3. Room'
  BY <1>1, Parts DEF Room
<1>4. ReadBack'
  <2>1. \A i \in DOMAIN disk : ~(i < 1)
    BY Parts
  <2>2. QED
    BY <1>1, <2>1 DEF ReadBack
<1>5. QED
  BY <1>1, <1>2, <1>3, <1>4 DEF TradeInv, DiskBelow, FirstRows, NextIdAbove,
                                UniqueUnlessLoaded, PrefixWhileSaving

LEMMA LoadRowKeeps == ASSUME TradeInv, LoadRow PROVE TradeInv'
<1>1. PICK r \in Parsed(disk[k]) :
        IF r = NoRow THEN UNCHANGED <<rows, next_id, clash>>
        ELSE /\ rows' = Append(rows, r)
             /\ next_id' = IF r.id >= next_id THEN r.id + 1 ELSE next_id
             /\ clash' = (clash \/ r.id \in Ids)
  BY DEF LoadRow
<1>2. /\ pc = "loading" /\ pc' = "loading" /\ k <= Len(disk) /\ k' = k + 1
      /\ UNCHANGED <<disk, was, cut, last>>
  BY DEF LoadRow, file
<1>3. k \in DOMAIN disk /\ disk[k] \in Line
  BY <1>2, Parts
<1>4. /\ r # NoRow => r \in Row /\ r.id = disk[k].id
      /\ disk[k].text = "plain" => r = disk[k] /\ r # NoRow
  BY <1>3, ParsedRow
<1>5. k' \in 1..(MaxRows + 1)
  BY <1>2, Parts
<1>6. DiskBelow' /\ PrefixWhileSaving' /\ FirstRows'
  BY <1>2 DEF TradeInv, DiskBelow, PrefixWhileSaving, FirstRows
<1>7. \A i \in DOMAIN disk : i < k + 1 <=> i < k \/ i = k
  BY Parts
<1>8. CASE r = NoRow
  <2>1. UNCHANGED <<rows, next_id, clash>> /\ disk[k].text # "plain"
    BY <1>1, <1>4, <1>8
  <2>2. TypeOK'
    BY <1>2, <1>5, <2>1 DEF TradeInv, TypeOK
  <2>3. Room'
    BY <1>2, <2>1, Parts DEF TradeInv, Room
  <2>4. ReadBack'
    BY <1>2, <1>7, <2>1 DEF TradeInv, ReadBack
  <2>5. NextIdAbove' /\ UniqueUnlessLoaded'
    BY <1>2, <2>1 DEF TradeInv, NextIdAbove, UniqueUnlessLoaded
  <2>6. QED
    BY <1>6, <2>2, <2>3, <2>4, <2>5 DEF TradeInv
<1>9. CASE r # NoRow
  <2>1. /\ r \in Row /\ r.id = disk[k].id /\ r.id < MaxId /\ r.id \in Nat
        /\ r.id >= 1
    <3>1. disk[k].id < MaxId
      BY <1>3 DEF TradeInv, DiskBelow
    <3>2. QED
      BY <1>4, <1>9, <3>1 DEF Row
  <2>2. /\ rows' = Append(rows, r) /\ clash' = (clash \/ r.id \in Ids)
        /\ next_id' = IF r.id >= next_id THEN r.id + 1 ELSE next_id
    BY <1>1, <1>9
  <2>3. /\ rows' \in Seq(Row) /\ Len(rows') = Len(rows) + 1
        /\ rows'[Len(rows) + 1] = r
        /\ \A i \in DOMAIN rows : rows'[i] = rows[i]
        /\ DOMAIN rows' = 1..(Len(rows) + 1)
    BY <2>1, <2>2, Parts, Appended
  <2>4. \A i \in DOMAIN rows' : \/ i \in DOMAIN rows /\ rows'[i] = rows[i]
                                \/ i = Len(rows) + 1 /\ rows'[i] = r
    BY <2>3, Parts
  <2>5. TypeOK'
    <3>1. next_id' \in 1..MaxId
      BY <2>1, <2>2, Parts
    <3>2. Len(rows') <= MaxRows
      BY <1>2, <2>3, Parts DEF TradeInv, Room
    <3>3. clash' \in BOOLEAN
      BY <2>2 DEF TradeInv, TypeOK
    <3>4. QED
      BY <1>2, <1>5, <2>3, <3>1, <3>2, <3>3 DEF TradeInv, TypeOK
  <2>6. Room'
    BY <1>2, <2>3, Parts DEF TradeInv, Room
  <2>7. ReadBack'
    <3> SUFFICES ASSUME NEW i \in DOMAIN disk, i < k + 1, disk[i].text = "plain"
                 PROVE  \E j \in DOMAIN rows' : rows'[j] = disk[i]
      BY <1>2 DEF ReadBack
    <3>1. CASE i < k
      <4>1. PICK j \in DOMAIN rows : rows[j] = disk[i]
        BY <1>2, <3>1 DEF TradeInv, ReadBack
      <4>2. j \in DOMAIN rows' /\ rows'[j] = disk[i]
        BY <2>3, <4>1, Parts
      <4>3. QED
        BY <4>2
    <3>2. CASE i = k
      <4>1. Len(rows) + 1 \in DOMAIN rows' /\ rows'[Len(rows) + 1] = disk[i]
        BY <1>4, <2>3, <3>2, Parts
      <4>2. QED
        BY <4>1
    <3>3. QED
      BY <1>7, <3>1, <3>2
  <2>8. NextIdAbove'
    <3>1. r.id < next_id' /\ next_id <= next_id' /\ next_id' \in Nat
      BY <2>1, <2>2, Parts
    <3>2. \A i \in DOMAIN rows : rows[i].id \in Nat /\ rows[i].id < next_id
      BY Parts DEF TradeInv, NextIdAbove, Row
    <3>3. last \in Nat /\ last < next_id
      BY Parts DEF TradeInv, TypeOK, NextIdAbove
    <3>4. QED
      BY <1>2, <2>4, <3>1, <3>2, <3>3, Parts DEF NextIdAbove
  <2>9. UniqueUnlessLoaded'
    <3> SUFFICES ASSUME ~clash', NEW i \in DOMAIN rows', NEW j \in DOMAIN rows',
                        rows'[i].id = rows'[j].id
                 PROVE  i = j
      BY DEF UniqueUnlessLoaded
    <3>1. ~clash /\ r.id \notin Ids
      BY <2>2
    <3>2. \A q \in DOMAIN rows : rows[q].id # r.id
      BY <3>1 DEF Ids
    <3>3. QED
      BY <2>4, <3>1, <3>2 DEF TradeInv, UniqueUnlessLoaded
  <2>10. QED
    BY <1>6, <2>5, <2>6, <2>7, <2>8, <2>9 DEF TradeInv
<1>10. QED
  BY <1>8, <1>9

\* Save and load are over: nothing changes but the place in the file.
LEMMA ClosingKeeps ==
  ASSUME TradeInv, pc' = "prompt", k' = 1, cut' \in BOOLEAN,
         was' \in Seq(Line), disk' \in Seq(Line), Len(disk') <= MaxRows,
         DiskBelow', FirstRows', UNCHANGED <<rows, next_id, clash, last>>
  PROVE  TradeInv'
<1>1. TypeOK'
  BY Bounds DEF TradeInv, TypeOK
<1>2. QED
  BY <1>1 DEF TradeInv, Room, ReadBack, NextIdAbove, UniqueUnlessLoaded,
              PrefixWhileSaving

\* Of a file that loses its end the first lines are there, the last perhaps torn.
LEMMA CutLines ==
  ASSUME NEW s \in Seq(Line), NEW t \in Cuts(s)
  PROVE  /\ t \in Seq(Line) /\ Len(t) \in Nat /\ Len(t) <= Len(s)
         /\ DOMAIN t = 1..Len(t)
         /\ \A i \in DOMAIN t :
              /\ i \in DOMAIN s /\ t[i].id = s[i].id
              /\ t[i] = s[i] \/ (i = Len(t) /\ t[i].text = "torn")
<1>1. PICK n \in 0..Len(s) :
        \/ t = SubSeq(s, 1, n)
        \/ n \in 1..Len(s) /\ t = [SubSeq(s, 1, n) EXCEPT ![n] = Torn(@)]
  <2>1. \A n \in 1..Len(s) : n \in 0..Len(s)
    BY LenProperties
  <2>2. QED
    BY <2>1 DEF Cuts
<1> DEFINE u == SubSeq(s, 1, n)
<1>2. n \in Int /\ 1 \in Int /\ n <= Len(s) /\ n >= 0 /\ Len(s) \in Nat
      /\ DOMAIN s = 1..Len(s)
  BY LenProperties
<1>3. \A i \in 1..n : s[i] \in Line /\ i \in DOMAIN s
  BY <1>2
<1>4. /\ u \in Seq(Line) /\ Len(u) = IF 1 <= n THEN n - 1 + 1 ELSE 0
      /\ \A i \in 1..(n - 1 + 1) : u[i] = s[1 + i - 1]
  BY <1>2, <1>3, SubSeqProperties
<1> HIDE DEF u
<1>5. Len(u) = n /\ DOMAIN u = 1..n /\ \A i \in 1..n : u[i] = s[i]
  <2>1. n - 1 + 1 = n /\ \A i \in 1..n : 1 + i - 1 = i
    BY <1>2
  <2>2. Len(u) = n
    BY <1>2, <1>4, <2>1
  <2>3. QED
    BY <1>4, <2>1, <2>2, LenProperties
<1>6. CASE t = u
  BY <1>2, <1>3, <1>4, <1>5, <1>6
<1>7. CASE n \in 1..Len(s) /\ t = [u EXCEPT ![n] = Torn(@)]
  <2>1. n \in DOMAIN u /\ u[n] \in Line /\ u[n] = s[n]
    BY <1>2, <1>3, <1>5, <1>7
  <2> DEFINE l == Torn(u[n])
  <2>2. l \in Line /\ l.id = s[n].id /\ l.text = "torn"
    BY <2>1, TornLine
  <2>3. t = [u EXCEPT ![n] = l]
    BY <1>7
  <2> HIDE DEF l
  <2>4. /\ t \in Seq(Line) /\ Len(t) = Len(u)
        /\ \A i \in 1..Len(u) : t[i] = IF i = n THEN l ELSE u[i]
    BY <1>4, <1>5, <2>1, <2>2, <2>3, ExceptSeq
  <2>5. DOMAIN t = 1..n
    BY <1>5, <2>4, LenProperties
  <2>6. QED
    BY <1>2, <1>3, <1>5, <2>2, <2>4, <2>5
<1>8. QED
  BY <1>1, <1>6, <1>7 DEF u

\* The rest of the file is lost, in the middle of a save or at its end.
LEMMA CutKeeps ==
  ASSUME TradeInv, pc = "saving", disk' \in Cuts(disk), cut' = TRUE,
         UNCHANGED was, pc' = "prompt"
  PROVE  /\ disk' \in Seq(Line) /\ Len(disk') <= MaxRows
         /\ DiskBelow' /\ FirstRows'
<1>1. /\ disk' \in Seq(Line) /\ Len(disk') \in Nat /\ Len(disk') <= Len(disk)
      /\ \A i \in DOMAIN disk' :
           /\ i \in DOMAIN disk /\ disk'[i].id = disk[i].id
           /\ disk'[i] = disk[i] \/ (i = Len(disk') /\ disk'[i].text = "torn")
  BY Parts, CutLines
<1>2. DiskBelow'
  BY <1>1 DEF TradeInv, DiskBelow
<1>3. /\ ~cut /\ Len(disk) <= Len(was) /\ Len(was) \in Nat
      /\ \A i \in DOMAIN disk : disk[i] = was[i]
  BY LenProperties DEF TradeInv, TypeOK, FirstRows
<1>4. FirstRows'
  <2>1. Len(disk') <= Len(was)
    BY <1>1, <1>3, Parts
  <2>2. QED
    BY <1>1, <1>3, <2>1 DEF FirstRows
<1>5. QED
  BY <1>1, <1>2, <1>4, Parts

LEMMA KillKeeps == ASSUME TradeInv, Kill PROVE TradeInv'
<1>1. Fresh /\ pc' = "prompt"
  BY DEF Kill, Fresh
<1>2. CASE pc = "saving"
  <2>1. disk' \in Cuts(disk) /\ cut' = TRUE /\ UNCHANGED was
    BY <1>2 DEF Kill
  <2>2. /\ disk' \in Seq(Line) /\ Len(disk') <= MaxRows /\ DiskBelow' /\ FirstRows'
    BY <1>1, <1>2, <2>1, CutKeeps
  <2>3. QED
    BY <1>1, <2>1, <2>2, FreshKeeps DEF TradeInv, TypeOK
<1>3. CASE pc # "saving"
  <2>1. UNCHANGED file
    BY <1>3 DEF Kill
  <2>2. QED
    BY <1>1, <1>3, <2>1, FileKept
<1>4. QED
  BY <1>2, <1>3

LEMMA SaveCloseKeeps == ASSUME TradeInv, SaveClose PROVE TradeInv'
<1>1. /\ pc = "saving" /\ k > Len(rows) /\ pc' = "prompt" /\ k' = 1
      /\ UNCHANGED <<rows, next_id, clash, last>>
  BY DEF SaveClose
<1>2. Len(disk) = k - 1 /\ k <= Len(rows) + 1
  BY <1>1 DEF TradeInv, PrefixWhileSaving, Room
<1>3. CASE UNCHANGED file
  <2>1. UNCHANGED <<disk, was, cut>>
    BY <1>3 DEF file
  <2>2. Len(disk) = Len(was)
    <3>1. was \in Seq(Line) /\ DOMAIN was = DOMAIN rows
      BY <1>1 DEF TradeInv, TypeOK, FirstRows
    <3>2. Len(was) = Len(rows)
      BY <3>1, Parts, LenProperties
    <3>3. QED
      BY <1>1, <1>2, <3>2, Parts
  <2>3. FirstRows'
    BY <1>1, <2>1, <2>2 DEF TradeInv, FirstRows
  <2>4. QED
    BY <1>1, <2>1, <2>3, ClosingKeeps DEF TradeInv, TypeOK, DiskBelow
<1>4. CASE disk' \in Cuts(disk) /\ cut' = TRUE /\ UNCHANGED was
  <2>1. /\ disk' \in Seq(Line) /\ Len(disk') <= MaxRows /\ DiskBelow' /\ FirstRows'
    BY <1>1, <1>4, CutKeeps
  <2>2. QED
    BY <1>1, <1>4, <2>1, ClosingKeeps DEF TradeInv, TypeOK
<1>5. QED
  BY <1>3, <1>4 DEF SaveClose

LEMMA StepTradeInv == TradeInv /\ [Next]_vars => TradeInv'
<1> SUFFICES ASSUME TradeInv, [Next]_vars PROVE TradeInv'
  OBVIOUS
<1>1. CASE UNCHANGED vars
  BY <1>1 DEF vars, file, TradeInv, TypeOK, DiskBelow, Room, FirstRows, ReadBack,
              NextIdAbove, UniqueUnlessLoaded, PrefixWhileSaving
<1>2. CASE \E t \in Text, p \in Price :
             Add(t, p) \/ \E id \in Ids : Edit(id, t, p)
  BY <1>2, AddKeeps, EditKeeps
<1>3. CASE \E id \in Ids : Delete(id)
  BY <1>3, DeleteKeeps
<1>4. CASE Sort
  BY <1>4, SortKeeps
<1>5. CASE SaveOpen \/ SaveRow
  BY <1>5, SaveOpenKeeps, SaveRowKeeps
<1>6. CASE LoadOpen \/ LoadRow
  BY <1>6, LoadOpenKeeps, LoadRowKeeps
<1>7. CASE LoadFail \/ LoadClose
  <2>1. /\ pc = "loading" /\ pc' = "prompt" /\ k' = 1
        /\ UNCHANGED <<rows, next_id, disk, was, cut, clash, last>>
    BY <1>7 DEF LoadFail, LoadClose, file
  <2>2. DiskBelow' /\ FirstRows'
    BY <2>1 DEF TradeInv, DiskBelow, FirstRows
  <2>3. QED
    BY <2>1, <2>2, ClosingKeeps DEF TradeInv, TypeOK
<1>8. CASE Quit
  BY <1>8, FileKept DEF Quit
<1>9. CASE Kill \/ SaveClose
  BY <1>9, KillKeeps, SaveCloseKeeps
<1>10. QED
  BY <1>1, <1>2, <1>3, <1>4, <1>5, <1>6, <1>7, <1>8, <1>9 DEF Next

LEMMA Invariant == Spec => []TradeInv
BY InitTradeInv, StepTradeInv, PTL DEF Spec

\* Every variable of the table and the file has its type; next_id and both
\* lengths stay within their bounds without load having to look at them.
THEOREM TypeCorrect == Spec => []TypeOK
<1>1. TradeInv => TypeOK
  BY DEF TradeInv
<1>2. QED
  BY <1>1, Invariant, PTL

\* add never gives an id that it gave before, or that a loaded row has.
THEOREM IdsBelowNext == Spec => []NextIdAbove
<1>1. TradeInv => NextIdAbove
  BY DEF TradeInv
<1>2. QED
  BY <1>1, Invariant, PTL

\* Deleting, editing and sorting never make two rows of one id.
THEOREM UniqueIdsKept == Spec => []UniqueUnlessLoaded
<1>1. TradeInv => UniqueUnlessLoaded
  BY DEF TradeInv
<1>2. QED
  BY <1>1, Invariant, PTL

\* While save writes, the file holds the first rows of the table.
THEOREM FileIsPrefix == Spec => []PrefixWhileSaving
<1>1. TradeInv => PrefixWhileSaving
  BY DEF TradeInv
<1>2. QED
  BY <1>1, Invariant, PTL

\* Every plain row of the table that was saved last is in the table that has
\* read the file to its end, but for those at the end that was lost.
THEOREM PlainRowsLoaded == Spec => []PlainRowsReturn
<1>1. TradeInv => PlainRowsReturn
  <2> SUFFICES ASSUME TradeInv, pc = "loading", k > Len(disk),
                      NEW i \in DOMAIN was, was[i].text = "plain",
                      ~(cut /\ (i > Len(disk) \/ (i = Len(disk) /\ disk[i].text = "torn")))
               PROVE  \E j \in DOMAIN rows : rows[j] = was[i]
    BY DEF PlainRowsReturn
  <2>1. i \in 1..Len(was) /\ Len(was) \in Nat
    BY LenProperties DEF TradeInv, TypeOK
  <2>2. i <= Len(disk)
    BY <2>1, Parts DEF TradeInv, FirstRows
  <2>3. i \in DOMAIN disk /\ i < k
    BY <2>1, <2>2, Parts
  <2>4. disk[i] = was[i]
    BY <2>3 DEF TradeInv, FirstRows
  <2>5. QED
    BY <2>3, <2>4 DEF TradeInv, ReadBack
<1>2. QED
  BY <1>1, Invariant, PTL
=============================================================================
