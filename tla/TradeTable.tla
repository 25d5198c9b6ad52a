----------------------------- MODULE TradeTable -----------------------------
(***************************************************************************)
(* The trades table of market/program/trades.c: a growing array of rows,   *)
(* the next id, and one CSV file that rows are saved to and loaded from.   *)
(* Save and load go line by line, so that the program can be killed in     *)
(* between; everything else is one command.                                *)
(*                                                                         *)
(* Of a row's data only this is kept: whether symbol and date would        *)
(* survive the file ("plain": no comma, no quote, no blank in front), and  *)
(* whether the price has more than the ten digits the file holds.  The     *)
(* writer quotes the notes and nothing else, so a comma in another field   *)
(* shifts the fields behind it, and a quote hides the commas the reader    *)
(* counts.                                                                 *)
(***************************************************************************)
EXTENDS Naturals, Sequences

CONSTANTS
  MaxId,     \* bound of the model on next_id
  MaxRows    \* bound of the model on the number of rows

ASSUME BoundsAssumption == MaxId \in Nat \ {0} /\ MaxRows \in Nat

VARIABLES
  rows,      \* TradeTable.data and size
  next_id,
  disk,      \* lines of the file
  was,       \* ghost: the table when it was last saved, as a file can hold it
  cut,       \* ghost: the end of that did not reach the disk
  pc,        \* "prompt", "saving" or "loading"
  k,         \* the row being saved, the line being loaded
  clash,     \* ghost: a load appended an id the table already had
  last       \* ghost: the id add handed out last, 0 for none

file == <<disk, was, cut>>
vars == <<rows, next_id, file, pc, k, clash, last>>

\* "other" is a text that is not plain, or that was read back changed; a line
\* that ends too early is "torn".
Text  == {"plain", "other"}
Price == {"short", "long"}
Row   == [id : 1..MaxId, text : Text, price : Price]
Line  == [id : 1..MaxId, text : Text \cup {"torn"}, price : {"short"}]

Ids == {rows[i].id : i \in DOMAIN rows}

\* table_init; the file may have been saved by an earlier run.
Init ==
  /\ rows = <<>> /\ next_id = 1
  /\ disk = <<>> /\ was = <<>> /\ cut = FALSE
  /\ pc = "prompt" /\ k = 1
  /\ clash = FALSE /\ last = 0

-----------------------------------------------------------------------------
\* The id is taken before the questions are asked, and lost if the array
\* cannot grow.
Add(text, price) ==
  /\ pc = "prompt" /\ next_id < MaxId /\ Len(rows) < MaxRows
  /\ next_id' = next_id + 1
  /\ \/ /\ rows' = Append(rows, [id |-> next_id, text |-> text, price |-> price])
        /\ last' = next_id
     \/ UNCHANGED <<rows, last>>
  /\ UNCHANGED <<file, pc, k, clash>>

\* table_find_by_id: the first row with the id.
IsFirst(i, id) ==
  rows[i].id = id /\ \A j \in DOMAIN rows : j < i => rows[j].id # id

\* Fields the user leaves empty keep their value.
Edit(id, text, price) ==
  /\ pc = "prompt"
  /\ \E i \in DOMAIN rows :
        /\ IsFirst(i, id)
        /\ rows' = [rows EXCEPT ![i] = [id |-> @.id, text |-> text, price |-> price]]
  /\ UNCHANGED <<next_id, file, pc, k, clash, last>>

\* Variant: the last row is moved, but the array not made shorter.
DeleteKeepsLast(id) ==
  /\ pc = "prompt"
  /\ \E i \in DOMAIN rows :
        IsFirst(i, id) /\ rows' = [rows EXCEPT ![i] = rows[Len(rows)]]
  /\ UNCHANGED <<next_id, file, pc, k, clash, last>>

\* table_delete_by_id: the last row takes the place of the first with the id.
Delete(id) ==
  /\ pc = "prompt"
  /\ \E i \in DOMAIN rows :
        /\ IsFirst(i, id)
        /\ rows' = SubSeq([rows EXCEPT ![i] = rows[Len(rows)]], 1,
                          Len(rows) - 1)
  /\ UNCHANGED <<next_id, file, pc, k, clash, last>>

\* qsort by a key the model does not keep: two rows change places.
Sort ==
  /\ pc = "prompt"
  /\ \E i, j \in DOMAIN rows :
        i < j /\ rows' = [rows EXCEPT ![i] = rows[j], ![j] = rows[i]]
  /\ UNCHANGED <<next_id, file, pc, k, clash, last>>

\* trade_to_csv_line: the price is written with ten digits.
Written(r) == [r EXCEPT !.price = "short"]

\* save_csv: opening the file empties it.
SaveOpen ==
  /\ pc = "prompt"
  /\ disk' = <<>> /\ was' = [i \in DOMAIN rows |-> Written(rows[i])]
  /\ cut' = FALSE
  /\ pc' = "saving" /\ k' = 1
  /\ UNCHANGED <<rows, next_id, clash, last>>

SaveRow ==
  /\ pc = "saving" /\ k <= Len(rows)
  /\ disk' = Append(disk, Written(rows[k]))
  /\ k' = k + 1
  /\ UNCHANGED <<rows, next_id, was, cut, pc, clash, last>>

\* What can be there of lines that did not all reach the disk: the first ones,
\* the last of them perhaps in part.
Torn(l) == [l EXCEPT !.text = "torn"]
Cuts(s) ==
  {SubSeq(s, 1, n) : n \in 0..Len(s)} \cup
  {[SubSeq(s, 1, n) EXCEPT ![n] = Torn(@)] : n \in 1..Len(s)}

\* Nobody looks at what fprintf and fclose return: a full disk takes a part of
\* the lines, and save says that it has saved.
SaveClose ==
  /\ pc = "saving" /\ k > Len(rows)
  /\ \/ UNCHANGED file
     \/ disk' \in Cuts(disk) /\ cut' = TRUE /\ UNCHANGED was
  /\ pc' = "prompt" /\ k' = 1
  /\ UNCHANGED <<rows, next_id, clash, last>>

\* parse_csv_line: what a line is read back as.  A comma shifts the fields, a
\* quote hides commas and the line is skipped, unless the notes happen to hold
\* those that are missing; a torn line is skipped unless the cut is behind its
\* last comma.  The id comes first and is never hurt.
NoRow == [id |-> 0, text |-> "other", price |-> "short"]

Parsed(l) ==
  IF l.text = "plain" THEN {l} ELSE {NoRow, [l EXCEPT !.text = "other"]}

LoadOpen ==
  /\ pc = "prompt" /\ Len(rows) + Len(disk) <= MaxRows
  /\ pc' = "loading" /\ k' = 1
  /\ UNCHANGED <<rows, next_id, file, clash, last>>

\* Variant: a row whose id was given out before is taken for known.
LoadRowNewOnly ==
  /\ pc = "loading" /\ k <= Len(disk)
  /\ \E r \in Parsed(disk[k]) :
        IF r = NoRow \/ r.id < next_id THEN UNCHANGED <<rows, next_id, clash>>
        ELSE /\ rows' = Append(rows, r)
             /\ next_id' = r.id + 1
             /\ clash' = (clash \/ r.id \in Ids)
  /\ k' = k + 1
  /\ UNCHANGED <<file, pc, last>>

\* load_csv appends, with the ids of the file.
LoadRow ==
  /\ pc = "loading" /\ k <= Len(disk)
  /\ \E r \in Parsed(disk[k]) :
        IF r = NoRow THEN UNCHANGED <<rows, next_id, clash>>
        ELSE /\ rows' = Append(rows, r)
             /\ next_id' = IF r.id >= next_id THEN r.id + 1 ELSE next_id
             /\ clash' = (clash \/ r.id \in Ids)
  /\ k' = k + 1
  /\ UNCHANGED <<file, pc, last>>

\* The array cannot grow: the rest of the file is not read.
LoadFail ==
  /\ pc = "loading" /\ k <= Len(disk)
  /\ pc' = "prompt" /\ k' = 1
  /\ UNCHANGED <<rows, next_id, file, clash, last>>

LoadClose ==
  /\ pc = "loading" /\ k > Len(disk)
  /\ pc' = "prompt" /\ k' = 1
  /\ UNCHANGED <<rows, next_id, file, clash, last>>

Fresh ==
  /\ rows' = <<>> /\ next_id' = 1
  /\ pc' = "prompt" /\ k' = 1
  /\ clash' = FALSE /\ last' = 0

\* quit, and a new run.
Quit == pc = "prompt" /\ Fresh /\ UNCHANGED file

\* The program is killed, in the middle of a save too.
Kill ==
  /\ pc # "prompt"
  /\ Fresh
  /\ IF pc = "saving"
       THEN disk' \in Cuts(disk) /\ cut' = TRUE /\ UNCHANGED was
       ELSE UNCHANGED file

Next ==
  \/ \E t \in Text, p \in Price :
        Add(t, p) \/ \E id \in Ids : Edit(id, t, p)
  \/ \E id \in Ids : Delete(id)
  \/ Sort \/ SaveOpen \/ SaveRow \/ SaveClose
  \/ LoadOpen \/ LoadRow \/ LoadFail \/ LoadClose \/ Quit \/ Kill

Spec == Init /\ [][Next]_vars

-----------------------------------------------------------------------------
TypeOK ==
  /\ rows \in Seq(Row) /\ Len(rows) <= MaxRows
  /\ next_id \in 1..MaxId
  /\ disk \in Seq(Line) /\ Len(disk) <= MaxRows
  /\ was \in Seq(Line) /\ cut \in BOOLEAN
  /\ pc \in {"prompt", "saving", "loading"}
  /\ k \in 1..(MaxRows + 1)
  /\ clash \in BOOLEAN
  /\ last \in 0..MaxId

\* Every id in the table, and the last id add gave in this run, is below
\* next_id, whatever was loaded, deleted and saved in between: add never gives
\* an id that it gave before or that a loaded row has.
NextIdAbove ==
  /\ \A i \in DOMAIN rows : rows[i].id < next_id
  /\ last < next_id

\* Deleting, editing and sorting never make two rows of one id out of one:
\* ids are unique until a load appends one that the table had.
UniqueUnlessLoaded ==
  ~clash => \A i, j \in DOMAIN rows : rows[i].id = rows[j].id => i = j

\* While save writes, and after a kill in the middle of it, the file holds the
\* first rows of the table that was being saved, never lines of the file that
\* was there before.
PrefixWhileSaving ==
  pc = "saving" => /\ Len(disk) = k - 1
                   /\ \A i \in DOMAIN disk : disk[i] = Written(rows[i])

\* Saving and loading, with kills and a full disk: when the file has been read
\* to its end, every row of the table that was saved last is in the table again,
\* its price rounded to ten digits, if it was plain.  Missing are only rows at
\* the end, when that did not reach the disk, and the one in which it breaks off.
PlainRowsReturn ==
  (pc = "loading" /\ k > Len(disk)) =>
    \A i \in DOMAIN was : was[i].text = "plain" =>
      \/ \E j \in DOMAIN rows : rows[j] = was[i]
      \/ cut /\ (i > Len(disk) \/ (i = Len(disk) /\ disk[i].text = "torn"))
=============================================================================
