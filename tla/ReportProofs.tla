----------------------------- MODULE ReportProofs -----------------------------
(***************************************************************************)
(* Proofs about Report, for any tests, directories, command lines and      *)
(* scale.  The rows are true because each turn of the loop adds one result *)
(* and one to the two cells it belongs in; the rates are honest because    *)
(* one test in fewer than 2 * Scale is more than rounding can hide; and    *)
(* the Markdown follows the JSON because a start writes both, in order.    *)
(***************************************************************************)
EXTENDS Report, FiniteSetTheorems, TLAPS

USE ReportAssumption

-----------------------------------------------------------------------------
(* Types.                                                                  *)

LEMMA BucketTypes == \A s \in Stems : BucketOf[s] \in Buckets
BY DEF BucketOf, Buckets

LEMMA BlankTypes == NoRows \in [Buckets -> Counts] /\ NoFile \in Summaries /\ Cut \in Summaries
<1>1. [c \in Columns |-> 0] \in Counts
  BY DEF Counts
<1>2. NoRows \in [Buckets -> Counts]
  BY <1>1 DEF NoRows
<1>3. [b \in Buckets |-> 0] \in [Buckets -> 0..Scale] /\ <<>> \in Results
  BY DEF Results
<1> QED
  BY <1>1, <1>2, <1>3 DEF NoFile, Cut, Blank, Summaries

\* What is selected is a sequence of stems.
LEMMA SortedTypes == \A S \in SUBSET Stems : \A q \in Sorted(S) : q \in Seq(Stems)
<1> SUFFICES ASSUME NEW S \in SUBSET Stems, NEW q \in Sorted(S) PROVE q \in Seq(Stems)
  OBVIOUS
<1>1. Cardinality(S) \in Nat
  BY FS_Subset, FS_CardinalityType
<1>2. q \in [1..Cardinality(S) -> S]
  BY DEF Sorted
<1>3. q \in [1..Cardinality(S) -> Stems]
  BY <1>2
<1> QED
  BY <1>1, <1>3

LEMMA SelectionTypes ==
    ASSUME NEW d \in Dirs, NEW c \in Commands
    PROVE  \A q \in resolveTestSet(d, c) : q \in Seq(Stems)
<1>1. \A f \in d : f.stem \in Stems
  BY DEF Files
<1>2. ASSUME c.listFile, NEW q \in resolveTestSet(d, c) PROVE q \in Seq(Stems)
  <2> DEFINE S == {f.stem : f \in idsFromListFile(c.manifest) \cap d}
  <2>1. S \in SUBSET Stems /\ q \in Sorted(S)
    BY <1>1, <1>2 DEF resolveTestSet
  <2> QED
    BY <2>1, SortedTypes
<1>3. ASSUME ~c.listFile, NEW q \in resolveTestSet(d, c) PROVE q \in Seq(Stems)
  <2> DEFINE S == {f.stem : f \in {g \in Tests(d) : Matches(g.stem, c.filters)}}
  <2>1. S \in SUBSET Stems
    BY <1>1 DEF Tests
  <2>2. PICK p \in Sorted(S) : q = Slice(p, c.limit)
    BY <1>3 DEF resolveTestSet, selectTests
  <2>3. p \in Seq(Stems) /\ c.limit \in Nat
    BY <2>1, <2>2, SortedTypes DEF CommandOK
  <2> HIDE DEF S
  <2>4. CASE c.limit > 0 /\ c.limit < Len(p)
    <3>1. q = [i \in 1..c.limit |-> p[i]]
      BY <2>2, <2>4 DEF Slice
    <3>2. \A i \in 1..c.limit : p[i] \in Stems
      BY <2>3, <2>4
    <3> QED
      BY <2>3, <3>1, <3>2
  <2>5. CASE ~(c.limit > 0 /\ c.limit < Len(p))
    BY <2>2, <2>3, <2>5 DEF Slice
  <2> QED
    BY <2>4, <2>5
<1> QED
  BY <1>2, <1>3

LEMMA StartTypes ==
    ASSUME TypeOK, NEW d \in Dirs, NEW c \in Commands, Start(d, c)
    PROVE  TypeOK'
<1>1. all' \in Seq(Stems) /\ 1 \in 1..(Len(all') + 1)
  BY SelectionTypes DEF Start
<1>2. ledger' \in [Stems -> Statuses \cup {"none"}] /\ run' \in 0..MaxRuns /\ <<>> \in Results
  BY DEF Start, TypeOK, NoRecords, Results
<1> QED
  BY <1>1, <1>2, BlankTypes DEF Start, TypeOK

LEMMA PlaceTypes ==
    ASSUME TypeOK, Count
    PROVE  all[pos] \in Stems /\ ledger[all[pos]] \in Statuses \cup {"none"}
<1>1. all \in Seq(Stems) /\ pos \in Nat /\ pos >= 1 /\ pos <= Len(all)
  BY DEF Count, TypeOK
<1>2. all[pos] \in Stems
  BY <1>1
<1> QED
  BY <1>2 DEF TypeOK

LEMMA CountTypes == TypeOK /\ Count => TypeOK'
<1> SUFFICES ASSUME TypeOK, Count PROVE TypeOK'
  OBVIOUS
<1> DEFINE t == all[pos]
           b == BucketOf[t]
<1>1. t \in Stems /\ ledger[t] \in Statuses \cup {"none"} /\ b \in Buckets
  BY PlaceTypes, BucketTypes
<1>4. pos' \in 1..(Len(all) + 1)
  <2>1. all \in Seq(Stems) /\ pos \in 1..(Len(all) + 1) /\ pos <= Len(all) /\ pos' = pos + 1
    BY DEF Count, TypeOK
  <2>2. Len(all) \in Nat
    BY <2>1
  <2> QED
    BY <2>1, <2>2
<1>2. results' \in Results /\ rows' \in [Buckets -> Counts]
  <2>1. CASE ledger[t] = "none"
    BY <2>1 DEF Count, TypeOK
  <2>2. CASE ledger[t] # "none"
    <3>1. [test |-> t, status |-> ledger[t]] \in [test : Stems, status : Statuses]
      BY <1>1, <2>2
    <3>2. results' = Append(results, [test |-> t, status |-> ledger[t]])
      BY <2>2 DEF Count
    <3>3. rows[b] \in Counts /\ Column(ledger[t]) \in Columns
      BY <1>1 DEF TypeOK, Column, Columns, Statuses
    <3>4. Counted(rows[b], ledger[t]) \in Counts
      BY <3>3 DEF Counts, Columns, Counted
    <3>5. rows' = [rows EXCEPT ![b] = Counted(rows[b], ledger[t])]
      BY <2>2 DEF Count
    <3>6. results' \in Results
      BY <3>1, <3>2 DEF TypeOK, Results
    <3>7. rows' \in [Buckets -> Counts]
      BY <1>1, <3>4, <3>5 DEF TypeOK
    <3> QED
      BY <3>6, <3>7
  <2> QED
    BY <2>1, <2>2
<1> QED
  BY <1>2, <1>4 DEF Count, TypeOK

LEMMA IntervalSize ==
    ASSUME NEW n \in Nat
    PROVE  IsFiniteSet(1..n) /\ Cardinality(1..n) = n
<1>1. Cardinality(1..n) = IF 1 > n THEN 0 ELSE n - 1 + 1
  BY FS_Interval
<1> QED
  BY <1>1, FS_Interval

LEMMA HeaderTypes ==
    ASSUME TypeOK
    PROVE  /\ Header \in Counts
           /\ \A s \in Statuses : WithStatus(s) \subseteq DOMAIN results
           /\ IsFiniteSet(DOMAIN results) /\ Cardinality(DOMAIN results) = Len(results)
           /\ Header["total"] = Len(results)
           /\ \A s \in Statuses : Header[s] = Cardinality(WithStatus(s))
<1>1. Len(results) \in Nat /\ DOMAIN results = 1..Len(results)
  BY DEF TypeOK, Results
<1>2. IsFiniteSet(DOMAIN results) /\ Cardinality(DOMAIN results) = Len(results)
  BY <1>1, IntervalSize
<1>3. \A s : Cardinality(WithStatus(s)) \in Nat
  BY <1>2, FS_Subset, FS_CardinalityType DEF WithStatus
<1> QED
  BY <1>1, <1>2, <1>3 DEF Header, Counts, Columns, Statuses, WithStatus

LEMMA SummariseTypes == TypeOK /\ Summarise => TypeOK'
<1> SUFFICES ASSUME TypeOK, Summarise PROVE TypeOK'
  OBVIOUS
<1>1. summary' \in Summaries
  <2>1. PICK rates \in [Buckets -> 0..Scale], rate \in 0..Scale, exclSkip \in 0..Scale :
          summary' = [text |-> "whole", run |-> run, results |-> results, rows |-> rows,
                      rates |-> rates, header |-> Header, passRate |-> rate,
                      passRateExclSkip |-> exclSkip]
    BY DEF Summarise
  <2>2. run \in Nat /\ results \in Results /\ rows \in [Buckets -> Counts]
    BY DEF TypeOK
  <2>3. Header \in Counts
    BY HeaderTypes
  <2> QED
    BY <2>1, <2>2, <2>3 DEF Summaries
<1> QED
  BY <1>1 DEF Summarise, TypeOK, After

LEMMA NextTypes == TypeOK /\ [Next]_vars => TypeOK'
<1> SUFFICES ASSUME TypeOK, [Next]_vars PROVE TypeOK'
  OBVIOUS
<1>1. CASE UNCHANGED vars
  BY <1>1 DEF vars, TypeOK
<1>2. CASE Sweep
  BY <1>2 DEF Sweep, TypeOK
<1>3. CASE WriteJson \/ WriteMd
  BY <1>3 DEF WriteJson, WriteMd, TypeOK, After
<1>4. CASE Die
  <2>1. <<>> \in Seq(Stems) /\ <<>> \in Results /\ 1 \in 1..(Len(<<>>) + 1)
    BY DEF Results
  <2> QED
    BY <1>4, <2>1, BlankTypes DEF Die, TypeOK
<1> QED
  BY <1>1, <1>2, <1>3, <1>4, StartTypes, CountTypes, SummariseTypes DEF Next

(***************************************************************************)
(* Type correctness of selection and report.                               *)
(***************************************************************************)
THEOREM TypeCorrect == Spec => []TypeOK
<1>1. Init => TypeOK
  BY BlankTypes DEF Init, TypeOK, NoRecords, Results
<1> QED
  BY <1>1, NextTypes, PTL DEF Spec

-----------------------------------------------------------------------------
(* The selection.  An ascending sequence as long as a set has all of it.   *)

Ascending(q) == \A i, j \in DOMAIN q : i < j => q[i] < q[j]
Elements(q) == {q[i] : i \in DOMAIN q}

LEMMA SortedOnto ==
    ASSUME NEW S \in SUBSET Stems, NEW q \in Sorted(S)
    PROVE  q \in Seq(Stems) /\ Ascending(q) /\ Elements(q) = S
<1> DEFINE n == Cardinality(S)
<1>1. IsFiniteSet(S) /\ n \in Nat
  BY FS_Subset, FS_CardinalityType
<1>2. q \in [1..n -> S] /\ Ascending(q) /\ DOMAIN q = 1..n
  BY DEF Sorted, Ascending
<1>3. \A i \in 1..n : q[i] \in Nat
  BY <1>2
<1>4. q \in Injection(1..n, S)
  <2>1. ASSUME NEW i \in 1..n, NEW j \in 1..n, q[i] = q[j] PROVE i = j
    <3>1. ~(i < j) /\ ~(j < i)
      BY <1>2, <1>3, <2>1 DEF Ascending
    <3> QED
      BY <1>1, <3>1
  <2> QED
    BY <1>2, <2>1 DEF Injection, IsInjective
<1>5. IsFiniteSet(1..n) /\ Cardinality(1..n) = n
  BY <1>1, IntervalSize
<1>6. q \in Surjection(1..n, S)
  BY <1>1, <1>4, <1>5, FS_Injection
<1>7. Elements(q) = S
  BY <1>2, <1>6 DEF Surjection, Elements
<1> QED
  BY <1>2, <1>7, SortedTypes

\* What Start makes of ALL, out of the set of the tests that are wanted.
Selection(q, S, c) ==
    /\ Ascending(q) /\ Elements(q) \subseteq S
    /\ \A s \in S \ Elements(q) : /\ ~c.listFile /\ c.limit > 0
                                  /\ Len(q) = c.limit
                                  /\ \A t \in Elements(q) : t < s

LEMMA SliceSelects ==
    ASSUME NEW S \in SUBSET Stems, NEW q \in Sorted(S), NEW c \in Commands, ~c.listFile
    PROVE  Selection(Slice(q, c.limit), S, c)
<1> DEFINE n == c.limit
           p == Slice(q, n)
<1>1. q \in Seq(Stems) /\ Ascending(q) /\ Elements(q) = S
  BY SortedOnto
<1>2. n \in Nat
  BY DEF CommandOK
<1>3. CASE ~(n > 0 /\ n < Len(q))
  BY <1>1, <1>3 DEF Slice, Selection
<1>4. CASE n > 0 /\ n < Len(q)
  <2>1. /\ p = [i \in 1..n |-> q[i]]
        /\ DOMAIN q = 1..Len(q) /\ Len(q) \in Nat /\ DOMAIN p = 1..n
    BY <1>1, <1>4 DEF Slice
  <2>2. p \in Seq(Stems) /\ Len(p) = n
    <3>1. \A i \in 1..n : q[i] \in Stems
      BY <1>1, <1>2, <1>4
    <3> QED
      BY <1>2, <2>1, <3>1
  <2>3. \A i \in 1..n : i \in DOMAIN q /\ p[i] = q[i]
    BY <1>2, <1>4, <2>1
  <2> HIDE DEF p, n
  <2>4. Ascending(p) /\ Elements(p) \subseteq S
    BY <1>1, <2>1, <2>3 DEF Ascending, Elements
  <2>5. ASSUME NEW s \in S \ Elements(p), NEW t \in Elements(p) PROVE t < s
    <3>1. PICK j \in DOMAIN q : s = q[j]
      BY <1>1 DEF Elements
    <3>2. PICK i \in 1..n : t = q[i]
      BY <2>1, <2>3 DEF Elements
    <3>3. j \notin 1..n
      BY <2>1, <2>3, <3>1 DEF Elements
    <3>4. i < j /\ i \in DOMAIN q
      BY <1>2, <2>1, <2>3, <3>3
    <3> QED
      BY <1>1, <3>1, <3>2, <3>4 DEF Ascending
  <2> QED
    BY <1>4, <2>2, <2>4, <2>5 DEF Selection, p, n
<1> QED
  BY <1>3, <1>4

LEMMA StartSelects ==
    ASSUME NEW d \in Dirs, NEW c \in Commands, Start(d, c)
    PROVE  Selection(all', Wanted', c)
<1>1. d \subseteq Files /\ dir' = d /\ command' = c /\ all' \in resolveTestSet(d, c)
  BY DEF Start
<1>2. CommandOK(c)
  OBVIOUS
<1>3. CASE c.listFile
  <2> DEFINE S == {f.stem : f \in idsFromListFile(c.manifest) \cap d}
  <2>1. S \in SUBSET Stems
    BY <1>1 DEF Files
  <2>2. ASSUME NEW s \in S PROVE s \in Wanted'
    <3>1. PICK f \in idsFromListFile(c.manifest) \cap d : s = f.stem
      OBVIOUS
    <3>2. PICK i \in DOMAIN c.manifest :
            f = [stem |-> c.manifest[i].stem, prefix |-> TRUE, suffix |-> TRUE]
      BY <3>1 DEF idsFromListFile
    <3>3. s = c.manifest[i].stem /\ f = [stem |-> s, prefix |-> TRUE, suffix |-> TRUE]
      BY <3>1, <3>2
    <3> QED
      BY <1>1, <1>3, <2>1, <2>2, <3>1, <3>3 DEF Wanted
  <2>3. ASSUME NEW s \in Wanted' PROVE s \in S
    <3> DEFINE f == [stem |-> s, prefix |-> TRUE, suffix |-> TRUE]
    <3>1. s \in Stems /\ f \in d /\ \E i \in DOMAIN c.manifest : c.manifest[i].stem = s
      BY <1>1, <1>3, <2>3 DEF Wanted
    <3>2. f \in idsFromListFile(c.manifest)
      BY <3>1 DEF idsFromListFile
    <3>3. f.stem = s
      OBVIOUS
    <3> QED
      BY <3>1, <3>2, <3>3
  <2>4. all' \in Sorted(S)
    BY <1>1, <1>3 DEF resolveTestSet
  <2>5. Ascending(all') /\ Elements(all') = S
    BY <2>1, <2>4, SortedOnto
  <2> QED
    BY <2>2, <2>3, <2>5 DEF Selection
<1>4. CASE ~c.listFile
  <2> DEFINE S == {f.stem : f \in {g \in Tests(d) : Matches(g.stem, c.filters)}}
  <2>1. S \in SUBSET Stems
    BY <1>1 DEF Files, Tests
  <2>2. ASSUME NEW s \in S PROVE s \in Wanted'
    <3>1. PICK f \in Tests(d) : s = f.stem /\ Matches(s, c.filters)
      OBVIOUS
    <3>2. f = [stem |-> s, prefix |-> TRUE, suffix |-> TRUE] /\ f \in d
      BY <1>1, <3>1 DEF Tests, Files
    <3> QED
      BY <1>1, <1>4, <2>1, <3>1, <3>2 DEF Wanted
  <2>3. ASSUME NEW s \in Wanted' PROVE s \in S
    <3> DEFINE f == [stem |-> s, prefix |-> TRUE, suffix |-> TRUE]
    <3>1. s \in Stems /\ f \in d /\ Matches(s, c.filters)
      BY <1>1, <1>4, <2>3 DEF Wanted
    <3>2. f \in Tests(d) /\ f.stem = s
      BY <3>1 DEF Tests
    <3> QED
      BY <3>1, <3>2
  <2>4. S = Wanted'
    BY <2>2, <2>3
  <2>5. PICK q \in Sorted(S) : all' = Slice(q, c.limit)
    BY <1>1, <1>4 DEF resolveTestSet, selectTests
  <2> HIDE DEF S
  <2>6. Selection(Slice(q, c.limit), S, c)
    BY <1>4, <2>1, <2>5, SliceSelects
  <2> QED
    BY <2>4, <2>5, <2>6
<1> QED
  BY <1>3, <1>4

(***************************************************************************)
(* ALL is what the command line asks for, whatever the directory, the      *)
(* manifest, the filters and LIMIT.                                        *)
(***************************************************************************)
THEOREM SelectsRight == Spec => []SelectionIsRight
<1>1. Init => SelectionIsRight
  BY DEF Init, SelectionIsRight
<1>2. SelectionIsRight /\ [Next]_vars => SelectionIsRight'
  <2> SUFFICES ASSUME SelectionIsRight, [Next]_vars PROVE SelectionIsRight'
    OBVIOUS
  <2>1. ASSUME NEW d \in Dirs, NEW c \in Commands, Start(d, c) PROVE SelectionIsRight'
    <3>1. Selection(all', Wanted', c) /\ command' = c
      BY <2>1, StartSelects DEF Start
    <3>2. Chosen' = Elements(all')
      BY DEF Chosen, Elements
    <3> QED
      BY <3>1, <3>2 DEF Selection, Ascending, SelectionIsRight
  <2>2. CASE Die
    BY <2>2 DEF Die, SelectionIsRight
  <2>3. CASE Sweep \/ Count \/ Summarise \/ WriteJson \/ WriteMd \/ UNCHANGED vars
    <3>1. UNCHANGED <<dir, command, all>> /\ (phase # "idle" \/ phase' = "idle")
      BY <2>3 DEF Sweep, Count, Summarise, WriteJson, WriteMd, vars
    <3>2. UNCHANGED <<Wanted, Chosen>>
      BY <3>1 DEF Wanted, Chosen
    <3> QED
      BY <3>1, <3>2 DEF SelectionIsRight
  <2> QED
    BY <2>1, <2>2, <2>3 DEF Next
<1> QED
  BY <1>1, <1>2, PTL DEF Spec

-----------------------------------------------------------------------------
(* The Markdown follows the JSON.  While a start is on its way to a file,  *)
(* the files carry earlier numbers than its own.                           *)

InOrder ==
    /\ phase # "idle" => run >= 1
    /\ phase \in {"sweep", "count", "json"} => json.run < run /\ md.run < run
    /\ phase = "md" => json = summary /\ md.run < run
    /\ phase \in {"json", "md"} => summary.text = "whole" /\ summary.run = run
    /\ json.run <= run /\ md.run <= run
    /\ md.text = "whole" => md.run >= 1

Ordered == InOrder /\ MdFollowsJson

LEMMA OrderedInit == Init => Ordered
BY DEF Init, Ordered, InOrder, MdFollowsJson, NoFile, Blank

LEMMA OrderedNext == TypeOK /\ Ordered /\ [Next]_vars => Ordered'
<1> SUFFICES ASSUME TypeOK, Ordered, [Next]_vars PROVE Ordered'
  OBVIOUS
<1>0. run \in Nat /\ json.run \in Nat /\ md.run \in Nat /\ Cut.run = 0 /\ Cut.text = "cut"
  BY DEF TypeOK, Summaries, Cut, Blank
<1>1. CASE UNCHANGED vars
  BY <1>1 DEF vars, Ordered, InOrder, MdFollowsJson
<1>2. ASSUME NEW d \in Dirs, NEW c \in Commands, Start(d, c) PROVE Ordered'
  BY <1>0, <1>2 DEF Start, Ordered, InOrder, MdFollowsJson
<1>3. CASE Sweep
  BY <1>3 DEF Sweep, Ordered, InOrder, MdFollowsJson
<1>4. CASE Count
  BY <1>4 DEF Count, Ordered, InOrder, MdFollowsJson
<1>5. CASE Summarise
  <2>1. summary'.text = "whole" /\ summary'.run = run
    BY <1>5 DEF Summarise
  <2>2. phase = "count" /\ phase' = "json" /\ UNCHANGED <<json, md, run>>
    BY <1>5 DEF Summarise, After
  <2> QED
    BY <2>1, <2>2 DEF Ordered, InOrder, MdFollowsJson
<1>6. CASE WriteJson
  BY <1>0, <1>6 DEF WriteJson, After, Ordered, InOrder, MdFollowsJson
<1>7. CASE WriteMd
  BY <1>0, <1>7 DEF WriteMd, After, Ordered, InOrder, MdFollowsJson
<1>8. CASE Die
  <2>1. /\ phase' = "idle" /\ run' = run
        /\ json' = json \/ (phase = "json" /\ json' = Cut)
        /\ md' = md \/ (phase = "md" /\ md' = Cut)
    BY <1>8 DEF Die
  <2>2. InOrder'
    BY <1>0, <2>1 DEF Ordered, InOrder
  <2>3. CASE json' = json /\ md' = md
    BY <2>1, <2>2, <2>3 DEF Ordered, MdFollowsJson
  <2>4. CASE json' = Cut /\ md' = md
    BY <1>0, <2>1, <2>2, <2>4 DEF Ordered, InOrder, MdFollowsJson
  <2>5. CASE md' = Cut
    BY <1>0, <2>1, <2>2, <2>5 DEF Ordered, MdFollowsJson
  <2> QED
    BY <1>8, <2>1, <2>3, <2>4, <2>5
<1> QED
  BY <1>1, <1>2, <1>3, <1>4, <1>5, <1>6, <1>7, <1>8 DEF Next

(***************************************************************************)
(* The Markdown is never ahead of the JSON, and a start that is done has   *)
(* left both, whatever dies before, between and in the two writes.         *)
(***************************************************************************)
THEOREM NeverAhead == Spec => []MdFollowsJson
<1>1. Ordered => MdFollowsJson
  BY DEF Ordered
<1> QED
  BY <1>1, OrderedInit, OrderedNext, TypeCorrect, PTL DEF Spec

-----------------------------------------------------------------------------
(* The rows.  Of the results so far and the rows so far, as of a report.   *)

Of(rs, b) == {i \in DOMAIN rs : BucketOf[rs[i].test] = b}
With(rs, s) == {i \in DOMAIN rs : rs[i].status = s}

Tallied(rs, rw) ==
    \A b \in Buckets :
      /\ rw[b]["total"] = Cardinality(Of(rs, b))
      /\ \A s \in Statuses : rw[b][s] = Cardinality(Of(rs, b) \cap With(rs, s))
Headed(f) == /\ f.header["total"] = Len(f.results)
             /\ \A s \in Statuses : f.header[s] = Cardinality(With(f.results, s))

TrueReport(f) == Tallied(f.results, f.rows) /\ Headed(f)
True3 == Tallied(results, rows) /\ \A f \in {summary, json, md} : TrueReport(f)

LEMMA EmptyTallied == Tallied(<<>>, NoRows)
<1>1. \A b, s : Of(<<>>, b) = {} /\ Of(<<>>, b) \cap With(<<>>, s) = {}
  BY DEF Of, With
<1> QED
  BY <1>1, FS_EmptySet DEF Tallied, NoRows, Columns

LEMMA BlankTrue == \A text : TrueReport(Blank(text))
<1> SUFFICES ASSUME NEW text PROVE TrueReport(Blank(text))
  OBVIOUS
<1>1. \A s : With(<<>>, s) = {}
  BY DEF With
<1>2. Headed(Blank(text))
  BY <1>1, FS_EmptySet DEF Headed, Blank, Columns
<1> QED
  BY <1>2, EmptyTallied DEF TrueReport, Blank

\* One more result, one more in its row, in its column and in the total.
LEMMA AppendTallied ==
    ASSUME NEW rs \in Results, NEW rw \in [Buckets -> Counts], Tallied(rs, rw),
           NEW t \in Stems, NEW u \in Statuses
    PROVE  Tallied(Append(rs, [test |-> t, status |-> u]),
                   [rw EXCEPT ![BucketOf[t]] = Counted(rw[BucketOf[t]], u)])
<1> DEFINE x == [test |-> t, status |-> u]
           n == Len(rs) + 1
           q == Append(rs, x)
           row == Counted(rw[BucketOf[t]], u)
           w == [rw EXCEPT ![BucketOf[t]] = row]
<1>1. /\ Len(rs) \in Nat /\ DOMAIN rs = 1..Len(rs) /\ n \notin DOMAIN rs
      /\ DOMAIN q = DOMAIN rs \cup {n}
      /\ q[n] = x /\ \A i \in DOMAIN rs : q[i] = rs[i]
  BY DEF Results
<1>2. IsFiniteSet(DOMAIN rs)
  BY <1>1, IntervalSize
<1>3. BucketOf[t] \in Buckets
  BY BucketTypes
<1>4. Column(u) = u /\ u # "total" /\ u \in Columns
  BY DEF Column, Statuses, Columns
<1>5. rw[BucketOf[t]] \in Counts
  BY <1>3
<1>6. /\ row["total"] = rw[BucketOf[t]]["total"] + 1
      /\ \A s \in Statuses : row[s] = IF s = u THEN rw[BucketOf[t]][s] + 1
                                               ELSE rw[BucketOf[t]][s]
  BY <1>4, <1>5 DEF Counted, Counts, Columns, Statuses
<1> SUFFICES ASSUME NEW b \in Buckets
             PROVE  /\ w[b]["total"] = Cardinality(Of(q, b))
                    /\ \A s \in Statuses : w[b][s] = Cardinality(Of(q, b) \cap With(q, s))
  BY DEF Tallied
<1> HIDE DEF q, n, x, row
<1>7. /\ rw[b]["total"] = Cardinality(Of(rs, b))
      /\ \A s \in Statuses : rw[b][s] = Cardinality(Of(rs, b) \cap With(rs, s))
  BY DEF Tallied
<1>8. /\ IsFiniteSet(Of(rs, b)) /\ n \notin Of(rs, b)
      /\ \A s : IsFiniteSet(Of(rs, b) \cap With(rs, s)) /\ n \notin Of(rs, b) \cap With(rs, s)
  BY <1>1, <1>2, FS_Subset DEF Of, With
<1>9. x.test = t /\ x.status = u
  BY DEF x
<1>10. CASE b = BucketOf[t]
  <2>1. Of(q, b) = Of(rs, b) \cup {n}
    BY <1>1, <1>9, <1>10 DEF Of
  <2>2. Of(q, b) \cap With(q, u) = (Of(rs, b) \cap With(rs, u)) \cup {n}
    BY <1>1, <1>9, <1>10 DEF Of, With
  <2>3. \A s : s # u => Of(q, b) \cap With(q, s) = Of(rs, b) \cap With(rs, s)
    BY <1>1, <1>9, <1>10 DEF Of, With
  <2>4. w[b] = row
    BY <1>3, <1>10
  <2>5. Cardinality(Of(q, b)) = Cardinality(Of(rs, b)) + 1
    BY <2>1, <1>8, FS_AddElement
  <2>6. Cardinality(Of(q, b) \cap With(q, u)) = Cardinality(Of(rs, b) \cap With(rs, u)) + 1
    BY <2>2, <1>8, FS_AddElement
  <2> QED
    BY <1>6, <1>7, <1>10, <2>3, <2>4, <2>5, <2>6
<1>11. CASE b # BucketOf[t]
  <2>1. Of(q, b) = Of(rs, b)
    BY <1>1, <1>9, <1>11 DEF Of
  <2>2. \A s : Of(q, b) \cap With(q, s) = Of(rs, b) \cap With(rs, s)
    BY <1>1, <1>9, <1>11 DEF Of, With
  <2>3. w[b] = rw[b]
    BY <1>11
  <2> QED
    BY <1>7, <2>1, <2>2, <2>3
<1> QED
  BY <1>10, <1>11

LEMMA True3Init == Init => True3
BY EmptyTallied, BlankTrue DEF Init, True3, NoFile

LEMMA True3Next == TypeOK /\ True3 /\ [Next]_vars => True3'
<1> SUFFICES ASSUME TypeOK, True3, [Next]_vars PROVE True3'
  OBVIOUS
<1>1. CASE UNCHANGED vars
  BY <1>1 DEF vars, True3
<1>2. ASSUME NEW d \in Dirs, NEW c \in Commands, Start(d, c) PROVE True3'
  BY <1>2, EmptyTallied, BlankTrue DEF Start, True3, NoFile
<1>3. CASE Sweep
  BY <1>3 DEF Sweep, True3
<1>4. CASE Count
  <2> DEFINE t == all[pos]
  <2>1. t \in Stems /\ ledger[t] \in Statuses \cup {"none"}
    BY <1>4, PlaceTypes
  <2>2. CASE ledger[t] = "none"
    BY <1>4, <2>2 DEF Count, True3
  <2>3. CASE ledger[t] # "none"
    <3>1. /\ results' = Append(results, [test |-> t, status |-> ledger[t]])
          /\ rows' = [rows EXCEPT ![BucketOf[t]] = Counted(rows[BucketOf[t]], ledger[t])]
          /\ UNCHANGED <<summary, json, md>>
      BY <1>4, <2>3 DEF Count
    <3>2. results \in Results /\ rows \in [Buckets -> Counts] /\ ledger[t] \in Statuses
      BY <2>1, <2>3 DEF TypeOK
    <3>3. Tallied(results, rows)
      BY DEF True3
    <3>4. Tallied(results', rows')
      BY <2>1, <3>1, <3>2, <3>3, AppendTallied
    <3> QED
      BY <3>1, <3>4 DEF True3
  <2> QED
    BY <2>2, <2>3
<1>5. CASE Summarise
  <2>1. /\ summary'.results = results /\ summary'.rows = rows /\ summary'.header = Header
        /\ UNCHANGED <<results, rows, json, md>>
    BY <1>5 DEF Summarise
  <2>2. Headed(summary')
    BY <2>1, HeaderTypes DEF Headed, With, WithStatus
  <2> QED
    BY <2>1, <2>2 DEF True3, TrueReport
<1>6. CASE WriteJson \/ WriteMd
  BY <1>6 DEF WriteJson, WriteMd, True3
<1>7. CASE Die
  <2>1. /\ results' = <<>> /\ rows' = NoRows /\ summary' = NoFile
        /\ json' \in {json, Cut} /\ md' \in {md, Cut}
    BY <1>7 DEF Die
  <2> QED
    BY <2>1, EmptyTallied, BlankTrue DEF True3, NoFile, Cut
<1> QED
  BY <1>1, <1>2, <1>3, <1>4, <1>5, <1>6, <1>7 DEF Next

LEMMA True3Always == Spec => []True3
BY True3Init, True3Next, TypeCorrect, PTL DEF Spec

(***************************************************************************)
(* The rows of both files are true to the results in them.                 *)
(***************************************************************************)
THEOREM RowsTrue == Spec => []RowsAreTrue
<1>1. True3 => RowsAreTrue
  <2> SUFFICES ASSUME True3, NEW f \in {json, md}, NEW b \in Buckets
               PROVE  /\ f.rows[b]["total"] = Cardinality(In(f, b))
                      /\ \A s \in Statuses :
                           /\ f.rows[b][s] = Cardinality(In(f, b) \cap As(f, s))
                           /\ f.header[s] = Cardinality(As(f, s))
    BY DEF RowsAreTrue
  <2>1. Tallied(f.results, f.rows) /\ Headed(f)
    BY DEF True3, TrueReport
  <2>2. In(f, b) = Of(f.results, b) /\ \A s : As(f, s) = With(f.results, s)
    BY DEF In, Of, As, With
  <2> QED
    BY <2>1, <2>2 DEF Tallied, Headed
<1> QED
  BY <1>1, True3Always, PTL

-----------------------------------------------------------------------------
(* The rates.  One passed test too few is Scale / total of the scale, more *)
(* than the half by which rounding may be wrong.                           *)

LEMMA Rounding ==
    ASSUME NEW p \in Nat, NEW total \in Nat, p <= total, NEW r \in Rates(p, total)
    PROVE  Honest(r, p, total)
<1> SUFFICES ASSUME total < 2 * Scale
             PROVE  (r = 0 <=> p = 0) /\ (r = Scale <=> p = total /\ total > 0)
  BY DEF Honest
<1>1. r \in Nat /\ r <= Scale /\ Scale \in Nat /\ Scale > 0
  BY DEF Rates
<1>2. CASE total = 0
  BY <1>1, <1>2 DEF Rates
<1>3. CASE total > 0
  <2> DEFINE rt == r * total
             ps == p * Scale
  <2>1. 2 * rt <= 2 * ps + total /\ 2 * ps <= 2 * rt + total
    BY <1>3 DEF Rates
  <2>2. rt \in Nat /\ ps \in Nat
    BY <1>1
  <2>3. ASSUME r = 0 PROVE p = 0
    <3>1. rt = 0
      BY <2>3
    <3>2. p >= 1 => ps >= Scale
      BY <1>1
    <3> QED
      BY <1>1, <2>1, <2>2, <3>1, <3>2
  <2>4. ASSUME p = 0 PROVE r = 0
    <3>1. ps = 0
      BY <1>1, <2>4
    <3>2. r >= 1 => rt >= total
      BY <1>1
    <3> QED
      BY <1>1, <1>3, <2>1, <2>2, <3>1, <3>2
  <2>5. ASSUME r = Scale PROVE p = total
    <3>1. rt = Scale * total
      BY <2>5
    <3>2. p <= total - 1 => ps <= Scale * (total - 1)
      BY <1>1
    <3>3. Scale * (total - 1) = Scale * total - Scale
      BY <1>1
    <3> HIDE DEF rt, ps
    <3>4. Scale * total \in Nat
      BY <1>1
    <3> QED
      BY <1>1, <1>3, <2>1, <2>2, <3>1, <3>2, <3>3, <3>4
  <2>6. ASSUME p = total PROVE r = Scale
    <3>1. ps = Scale * total
      BY <1>1, <2>6
    <3>2. r <= Scale - 1 => rt <= (Scale - 1) * total
      BY <1>1
    <3>3. (Scale - 1) * total = Scale * total - total
      BY <1>1
    <3> HIDE DEF rt, ps
    <3>4. Scale * total \in Nat
      BY <1>1
    <3> QED
      BY <1>1, <1>3, <2>1, <2>2, <3>1, <3>2, <3>3, <3>4
  <2> QED
    BY <1>3, <2>3, <2>4, <2>5, <2>6
<1> QED
  BY <1>2, <1>3

\* Out of fewer, the rate is no lower.
LEMMA FewerOutOf ==
    ASSUME NEW p \in Nat, NEW total \in Nat, NEW k \in Nat, k > 0, p + k <= total,
           NEW r \in Rates(p, total), NEW q \in Rates(p, total - k)
    PROVE  r <= q
<1>1. r \in Nat /\ r <= Scale /\ q \in Nat /\ Scale \in Nat /\ total > 0
  BY DEF Rates
<1> DEFINE ps == p * Scale
<1>2. 2 * (r * total) <= 2 * ps + total
  BY <1>1 DEF Rates
<1>3. CASE total = k
  <2>1. p = 0
    BY <1>3
  <2>2. ps = 0
    BY <2>1, <1>1
  <2>3. r >= 1 => r * total >= total
    BY <1>1
  <2>4. r * total \in Nat
    BY <1>1
  <2> QED
    BY <1>1, <1>2, <2>2, <2>3, <2>4
<1>4. CASE total - k > 0
  <2> DEFINE m == total - k
  <2>1. m \in Nat /\ m > 0 /\ total = m + k
    BY <1>4
  <2>2. 2 * ps <= 2 * (q * m) + m
    BY <1>1, <1>4 DEF Rates
  <2>3. SUFFICES ASSUME q <= r - 1 PROVE FALSE
    BY <1>1
  <2> HIDE DEF m, ps
  <2>4. q * m <= (r - 1) * m
    BY <1>1, <2>1, <2>3
  <2>5. (r - 1) * m = r * m - m
    BY <1>1, <2>1
  <2>6. r * total = r * m + r * k
    BY <1>1, <2>1
  <2>7. r >= 1
    BY <1>1, <2>3
  <2>8. r * k >= k
    BY <1>1, <2>7
  <2>9. ps \in Nat /\ q * m \in Nat /\ r * m \in Nat /\ r * k \in Nat /\ r * total \in Nat
    BY <1>1, <2>1 DEF ps
  <2> QED
    BY <1>2, <2>1, <2>2, <2>4, <2>5, <2>6, <2>8, <2>9
<1> QED
  BY <1>3, <1>4

HonestReport(f) ==
    /\ Honest(f.passRate, f.header["pass"], f.header["total"])
    /\ Honest(f.passRateExclSkip, f.header["pass"], f.header["total"] - f.header["skip"])
    /\ \A b \in Buckets : Honest(f.rates[b], f.rows[b]["pass"], f.rows[b]["total"])
    /\ f.passRate <= f.passRateExclSkip
Honest3 == \A f \in {summary, json, md} : HonestReport(f)

LEMMA BlankHonest == \A text : HonestReport(Blank(text))
<1> SUFFICES ASSUME NEW text PROVE HonestReport(Blank(text))
  OBVIOUS
<1> DEFINE f == Blank(text)
<1>1. Honest(0, 0, 0) /\ 0 - 0 = 0 /\ 0 <= 0
  BY DEF Honest
<1>2. f.header["pass"] = 0 /\ f.header["total"] = 0 /\ f.header["skip"] = 0
  BY DEF Blank, Columns, Statuses
<1>3. f.passRate = 0 /\ f.passRateExclSkip = 0
  BY DEF Blank
<1>4. \A b \in Buckets : f.rates[b] = 0 /\ f.rows[b]["pass"] = 0 /\ f.rows[b]["total"] = 0
  BY DEF Blank, NoRows, Columns, Statuses
<1> HIDE DEF f
<1> QED
  BY <1>1, <1>2, <1>3, <1>4 DEF HonestReport, f

LEMMA PassedInRow ==
    ASSUME TypeOK, Tallied(results, rows), NEW b \in Buckets
    PROVE  /\ rows[b]["pass"] \in Nat /\ rows[b]["total"] \in Nat
           /\ rows[b]["pass"] <= rows[b]["total"]
<1>1. rows[b] \in Counts
  BY DEF TypeOK
<1>2. IsFiniteSet(Of(results, b))
  BY HeaderTypes, FS_Subset DEF Of
<1>3. Cardinality(Of(results, b) \cap With(results, "pass")) <= Cardinality(Of(results, b))
  BY <1>2, FS_Subset
<1> QED
  BY <1>1, <1>3 DEF Tallied, Counts, Columns, Statuses

LEMMA PassedInHeader ==
    ASSUME TypeOK
    PROVE  /\ \A c \in {"pass", "skip", "total"} : Header[c] \in Nat
           /\ Header["pass"] + Header["skip"] <= Header["total"]
<1> DEFINE P == WithStatus("pass")
           K == WithStatus("skip")
<1>1. Header \in Counts
  BY HeaderTypes
<1>2. IsFiniteSet(P) /\ IsFiniteSet(K) /\ P \cup K \subseteq DOMAIN results
  BY HeaderTypes, FS_Subset DEF Statuses, WithStatus
<1>3. P \cap K = {}
  BY DEF WithStatus
<1>4. Cardinality(P \cup K) = Cardinality(P) + Cardinality(K) - Cardinality(P \cap K)
  BY <1>2, FS_Union
<1>5. Cardinality(P \cap K) = 0
  BY <1>3, FS_EmptySet
<1>6. Cardinality(P \cup K) <= Cardinality(DOMAIN results)
  BY <1>2, HeaderTypes, FS_Subset
<1>7. /\ Header["pass"] = Cardinality(P) /\ Header["skip"] = Cardinality(K)
      /\ Header["total"] = Cardinality(DOMAIN results)
  BY HeaderTypes DEF Statuses
<1>8. \A c \in {"pass", "skip", "total"} : Header[c] \in Nat
  BY <1>1 DEF Counts, Columns, Statuses
<1> HIDE DEF P, K
<1> QED
  BY <1>4, <1>5, <1>6, <1>7, <1>8

LEMMA SummaryHonest == TypeOK /\ True3 /\ Summarise => HonestReport(summary')
<1> SUFFICES ASSUME TypeOK, True3, Summarise PROVE HonestReport(summary')
  OBVIOUS
<1> DEFINE p == Header["pass"]
           k == Header["skip"]
           total == Header["total"]
<1>1. PICK rates \in [Buckets -> 0..Scale], rate \in 0..Scale, exclSkip \in 0..Scale :
        /\ \A b \in Buckets : rates[b] \in Rates(rows[b]["pass"], rows[b]["total"])
        /\ rate \in Rates(p, total)
        /\ IF k = 0 THEN exclSkip = rate ELSE exclSkip \in Rates(p, total - k)
        /\ summary' = [text |-> "whole", run |-> run, results |-> results, rows |-> rows,
                       rates |-> rates, header |-> Header, passRate |-> rate,
                       passRateExclSkip |-> exclSkip]
  BY DEF Summarise
<1>2. p \in Nat /\ k \in Nat /\ total \in Nat /\ p + k <= total
  BY PassedInHeader
<1>3. /\ summary'.rows = rows /\ summary'.rates = rates /\ summary'.header = Header
      /\ summary'.passRate = rate /\ summary'.passRateExclSkip = exclSkip
  BY <1>1
<1> HIDE DEF p, k, total
<1>4. Honest(rate, p, total)
  BY <1>1, <1>2, Rounding
<1>5. Honest(exclSkip, p, total - k) /\ rate <= exclSkip
  <2>1. CASE k = 0
    BY <1>1, <1>2, <1>4, <2>1
  <2>2. CASE k # 0
    <3>1. total - k \in Nat /\ p <= total - k /\ k > 0
      BY <1>2, <2>2
    <3>2. exclSkip \in Rates(p, total - k)
      BY <1>1, <2>2
    <3>3. Honest(exclSkip, p, total - k)
      BY <1>2, <3>1, <3>2, Rounding
    <3>4. rate <= exclSkip
      BY <1>1, <1>2, <3>1, <3>2, FewerOutOf
    <3> QED
      BY <3>3, <3>4
  <2> QED
    BY <2>1, <2>2
<1>6. \A b \in Buckets : Honest(rates[b], rows[b]["pass"], rows[b]["total"])
  BY <1>1, PassedInRow, Rounding DEF True3
<1> QED
  BY <1>3, <1>4, <1>5, <1>6 DEF HonestReport, p, k, total

LEMMA Honest3Next == TypeOK /\ True3 /\ Honest3 /\ [Next]_vars => Honest3'
<1> SUFFICES ASSUME TypeOK, True3, Honest3, [Next]_vars PROVE Honest3'
  OBVIOUS
<1>1. CASE UNCHANGED <<summary, json, md>>
  BY <1>1 DEF Honest3
<1>2. ASSUME NEW d \in Dirs, NEW c \in Commands, Start(d, c) PROVE Honest3'
  BY <1>2, BlankHonest DEF Start, Honest3, NoFile
<1>3. CASE Summarise
  <2>1. UNCHANGED <<json, md>>
    BY <1>3 DEF Summarise
  <2> QED
    BY <1>3, <2>1, SummaryHonest DEF Honest3
<1>4. CASE WriteJson \/ WriteMd
  BY <1>4 DEF WriteJson, WriteMd, Honest3
<1>5. CASE Die
  <2>1. summary' = NoFile /\ json' \in {json, Cut} /\ md' \in {md, Cut}
    BY <1>5 DEF Die
  <2> QED
    BY <2>1, BlankHonest DEF Honest3, NoFile, Cut
<1>6. CASE Sweep \/ Count \/ UNCHANGED vars
  BY <1>1, <1>6 DEF Sweep, Count, vars
<1> QED
  BY <1>2, <1>3, <1>4, <1>5, <1>6 DEF Next

(***************************************************************************)
(* The rates of both files are honest.                                     *)
(***************************************************************************)
THEOREM HonestRates == Spec => []RatesAreHonest
<1>1. Init => Honest3
  BY BlankHonest DEF Init, Honest3, NoFile
<1>2. Honest3 => RatesAreHonest
  BY DEF Honest3, HonestReport, RatesAreHonest
<1> QED
  BY <1>1, <1>2, Honest3Next, True3Always, TypeCorrect, PTL DEF Spec
=============================================================================
