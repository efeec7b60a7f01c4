-------------------------------- MODULE Report --------------------------------
(***************************************************************************)
(* What a sweep selects and what it reports: resolveTestSet of             *)
(* corpus-lib.mjs at the start of run-corpus.mjs, and at its end           *)
(* writeOutputs, with the aggregation, the rates and the two files of      *)
(* corpus-format.mjs.  Between the two the ledger grows as it likes (that  *)
(* is Corpus).  A start may die in any place, also while it writes a file; *)
(* both files stay for the next one.                                       *)
(*                                                                         *)
(* A file name is a stem with or without test- before it and .js behind    *)
(* it.  Stems are numbers in sort order; Words splits them at the hyphens. *)
(***************************************************************************)
EXTENDS Integers, Sequences, FiniteSets

CONSTANTS Stems,     \* the names test-<stem>.js may have
          Words,     \* of each stem
          Plain,     \* the words of the form [a-z][a-z0-9]*
          Dirs,      \* what test/parallel may hold: sets of Files
          Commands,  \* the command lines, see below
          Scale,     \* 10000: a rate is in hundredths of a percent
          MaxRuns    \* bound: how often run-corpus.mjs is started

Files == [stem : Stems, prefix : BOOLEAN, suffix : BOOLEAN]

\* A line of a manifest; the stem of a blank one, or of a comment, is 0.
Lines == [stem : Stems \cup {0}, prefix : BOOLEAN, suffix : BOOLEAN]

\* listFile: there is a manifest.  filters: each is the set of stems that
\* contain it.  limit: LIMIT.
CommandOK(c) == /\ c.listFile \in BOOLEAN /\ c.manifest \in Seq(Lines)
                /\ c.filters \subseteq SUBSET Stems
                /\ c.limit \in Nat

ASSUME ReportAssumption ==
    /\ IsFiniteSet(Stems) /\ Stems \subseteq Nat \ {0}
    /\ DOMAIN Words = Stems
    /\ Dirs \subseteq SUBSET Files
    /\ \A c \in Commands : CommandOK(c)
    /\ Scale \in Nat \ {0} /\ MaxRuns \in Nat

Statuses == {"pass", "fail", "timeout", "crash", "skip"}
Columns == Statuses \cup {"total"}

-----------------------------------------------------------------------------
(* bucketFor, on the words of a stem.  A bucket is its words.              *)

MultiWord == {<<"async", "hooks">>, <<"perf", "hooks">>, <<"child", "process">>,
              <<"string", "decoder">>, <<"diagnostics", "channel">>,
              <<"trace", "events">>, <<"readline", "promises">>,
              <<"fs", "promises">>, <<"timers", "promises">>}

bucketFor(w) ==
    IF Len(w) > 2 /\ SubSeq(w, 1, 2) \in MultiWord THEN SubSeq(w, 1, 2)
    ELSE IF w[1] \in {"event", "events"} /\ (Len(w) > 1 \/ w = <<"events">>) THEN <<"events">>
    ELSE IF w[1] = "worker" /\ Len(w) > 1 THEN <<"worker_threads">>
    ELSE IF w[1] \in Plain THEN <<w[1]>> ELSE <<"_misc">>

BucketOf == [s \in Stems |-> bucketFor(Words[s])]
Buckets == {BucketOf[s] : s \in Stems}

-----------------------------------------------------------------------------
VARIABLES
  dir,      \* test/parallel
  ledger,   \* the status of each test with a record, "none" for the others
  command,  \* the command line
  all,      \* ALL
  phase,    \* idle, sweep, count, json, md or done
  pos,      \* where the loop over ALL is
  results,  \* results, so far
  rows,     \* aggregateByBucket, so far
  summary,  \* what writeJsonResults returns
  json,     \* corpus-results.json and corpus-summary.md: NoFile, Cut
  md,       \*   or a summary
  run       \* the number of the start, bounded by MaxRuns

vars == <<dir, ledger, command, all, phase, pos, results, rows, summary, json, md, run>>

NoRecords == [s \in Stems |-> "none"]
NoRows == [b \in Buckets |-> [c \in Columns |-> 0]]
Blank(text) == [text |-> text, run |-> 0, results |-> <<>>, rows |-> NoRows,
                rates |-> [b \in Buckets |-> 0], header |-> [c \in Columns |-> 0],
                passRate |-> 0, passRateExclSkip |-> 0]
NoFile == Blank("none")
Cut == Blank("cut")

Counts == [Columns -> Nat]
Results == Seq([test : Stems, status : Statuses])
Summaries == [text : {"none", "cut", "whole"}, run : Nat, results : Results,
              rows : [Buckets -> Counts], rates : [Buckets -> 0..Scale], header : Counts,
              passRate : 0..Scale, passRateExclSkip : 0..Scale]

TypeOK ==
    /\ dir \in Dirs
    /\ ledger \in [Stems -> Statuses \cup {"none"}]
    /\ command \in Commands
    /\ all \in Seq(Stems)
    /\ phase \in {"idle", "sweep", "count", "json", "md", "done"}
    /\ pos \in 1..(Len(all) + 1)
    /\ results \in Results
    /\ rows \in [Buckets -> Counts]
    /\ summary \in Summaries /\ json \in Summaries /\ md \in Summaries
    /\ run \in 0..MaxRuns

Init ==
    /\ dir \in Dirs /\ command \in Commands
    /\ ledger = NoRecords
    /\ all = <<>> /\ pos = 1 /\ phase = "idle"
    /\ results = <<>> /\ rows = NoRows /\ summary = NoFile
    /\ json = NoFile /\ md = NoFile
    /\ run = 0

-----------------------------------------------------------------------------
(* Selection.                                                              *)

\* The one ascending sequence of the elements of S, as a set.
Sorted(S) == {q \in [1..Cardinality(S) -> S] : \A i, j \in DOMAIN q : i < j => q[i] < q[j]}

Slice(q, n) == IF n > 0 /\ n < Len(q) THEN [i \in 1..n |-> q[i]] ELSE q

Tests(d) == {f \in d : f.prefix /\ f.suffix}
Matches(s, filters) == filters = {} \/ \E f \in filters : s \in f

\* (Sliced first: LIMIT is applied to the directory.)
selectTestsSlicedFirst(d, filters, limit) ==
    UNION {Sorted({s \in {Slice(q, limit)[i] : i \in DOMAIN Slice(q, limit)} :
                     Matches(s, filters)}) : q \in Sorted({f.stem : f \in Tests(d)})}
selectTests(d, filters, limit) ==
    {Slice(q, limit) : q \in Sorted({f.stem : f \in {g \in Tests(d) : Matches(g.stem, filters)}})}

\* Whatever its spelling, an id becomes test-*.js.
idsFromListFile(manifest) ==
    {[stem |-> manifest[i].stem, prefix |-> TRUE, suffix |-> TRUE] :
       i \in {j \in DOMAIN manifest : manifest[j].stem # 0}}

resolveTestSet(d, c) ==
    IF c.listFile THEN Sorted({f.stem : f \in idsFromListFile(c.manifest) \cap d})
    ELSE selectTests(d, c.filters, c.limit)

\* A start, with any command line, on what test/parallel holds by then; with
\* --fresh it removes the ledger.
Start(d, c) ==
    /\ phase \in {"idle", "done"} /\ run < MaxRuns
    /\ dir' = d /\ command' = c
    /\ all' \in resolveTestSet(d, c)
    /\ ledger' \in {ledger, NoRecords}
    /\ phase' = "sweep" /\ run' = run + 1
    /\ pos' = 1 /\ results' = <<>> /\ rows' = NoRows /\ summary' = NoFile
    /\ UNCHANGED <<json, md>>

\* The sweep ends, or is aborted; tests outside ALL have records from other
\* starts.  writeOutputs reads the ledger.
Sweep ==
    /\ phase = "sweep"
    /\ ledger' \in [Stems -> Statuses \cup {"none"}]
    /\ \A s \in Stems : ledger[s] # "none" \/ (\A i \in DOMAIN all : all[i] # s)
                          => ledger'[s] = ledger[s]
    /\ phase' = "count"
    /\ UNCHANGED <<dir, command, all, pos, results, rows, summary, json, md, run>>

-----------------------------------------------------------------------------
(* The report.                                                             *)

\* The column of a status.
ColumnWithoutCrash(s) == IF s \in {"pass", "skip", "timeout"} THEN s ELSE "fail"
Column(s) == IF s \in {"pass", "skip", "timeout", "crash"} THEN s ELSE "fail"
Counted(row, s) == [row EXCEPT ![Column(s)] = @ + 1, !["total"] = @ + 1]

\* The loop over ALL that filters results, and the one that aggregates them,
\* one test at a time.  (Unfiltered: the tests without a record as well.)
CountUnfiltered ==
    /\ phase = "count" /\ pos <= Len(all)
    /\ pos' = pos + 1
    /\ LET t == all[pos]  s == ledger[t]  b == BucketOf[t]
       IN  /\ results' = Append(results, [test |-> t, status |-> s])
           /\ rows' = [rows EXCEPT ![b] = Counted(rows[b], s)]
    /\ UNCHANGED <<dir, ledger, command, all, phase, summary, json, md, run>>
Count ==
    /\ phase = "count" /\ pos <= Len(all)
    /\ pos' = pos + 1
    /\ LET t == all[pos]  s == ledger[t]  b == BucketOf[t]
       IN  IF s = "none" THEN UNCHANGED <<results, rows>>
           ELSE /\ results' = Append(results, [test |-> t, status |-> s])
                /\ rows' = [rows EXCEPT ![b] = Counted(rows[b], s)]
    /\ UNCHANGED <<dir, ledger, command, all, phase, summary, json, md, run>>

\* Math.round: the nearest number, either of the two when p/total is in the
\* middle, as the quotient has been rounded before.  (Up: Math.ceil.)
RatesUp(p, total) ==
    {r \in 0..Scale : IF total = 0 THEN r = 0
                      ELSE r * total >= p * Scale /\ (r - 1) * total < p * Scale}
Rates(p, total) ==
    {r \in 0..Scale : IF total = 0 THEN r = 0
                      ELSE /\ 2 * (r * total) <= 2 * (p * Scale) + total
                           /\ 2 * (p * Scale) <= 2 * (r * total) + total}

WithStatus(s) == {i \in DOMAIN results : results[i].status = s}
Header == [c \in Columns |-> IF c = "total" THEN Len(results)
                                            ELSE Cardinality(WithStatus(c))]

AfterSwapped == [count |-> "md", md |-> "json", json |-> "done"]
After == [count |-> "json", json |-> "md", md |-> "done"]

\* The rest of writeJsonResults up to the write.
Summarise ==
    /\ phase = "count" /\ pos > Len(all)
    /\ \E rates \in [Buckets -> 0..Scale], rate, exclSkip \in 0..Scale :
         /\ \A b \in Buckets : rates[b] \in Rates(rows[b]["pass"], rows[b]["total"])
         /\ rate \in Rates(Header["pass"], Header["total"])
         /\ IF Header["skip"] = 0 THEN exclSkip = rate
            ELSE exclSkip \in Rates(Header["pass"], Header["total"] - Header["skip"])
         /\ summary' = [text |-> "whole", run |-> run, results |-> results, rows |-> rows,
                        rates |-> rates, header |-> Header, passRate |-> rate,
                        passRateExclSkip |-> exclSkip]
    /\ phase' = After["count"]
    /\ UNCHANGED <<dir, ledger, command, all, pos, results, rows, json, md, run>>

WriteJson ==
    /\ phase = "json"
    /\ json' = summary
    /\ phase' = After["json"]
    /\ UNCHANGED <<dir, ledger, command, all, pos, results, rows, summary, md, run>>

WriteMd ==
    /\ phase = "md"
    /\ md' = summary
    /\ phase' = After["md"]
    /\ UNCHANGED <<dir, ledger, command, all, pos, results, rows, summary, json, run>>

\* The start dies; a file it was writing may be left truncated.
Die ==
    /\ phase \notin {"idle", "done"}
    /\ json' \in {json} \cup IF phase = "json" THEN {Cut} ELSE {}
    /\ md' \in {md} \cup IF phase = "md" THEN {Cut} ELSE {}
    /\ phase' = "idle"
    /\ all' = <<>> /\ pos' = 1 /\ results' = <<>> /\ rows' = NoRows /\ summary' = NoFile
    /\ UNCHANGED <<dir, ledger, command, run>>

Next ==
    \/ \E d \in Dirs, c \in Commands : Start(d, c)
    \/ Sweep \/ Count \/ Summarise \/ WriteJson \/ WriteMd \/ Die

Spec == Init /\ [][Next]_vars

-----------------------------------------------------------------------------
(* Properties.                                                             *)

Wanted ==
    {s \in Stems : /\ [stem |-> s, prefix |-> TRUE, suffix |-> TRUE] \in dir
                   /\ IF command.listFile
                      THEN \E i \in DOMAIN command.manifest : command.manifest[i].stem = s
                      ELSE Matches(s, command.filters)}
Chosen == {all[i] : i \in DOMAIN all}

(***************************************************************************)
(* ALL is what the command line asks for: the tests that exist, each once  *)
(* and in order, however a manifest spells and repeats them; of the tests  *)
(* the filters match, LIMIT takes the first ones, and with a manifest none *)
(* is left out (corpus-lib.mjs 20-28 and 53-76).                           *)
(***************************************************************************)
SelectionIsRight ==
    phase # "idle" =>
      /\ \A i, j \in DOMAIN all : i < j => all[i] < all[j]
      /\ Chosen \subseteq Wanted
      /\ \A s \in Wanted \ Chosen :
           /\ ~command.listFile /\ command.limit > 0
           /\ Len(all) = command.limit
           /\ \A t \in Chosen : t < s

(***************************************************************************)
(* The rows of a report are true to the results in it: each result is      *)
(* counted once, in the row of its module and in the column of its status, *)
(* and so in the header (corpus-format.mjs, aggregateByBucket and the      *)
(* filters of writeJsonResults count them apart).                          *)
(***************************************************************************)
In(f, b) == {i \in DOMAIN f.results : BucketOf[f.results[i].test] = b}
As(f, s) == {i \in DOMAIN f.results : f.results[i].status = s}
RowsAreTrue ==
    \A f \in {json, md} : \A b \in Buckets :
      /\ f.rows[b]["total"] = Cardinality(In(f, b))
      /\ \A s \in Statuses : /\ f.rows[b][s] = Cardinality(In(f, b) \cap As(f, s))
                             /\ f.header[s] = Cardinality(As(f, s))

(***************************************************************************)
(* Rounding hides nothing: of fewer than 20000 tests, 100% means that all  *)
(* have passed, and 0% that none has, in each row and in the header; and   *)
(* leaving out the skipped ones never lowers the rate (corpus-format.mjs   *)
(* 67 and 82-92).                                                          *)
(***************************************************************************)
Honest(rate, passed, total) ==
    total < 2 * Scale => /\ rate = 0 <=> passed = 0
                         /\ rate = Scale <=> passed = total /\ total > 0
RatesAreHonest ==
    \A f \in {json, md} :
      /\ Honest(f.passRate, f.header["pass"], f.header["total"])
      /\ Honest(f.passRateExclSkip, f.header["pass"],
                f.header["total"] - f.header["skip"])
      /\ \A b \in Buckets : Honest(f.rates[b], f.rows[b]["pass"], f.rows[b]["total"])
      /\ f.passRate <= f.passRateExclSkip

(***************************************************************************)
(* The Markdown is never ahead of the JSON, whatever dies between the two  *)
(* or in one of them: it shows the same report or one of an earlier start; *)
(* and a start that is done has left both (run-corpus.mjs 111-112).        *)
(***************************************************************************)
MdFollowsJson ==
    /\ md.text = "whole" => json.text = "cut" \/ (json.text = "whole" /\ md.run <= json.run)
    /\ md.text = "whole" /\ md.run = json.run => md = json
    /\ phase = "done" => md = json /\ json.text = "whole" /\ json.run = run
=============================================================================
