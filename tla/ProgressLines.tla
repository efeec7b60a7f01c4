--------------------------- MODULE ProgressLines ----------------------------
(***************************************************************************)
(* progress.jsonl as the text it is, and readLedger as the code has it.    *)
(* ProgressFile has a summary of that text instead, which is all that      *)
(* Corpus needs; here is what it is a summary of.                          *)
(*                                                                         *)
(* A file is the sequence of what has been written to it: whole records,   *)
(* newlines, and what a death in the middle of a record has left of it.    *)
(***************************************************************************)
EXTENDS ProgressFile, Sequences

Whole   == [test : Tests, status : Outcomes]
Part    == [test |-> 0, status |-> "part"]
NewLine == [test |-> 0, status |-> "newline"]
Files   == Seq(Whole \cup {Part, NewLine})

\* readLedger: split at the newlines, JSON.parse each line, which takes a line
\* that is one whole record and rejects every other.
StartsLine(f, i) == i = 1 \/ f[i - 1] = NewLine
EndsLine(f, i) == i = Len(f) \/ f[i + 1] = NewLine
Parsed(f) == {i \in 1 .. Len(f) : f[i] \in Whole /\ StartsLine(f, i) /\ EndsLine(f, i)}

\* The last line wins: of the records at positions P, the last one of test t.
LastIn(f, P, t) == {i \in P : f[i].test = t /\ \A j \in P : f[j].test = t => j <= i}
LastStatus(f, P, t) == IF LastIn(f, P, t) = {} THEN "none"
                       ELSE f[CHOOSE i \in LastIn(f, P, t) : TRUE].status
ReadFile(f) == [t \in Tests |-> LastStatus(f, Parsed(f), t)]

\* appendFileSync(progressPath, JSON.stringify(rec) + "\n"): completed, cut
\* off, or not begun; and rmSync.
Completed(f) == {f \o <<r, NewLine>> : r \in Whole}
CutOff(f) == {f \o <<p>> : p \in Whole \cup {Part}}
Written(f) == {f, <<>>} \cup Completed(f) \cup CutOff(f)

-----------------------------------------------------------------------------
(* The summary: what the lines that end in a newline say, and what stands  *)
(* after the last newline.                                                 *)
Terminated(f) == Parsed(f) \ {Len(f)}
LedgerOf(f) == [t \in Tests |-> LastStatus(f, Terminated(f), t)]
TailOf(f) == IF f = <<>> \/ f[Len(f)] = NewLine THEN Clean
             ELSE IF Len(f) \in Parsed(f) THEN f[Len(f)] ELSE Junk

\* The variables of ProgressFile are the summary of f.
SumsUp(f) == ledger = LedgerOf(f) /\ tail = TailOf(f)
=============================================================================
