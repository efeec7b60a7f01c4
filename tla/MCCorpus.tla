------------------------------ MODULE MCCorpus ------------------------------
(***************************************************************************)
(* Instances of Corpus for TLC, and the reader of ProgressLines against    *)
(* one that goes through the text in the code's order.                     *)
(***************************************************************************)
EXTENDS Corpus, ProgressLines, TLC

S == INSTANCE SequencesExt

Everything == {Tests}
One == {1}
Two == {1, 2}
Three == {1, 2, 3}

PidSymmetry == Permutations(Pids)

\* for (const line of text.split("\n")) ... map.set(e.test, e)
SplitAtNewLines(f) ==
    S!FoldLeft(LAMBDA lines, x : IF x = NewLine THEN Append(lines, <<>>)
                                 ELSE [lines EXCEPT ![Len(lines)] = Append(@, x)],
               <<<<>>>>, f)
Parse(map, line) == IF Len(line) = 1 /\ line[1] \in Whole
                      THEN [map EXCEPT ![line[1].test] = line[1].status] ELSE map
LineByLine(f) == S!FoldLeft(Parse, NoRecords, SplitAtNewLines(f))

\* Bound: texts of at most four pieces.
ASSUME ReadersAgree ==
    \A n \in 0 .. 4 : \A f \in [1 .. n -> Whole \cup {Part, NewLine}] :
        LineByLine(f) = ReadFile(f)
=============================================================================
