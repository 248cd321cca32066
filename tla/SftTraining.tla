---------------------------- MODULE SftTraining ----------------------------
(***************************************************************************)
(* ml/train.py on the output of enrich_dataset.py: every start splits the  *)
(* rows, freezes the test part in a file, and trains, perhaps from the     *)
(* last checkpoint a session that died has left; the adapter is saved and  *)
(* the test part evaluated at the end.                                     *)
(*                                                                         *)
(* Of the weights the model keeps how often each row was learned (seen).   *)
(* A step learns one row; the Trainer's data order and its checkpoints are *)
(* external.                                                               *)
(***************************************************************************)
EXTENDS EnrichDataset

CONSTANTS Shuffle,     \* Shuffle[seed][n]: the order train_test_split takes n rows in
          Seed,        \* 42
          Epochs,
          SaveSteps,
          Encodes,     \* samples whose assembly _encode_to_hex encodes
          MaxSft       \* bound: how many times the script is started

ASSUME SftAssumption == Epochs \in Nat

VARIABLES sfPc,        \* where the script is
          sfSplit,     \* train, val and test of this start
          sfTestFile,  \* data/test_split.jsonl: its rows, whole or not
          sfStep,      \* global_step
          sfTotal,     \* max_steps of the Trainer
          sfSeen,      \* how often the weights have learned each row
          sfCkpts,     \* checkpoint-N directories: step, seen, whole or not
          sfAdapter,   \* sft_adapter: what it has seen, whole or not
          sfRates,     \* the pass rates logged, as sets of samples that passed
          sfStarts

sfVars == <<sfPc, sfSplit, sfTestFile, sfStep, sfTotal, sfSeen, sfCkpts, sfAdapter, sfRates, sfStarts>>

Unseen == [s \in Samples |-> 0]

NoSplit == [train |-> <<>>, val |-> <<>>, test |-> <<>>]

SfInit ==
    /\ sfPc = "idle" /\ sfSplit = NoSplit
    /\ sfTestFile = [rows |-> <<>>, whole |-> FALSE]
    /\ sfStep = 0 /\ sfTotal = 0 /\ sfSeen = Unseen /\ sfCkpts = {}
    /\ sfAdapter = [seen |-> Unseen, whole |-> FALSE]
    /\ sfRates = [val |-> {}, test |-> {}] /\ sfStarts = 0

\* The process ends and forgets.
SfForget == sfPc' = "idle" /\ sfSplit' = NoSplit /\ sfStep' = 0 /\ sfTotal' = 0 /\ sfSeen' = Unseen

-----------------------------------------------------------------------------
(* load_and_split *)

\* The rows of the file; a line json.loads refuses raises.
Loadable(file) == file # <<>> /\ \A k \in DOMAIN file : file[k].kind # "junk"
DataRows(file) ==
    LET rows == ItemsAt(file, {k \in DOMAIN file : file[k].kind = "row"})
    IN  [k \in DOMAIN rows |-> rows[k].sample]

\* train_test_split with stratify, for a share of num in 100: each class gives its
\* part, in the seeded order.  It refuses a class with one member, a part with
\* fewer rows than there are classes, and to leave no rows.
Label(s) == s \in Valid
Part(n, num) == (n * num + 99) \div 100
Chosen(rows, num, seed) ==
    LET order == Shuffle[seed][Len(rows)]
        at(c) == ItemsAt(order, {j \in DOMAIN order : Label(rows[order[j]]) = c})
        take(c) == {at(c)[j] : j \in 1 .. Part(Len(at(c)), num)}
    IN  take(TRUE) \cup take(FALSE)
Splits(rows, num, seed) ==
    LET classes == {Label(rows[k]) : k \in DOMAIN rows}
        apart == Part(Len(rows), num)
    IN  /\ rows # <<>>
        /\ \A c \in classes : Quantify(DOMAIN rows, LAMBDA k : Label(rows[k]) = c) >= 2
        /\ apart >= Cardinality(classes) /\ Len(rows) - apart >= Cardinality(classes)
        /\ DOMAIN rows \ Chosen(rows, num, seed) # {}
TrainTestSplit(rows, num, seed) ==
    LET apart == Chosen(rows, num, seed)
    IN  [rest |-> ItemsAt(rows, DOMAIN rows \ apart), part |-> ItemsAt(rows, apart)]

\* 15 in 100 for the test, then 15 in 85 (18 in 100, rounded) of the rest.
SplitSeed == Seed
LoadAndSplit(file) ==
    LET first  == TrainTestSplit(DataRows(file), 15, SplitSeed)
        second == TrainTestSplit(first.rest, 18, SplitSeed)
    IN  [train |-> second.rest, val |-> second.part, test |-> first.part]
CanSplit(file) ==
    /\ Splits(DataRows(file), 15, SplitSeed)
    /\ Splits(TrainTestSplit(DataRows(file), 15, SplitSeed).rest, 18, SplitSeed)

-----------------------------------------------------------------------------
(* main *)

\* The script ends at once without data; load_and_split may raise.
SfStart ==
    /\ sfPc = "idle" /\ sfStarts < MaxSft
    /\ sfStarts' = sfStarts + 1
    /\ IF Loadable(enFile) /\ CanSplit(enFile)
       THEN sfPc' = "freezing" /\ sfSplit' = LoadAndSplit(enFile)
       ELSE UNCHANGED <<sfPc, sfSplit>>
    /\ UNCHANGED <<sfTestFile, sfStep, sfTotal, sfSeen, sfCkpts, sfAdapter, sfRates>>

\* save_test_split, before any model is loaded.
SfFreeze ==
    /\ sfPc = "freezing"
    /\ sfTestFile' = [rows |-> sfSplit.test, whole |-> TRUE]
    /\ sfPc' = "loading"
    /\ UNCHANGED <<sfSplit, sfStep, sfTotal, sfSeen, sfCkpts, sfAdapter, sfRates, sfStarts>>

\* trainer.train: get_last_checkpoint takes the highest number; what a crash left
\* of a checkpoint cannot be loaded.  A plausible slip: the step is not restored.
LastCkpt == CHOOSE c \in sfCkpts : \A d \in sfCkpts : d.step <= c.step
FaultyRestored(c) == [step |-> 0, seen |-> c.seen]
Restored(c) == [step |-> c.step, seen |-> c.seen]
SfTrain(resume, maxSteps) ==
    /\ sfPc = "loading"
    /\ LET from == IF resume /\ sfCkpts # {} THEN LastCkpt ELSE [step |-> 0, seen |-> Unseen, whole |-> TRUE]
       IN  IF from.whole
           THEN /\ sfStep' = Restored(from).step /\ sfSeen' = Restored(from).seen /\ sfPc' = "training"
                /\ sfTotal' = IF maxSteps > 0 THEN maxSteps ELSE Epochs * Len(sfSplit.train)
                /\ UNCHANGED sfSplit
           ELSE SfForget
    /\ UNCHANGED <<sfTestFile, sfCkpts, sfAdapter, sfRates, sfStarts>>

\* One optimizer step: each epoch takes every row of the train part once.
SfLearn ==
    /\ sfPc = "training" /\ sfStep < sfTotal
    /\ sfSeen' = [sfSeen EXCEPT ![sfSplit.train[(sfStep % Len(sfSplit.train)) + 1]] = @ + 1]
    /\ sfStep' = sfStep + 1
    /\ sfPc' = IF sfStep' % SaveSteps = 0 \/ sfStep' = sfTotal THEN "saving" ELSE "training"
    /\ UNCHANGED <<sfSplit, sfTestFile, sfTotal, sfCkpts, sfAdapter, sfRates, sfStarts>>

\* The evaluation that goes with a checkpoint logs the share of completions that
\* encode; the checkpoint replaces one of the same number.
PutCkpt(whole) ==
    {c \in sfCkpts : c.step # sfStep} \cup {[step |-> sfStep, seen |-> sfSeen, whole |-> whole]}
SfSave(completed) ==
    /\ sfPc = "saving"
    /\ completed \subseteq Range(sfSplit.val)
    /\ sfRates' = [sfRates EXCEPT !.val = completed]
    /\ sfCkpts' = PutCkpt(TRUE)
    /\ sfPc' = "training"
    /\ UNCHANGED <<sfSplit, sfTestFile, sfStep, sfTotal, sfSeen, sfAdapter, sfStarts>>

SfSaveModel ==
    /\ sfPc = "training" /\ sfStep >= sfTotal
    /\ sfAdapter' = [seen |-> sfSeen, whole |-> TRUE]
    /\ sfPc' = "evaluating"
    /\ UNCHANGED <<sfSplit, sfTestFile, sfStep, sfTotal, sfSeen, sfCkpts, sfRates, sfStarts>>

\* evaluate_test_split encodes the whole output, the prompt and the reference
\* assembly in it included, so a reference that encodes passes by itself.
SfEvaluateTest(completed) ==
    /\ sfPc = "evaluating"
    /\ completed \subseteq Range(sfSplit.test)
    /\ sfRates' = [sfRates EXCEPT !.test = completed \cup (Encodes \cap Range(sfSplit.test))]
    /\ SfForget
    /\ UNCHANGED <<sfTestFile, sfCkpts, sfAdapter, sfStarts>>

\* The session dies; what it was writing may be torn.
SfCrash ==
    /\ sfPc # "idle" /\ SfForget
    /\ sfTestFile' \in {sfTestFile} \cup
         (IF sfPc = "freezing"
          THEN {[rows |-> SubSeq(sfSplit.test, 1, k), whole |-> FALSE] : k \in 0 .. Len(sfSplit.test) - 1} ELSE {})
    /\ sfCkpts' \in {sfCkpts} \cup (IF sfPc = "saving" THEN {PutCkpt(FALSE)} ELSE {})
    /\ sfAdapter' \in {sfAdapter} \cup
         (IF sfPc = "training" /\ sfStep >= sfTotal THEN {[seen |-> sfSeen, whole |-> FALSE]} ELSE {})
    /\ UNCHANGED <<sfRates, sfStarts>>

SfStep ==
    \/ SfFreeze \/ SfLearn \/ SfSaveModel
    \/ \E resume \in BOOLEAN, maxSteps \in {-1, 1} : SfTrain(resume, maxSteps)
    \/ \E completed \in {{}, Range(sfSplit.val)} : SfSave(completed)
    \/ \E completed \in {{}, Range(sfSplit.test)} : SfEvaluateTest(completed)

SfNext == SfStart \/ SfStep \/ SfCrash

-----------------------------------------------------------------------------

\* "--resume continues" (ml/train.py:347-357): as long as the data has not grown,
\* an adapter that was trained for all epochs has learned each row of the train
\* part exactly Epochs times, a program that has several rows that many times
\* more, and no row of the frozen test file or of the validation part (but a
\* program with rows in several parts), however many sessions died on the way,
\* with or without --resume, smoke runs in the same directory included.
AdapterSawTrainOnce ==
    sfPc = "evaluating" /\ enRuns = 1 =>
      /\ sfTestFile.whole
      /\ IsInjective(DataRows(enFile)) =>
           \A s \in Range(sfTestFile.rows) \cup Range(sfSplit.val) : sfAdapter.seen[s] = 0
      /\ sfTotal = Epochs * Len(sfSplit.train) /\ sfStep = sfTotal =>
           \A s \in Range(sfSplit.train) :
             sfAdapter.seen[s] = Epochs * Quantify(DOMAIN sfSplit.train, LAMBDA k : sfSplit.train[k] = s)
=============================================================================
