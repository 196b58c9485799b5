--------------------------- MODULE MCQuestJournal ---------------------------
(***************************************************************************)
(* The quest journal on small instances: the quests are numbers, the rest  *)
(* of the constants is given in the configurations.                        *)
(***************************************************************************)
EXTENDS QuestJournalInvariant
=============================================================================
