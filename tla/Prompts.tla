-------------------------------- MODULE Prompts --------------------------------
(***************************************************************************)
(* The questions of one command: lines of an input that one goroutine      *)
(* reads ahead of them, or keys of a terminal for a selection.  A person or*)
(* a script enters lines whenever it likes, and the keys of a terminal are *)
(* what is entered while a selection draws.                                *)
(***************************************************************************)
EXTENDS Naturals, Sequences, SequencesExt

CONSTANTS
  MaxLines,       \* a bound on what is entered
  MaxQuestions    \* a bound on the questions

ASSUME PromptAssumption == MaxLines \in Nat /\ MaxQuestions \in Nat

Kind == {"secret", "ask", "confirm", "select"}
Line == {"empty", "text"}

VARIABLES
  terminal,       \* in and out are a terminal
  entered,        \* what was entered
  closed,         \* nothing more will be
  read,           \* how much of it somebody has read
  readsLines,        \* Next was called
  reader,         \* the goroutine that reads lines
  answers,        \* the places of the lines and keys that questions got
  dropped,        \* the places of the keys that a selection read and no question got
  asked,          \* how many questions there were
  question,       \* the one that is open
  hasDefault,     \* it has a default answer
  listNumber,         \* the number that is typed in a selection
  promptPc        \* where the command is

promptVars == <<terminal, entered, closed, read, readsLines, reader, answers, dropped, asked,
                question, hasDefault, listNumber, promptPc>>
inputVars == <<terminal, entered, closed>>

PromptTypeOK ==
  /\ terminal \in BOOLEAN /\ closed \in BOOLEAN /\ readsLines \in BOOLEAN /\ hasDefault \in BOOLEAN
  /\ entered \in Seq(Line) /\ Len(entered) <= MaxLines /\ read \in 0..Len(entered)
  /\ answers \in Seq(Nat) /\ dropped \subseteq 1..MaxLines
  /\ reader \in {"none", "reading", "holding", "over"}
  /\ asked \in 0..MaxQuestions /\ question \in Kind \cup {"none"}
  /\ listNumber \in {"none", "candidate", "other"}
  /\ promptPc \in {"idle", "waiting", "keys", "failed"}

PromptInit ==
  /\ terminal \in BOOLEAN /\ entered = <<>> /\ closed = FALSE
  /\ read = 0 /\ readsLines = FALSE /\ reader = "none" /\ answers = <<>> /\ dropped = {}
  /\ asked = 0 /\ question = "none" /\ hasDefault = FALSE /\ listNumber = "none"
  /\ promptPc = "idle"

Enter ==
  /\ ~closed
  /\ \/ Len(entered) < MaxLines /\ \E l \in Line : entered' = Append(entered, l)
        /\ UNCHANGED closed
     \/ closed' = TRUE /\ UNCHANGED entered
  /\ UNCHANGED <<terminal, read, readsLines, reader, answers, dropped, asked, question,
                 hasDefault, listNumber, promptPc>>

-----------------------------------------------------------------------------
(* The lines.                                                              *)

(* Mutation: the reader that has read ahead is not minded.                 *)
UsesTerminalAgain == terminal
UsesTerminal == terminal /\ ~readsLines

(* One goroutine for all the questions.                                    *)
Lines == IF reader = "none" THEN "reading" ELSE reader

ReadLine ==
  /\ reader = "reading"
  /\ \/ read < Len(entered) /\ read' = read + 1 /\ reader' = "holding"
     \/ closed /\ read = Len(entered) /\ reader' = "over" /\ UNCHANGED read
  /\ UNCHANGED <<inputVars, readsLines, answers, dropped, asked, question, hasDefault,
                 listNumber, promptPc>>

Question(k) ==
  /\ promptPc = "idle" /\ asked < MaxQuestions /\ asked' = asked + 1
  /\ question' = k /\ listNumber' = "none"
  /\ hasDefault' \in IF k \in {"ask", "select"} THEN BOOLEAN ELSE {FALSE}
  /\ IF k = "select" /\ UsesTerminal
     THEN promptPc' = "keys" /\ UNCHANGED <<readsLines, reader>>
     ELSE promptPc' = "waiting" /\ readsLines' = TRUE /\ reader' = Lines
  /\ UNCHANGED <<inputVars, read, answers, dropped>>

QuestionEnds(pc) ==
  /\ promptPc' = pc
  /\ question' = "none" /\ hasDefault' = FALSE /\ listNumber' = "none"
Asks == UNCHANGED <<promptPc, question, hasDefault, listNumber>>

(* What may become of a question that gets a line: validate, or the candidates, decide of  *)
(* an answer that is not empty.                                                            *)
AnswerWith(line) ==
  CASE question = "secret" -> QuestionEnds(IF line = "empty" THEN "failed" ELSE "idle")
    [] question = "confirm" -> QuestionEnds("idle")
    [] question = "ask" -> QuestionEnds("idle") \/ Asks
    [] question = "select" -> \/ (line = "text" \/ hasDefault) /\ QuestionEnds("idle")
                              \/ (line = "text" \/ ~hasDefault) /\ Asks

NextLine ==
  /\ promptPc = "waiting" /\ reader = "holding"
  /\ reader' = "reading"
  /\ answers' = Append(answers, read)
  /\ AnswerWith(entered[read])
  /\ UNCHANGED <<inputVars, read, readsLines, dropped, asked>>

(* Ask takes the default then, and the selections of a login take theirs.  *)
NextEndOfInput ==
  /\ promptPc = "waiting" /\ reader = "over"
  /\ \/ QuestionEnds("failed")
     \/ question \in {"ask", "select"} /\ QuestionEnds("idle")
  /\ UNCHANGED <<inputVars, read, readsLines, reader, answers, dropped, asked>>

(* A minute has passed.  No command asks on after that.                    *)
NextTimesOut ==
  /\ promptPc = "waiting"
  /\ QuestionEnds("failed")
  /\ UNCHANGED <<inputVars, read, readsLines, reader, answers, dropped, asked>>

-----------------------------------------------------------------------------
(* The keys.                                                               *)

(* Enter takes the number, or what is highlighted, which a filter may leave without one.   *)
SelectOnEnter ==
  CASE listNumber = "candidate" -> QuestionEnds("idle")
    [] listNumber = "other" -> listNumber' = "none" /\ UNCHANGED <<promptPc, question, hasDefault>>
    [] listNumber = "none" -> QuestionEnds("idle") \/ Asks

(* A digit, one of the keys that take it back, those of the list, and Ctrl-C.              *)
TypeInList ==
  \/ listNumber' \in {"none", "candidate", "other"} /\ UNCHANGED <<promptPc, question, hasDefault>>
  \/ QuestionEnds("failed")

(* bubbletea reads the terminal ahead of the list, and drops what the list has not handled *)
(* when it ends.                                                                            *)
DropReadAhead ==
  \E upTo \in read + 1 .. Len(entered) :
     /\ read' = upTo
     /\ dropped' = dropped \cup (read + 2 .. upTo)

PressInList ==
  /\ promptPc = "keys" /\ read < Len(entered)
  /\ answers' = Append(answers, read + 1)
  /\ IF entered[read + 1] = "empty" THEN SelectOnEnter ELSE TypeInList
  /\ IF promptPc' = "keys" THEN read' = read + 1 /\ UNCHANGED dropped ELSE DropReadAhead
  /\ UNCHANGED <<inputVars, readsLines, reader, asked>>

PromptStep ==
  \/ Enter \/ ReadLine \/ \E k \in Kind : Question(k)
  \/ NextLine \/ NextEndOfInput \/ NextTimesOut \/ PressInList

-----------------------------------------------------------------------------
(* The line that the goroutine keeps for the next question. *)
KeptLine == IF reader = "holding" THEN {read} ELSE {}

(* What is entered answers the questions in its order and once each, and no line is lost: *)
(* the goroutine keeps what it has read ahead for the next question, and takes no key      *)
(* from a selection that draws on the terminal.  Only keys are lost, those that are typed  *)
(* before a selection has ended and that it does not need.                                 *)
AnswersInOrder ==
  /\ \A i, j \in 1..Len(answers) : i < j => answers[i] < answers[j]
  /\ \A n \in 1..read : n \in ToSet(answers) \/ n \in dropped \/ n \in KeptLine
  /\ \A n \in ToSet(answers) : n <= read /\ n \notin dropped \cup KeptLine
  /\ dropped # {} => terminal
  /\ promptPc = "keys" => reader \in {"none", "over"}
=============================================================================
