----------------------------- MODULE CommandsProofs -----------------------------
(***************************************************************************)
(* Proofs about the parts of Commands, for any limits, tabs, questions,    *)
(* profiles and requests, and any bound on what happens beside a command.  *)
(* The invariant of a part is inductive of itself: the steps of the others *)
(* leave its variables alone.                                              *)
(***************************************************************************)
EXTENDS Commands, SequenceTheorems, FiniteSetTheorems, TLAPS

(* A step of a command is one of the part that happens. *)
LEMMA PartSteps ==
  ASSUME [Next]_vars
  PROVE  /\ CallStep \/ UNCHANGED callVars
         /\ ListStep \/ UNCHANGED listVars
         /\ HoldStep \/ UNCHANGED holdVars
         /\ DownloadStep \/ UNCHANGED downloadVars
         /\ BrowserStep \/ UNCHANGED browserVars
         /\ PromptStep \/ UNCHANGED promptVars
         /\ ResolveStep \/ UNCHANGED resolveVars
         /\ StatusStep \/ UNCHANGED statusVars
         /\ LoginSteps \/ UNCHANGED choiceVars
         /\ MenuStep \/ UNCHANGED menuVars
         /\ ExecStep \/ UNCHANGED tofuVars
         /\ OpenApiStep \/ UNCHANGED openApiVars
         /\ DescribeStep \/ UNCHANGED describeVars
  BY DEF Next, Call, List, Docs, Browser, Menu, Logs, Questions, Settings, Status, Login, ApiDocs,
         Describe, TofuStateExec, vars, requestVars, personVars, settingsVars, docsVars, othersVars
-----------------------------------------------------------------------------
(* HttpCall: a request that nobody marked is sent once, and waits for nothing. *)
SentOnce ==
  call \notin Get \cup Retryable =>
    /\ callPc # "waiting" /\ ran \in {0, 1}
    /\ callPc \in {"idle", "sent"} => ran = 0

(* meshStack runs a request that is no GET, and that its caller has not marked, at most  *)
(* once: a POST that starts a run, and the refresh that rotates a token.                  *)
THEOREM UnmarkedRunsOnce == Spec => []RunsOnce
<1>1. Init => SentOnce
  BY DEF Init, RequestsInit, CallInit, SentOnce
<1>2. SentOnce /\ [Next]_vars => SentOnce'
  <2> SUFFICES ASSUME SentOnce, CallStep \/ UNCHANGED callVars PROVE SentOnce'
    BY PartSteps
  <2> USE DEF SentOnce
  <2>1. CASE Send
    BY <2>1 DEF Send
  <2>2. CASE RoundTrip
    <3>1. PICK a \in Answer, runs \in {0, 1} : ran' = ran + runs
      BY <2>2 DEF RoundTrip
    <3>2. call \notin Get \cup Retryable => callPc' \in {"done", "body"}
      BY <2>2 DEF RoundTrip, ShouldRetryRequest, Return
    <3> QED BY <2>2, <3>1, <3>2 DEF RoundTrip
  <2>3. CASE WaitOver
    BY <2>3 DEF WaitOver
  <2>4. CASE ReadBody \/ LoseBody
    BY <2>4 DEF ReadBody, LoseBody, Return
  <2>5. CASE Interrupt
    BY <2>5 DEF Interrupt, Return
  <2>6. CASE UNCHANGED callVars
    BY <2>6 DEF callVars
  <2> QED BY <2>1, <2>2, <2>3, <2>4, <2>5, <2>6 DEF CallStep
<1>3. SentOnce => RunsOnce
  BY DEF SentOnce, RunsOnce, Retryable
<1> QED BY <1>1, <1>2, <1>3, PTL DEF Spec
-----------------------------------------------------------------------------
(* Download: what has half a document is the temporary file alone. *)
WholeInv ==
  /\ DownloadTypeOK
  /\ document.content # "half"
  /\ \A r \in Reader : got[r].content # "half" /\ holds[r] # "half"

(* What is beside the temporary file is whole, at any time.                               *)
LEMMA WholeAlways == Spec => []WholeInv
<1>1. Init => WholeInv
  <2>1. Absent \in Document /\ Absent.content = "absent"
    BY DownloadAssumption DEF Absent, Document, Contents
  <2>2. Init => DownloadInit
    BY DEF Init, RequestsInit
  <2> QED BY <2>1, <2>2, DownloadAssumption DEF DownloadInit, WholeInv, DownloadTypeOK, Contents
<1>2. WholeInv /\ [Next]_vars => WholeInv'
  <2> SUFFICES ASSUME WholeInv, DownloadStep \/ UNCHANGED downloadVars PROVE WholeInv'
    BY PartSteps
  <2> USE DownloadAssumption DEF WholeInv, DownloadTypeOK, outside, At, Goes
  <2>0. Absent \in Document /\ Absent.content = "absent" /\ \A d \in Document : d.time \in 0..MaxVersion
    BY DEF Absent, Document, Contents
  <2>1. ASSUME NEW r \in Reader, Receive(r) PROVE WholeInv'
    <3>1. PICK b \in Served(r) : got' = [got EXCEPT ![r] = b]
      BY <2>1 DEF Receive
    <3>2. b \in Document /\ b.content # "half"
      BY <3>1 DEF Served, Document, Contents
    <3> QED BY <2>1, <3>1, <3>2 DEF Receive
  <2>2. ASSUME NEW r \in Reader, NotModified(r) \/ DownloadFails(r) PROVE WholeInv'
    BY <2>0, <2>2 DEF NotModified, DownloadFails
  <2>3. ASSUME NEW r \in Reader, Rename(r) PROVE WholeInv'
    BY <2>0, <2>3 DEF Rename
  <2>4. ASSUME NEW r \in Reader, RecordCheck(r) \/ RecordFails(r) PROVE WholeInv'
    BY <2>4 DEF RecordCheck, RecordFails
  <2>5. ASSUME NEW r \in Reader, Stat(r) PROVE WholeInv'
    BY <2>0, <2>5 DEF Stat
  <2>6. ASSUME NEW r \in Reader, GoOn(r) \/ Wait(r) PROVE WholeInv'
    BY <2>6 DEF GoOn, Wait
  <2>7. ASSUME NEW r \in Reader, ReadDocument(r) PROVE WholeInv'
    <3>1. document.content \in Contents
      BY DEF Document
    <3> QED BY <2>7, <3>1 DEF ReadDocument
  <2>8. ASSUME NEW r \in Reader, Parse(r) PROVE WholeInv'
    BY <2>0, <2>8 DEF Parse, Contents
  <2>9. ASSUME NEW r \in Reader, Stop(r) PROVE WholeInv'
    BY <2>0, <2>9 DEF Stop, Contents
  <2>10. CASE Outside
    <3>1. newest' \in 1..MaxVersion /\ day' \in 0..MaxDay
      BY <2>10 DEF Outside
    <3> QED BY <2>10, <3>1 DEF Outside
  <2>11. CASE UNCHANGED downloadVars
    BY <2>11 DEF downloadVars
  <2> QED
    BY <2>1, <2>2, <2>3, <2>4, <2>5, <2>6, <2>7, <2>8, <2>9, <2>10, <2>11
    DEF DownloadStep, Downloading, Works
<1> QED BY <1>1, <1>2, PTL DEF Spec

(* No command reads a part of the API docs, however many download them beside it, and    *)
(* whichever of those are interrupted or killed.                                          *)
THEOREM DocsAreReadWhole == Spec => []ReadsWhole
<1>1. WholeInv => ReadsWhole
  BY DEF WholeInv, ReadsWhole
<1> QED BY <1>1, WholeAlways, PTL
-----------------------------------------------------------------------------
(* BrowserLogin: as long as the offline session of the previous login lives, every tab   *)
(* that has passed the revocation, and the level chosen last, asks for the level of that *)
(* session.                                                                               *)
PreviousLevel == LevelOf(replaced.level)

LevelInv ==
  /\ tab \in [Tab -> {"closed", "form", "revoking", "revoked", "authorize", "redirect"}]
  /\ picked \in [Tab -> Levels]
  /\ previousLives \in BOOLEAN
  /\ previousLives => replaced.refreshToken
  /\ \A t \in Tab : previousLives /\ tab[t] = "revoked" => picked[t] = PreviousLevel
  /\ previousLives /\ chosen # NoLevel => chosen = PreviousLevel
  /\ loginPc \in {"waiting", "exchange"} =>
        offline = IF previousLives THEN PreviousLevel ELSE NoLevel
  /\ loginPc \in {"exchange", "done"} => arrived # NoTab
  /\ LevelIsKept

(* Whichever levels the tabs of a login submit, the one that it returns is the one of its *)
(* code and of the offline session that refreshes its tokens.                             *)
THEOREM LevelStaysKept == Spec => []LevelIsKept
<1>1. Init => LevelInv
  <2>1. Init => BrowserInit
    BY DEF Init, PersonInit
  <2>2. BrowserInit => previousLives \in BOOLEAN
    BY Zenon DEF BrowserInit
  <2> QED BY <2>1, <2>2 DEF BrowserInit, LevelInv, LevelIsKept, Levels, PreviousLevel
<1>2. LevelInv /\ [Next]_vars => LevelInv'
  <2> SUFFICES ASSUME LevelInv, BrowserStep \/ UNCHANGED browserVars PROVE LevelInv'
    BY PartSteps
  <2> USE LevelAssumption DEF LevelInv, LevelIsKept, PreviousLevel, loginVars, tabVars, idpVars, Shows, Arrives, Levels
  <2>1. ASSUME NEW t \in Tab, AskForAccessLevel(t) PROVE LevelInv'
    BY <2>1 DEF AskForAccessLevel
  <2>2. ASSUME NEW t \in Tab, NEW l \in AccessLevels, Submit(t, l) PROVE LevelInv'
    BY <2>2 DEF Submit, EndsPrevious
  <2>3. ASSUME NEW t \in Tab, Revoke(t) PROVE LevelInv'
    BY <2>3 DEF Revoke, EndSession
  <2>4. ASSUME NEW t \in Tab, RevokeFails(t) PROVE LevelInv'
    <3>1. UNCHANGED <<offline, previousLives>> \/ (offline' = NoLevel /\ previousLives' = FALSE)
      BY <2>4 DEF RevokeFails, EndSession
    <3>2. /\ UNCHANGED <<loginPc, replaced, chosen, granted, picked>> /\ Shows(t, "closed")
          /\ loginPc \in {"exchange", "done"} => UNCHANGED arrived
      BY <2>4 DEF RevokeFails
    <3> HIDE DEF PreviousLevel
    <3>3. PreviousLevel' = PreviousLevel
      BY <3>2 DEF PreviousLevel, LevelOf
    <3>4. CASE UNCHANGED <<offline, previousLives>>
      BY <3>2, <3>3, <3>4
    <3>5. CASE offline' = NoLevel /\ previousLives' = FALSE
      BY <3>2, <3>3, <3>5
    <3> QED BY <3>1, <3>4, <3>5
  <2>5. ASSUME NEW t \in Tab, RedirectToIdentityProvider(t) PROVE LevelInv'
    BY <2>5 DEF RedirectToIdentityProvider
  <2>6. ASSUME NEW t \in Tab, Authorize(t) \/ ReceiveRedirect(t) PROVE LevelInv'
    BY <2>6 DEF Authorize, ReceiveRedirect
  <2>7. CASE Await \/ GiveUpLogin \/ ExchangeFails
    BY <2>7 DEF Await, GiveUpLogin, ExchangeFails
  <2>8. CASE Exchange
    BY <2>8 DEF Exchange, ChosenLevel, HasScope
  <2>9. CASE UNCHANGED browserVars
    BY <2>9 DEF browserVars
  <2> QED
    BY <2>1, <2>2, <2>3, <2>4, <2>5, <2>6, <2>7, <2>8, <2>9 DEF BrowserStep, PageSteps
<1>3. LevelInv => LevelIsKept
  BY DEF LevelInv
<1> QED BY <1>1, <1>2, <1>3, PTL DEF Spec
-----------------------------------------------------------------------------
(* Prompts: what was read has a question got, or a selection dropped, or the goroutine    *)
(* keeps it; a selection that draws on the terminal does so before anything reads lines.  *)
LinesAnswered == read - IF reader = "holding" THEN 1 ELSE 0

(* What questions got is in its order, and together with what was dropped it is all. *)
InTurn ==
  /\ \A i \in 1..Len(answers) : answers[i] \in 1..LinesAnswered /\ answers[i] \notin dropped
  /\ \A i, j \in 1..Len(answers) : i < j => answers[i] < answers[j]
  /\ \A n \in dropped : n \in 1..LinesAnswered
  /\ \A n \in 1..LinesAnswered : n \in dropped \/ \E i \in 1..Len(answers) : answers[i] = n

OrderInv ==
  /\ entered \in Seq(Line) /\ answers \in Seq(Nat)
  /\ read \in 0..Len(entered)
  /\ reader \in {"none", "reading", "holding", "over"}
  /\ reader = "holding" => read > 0
  /\ ~readsLines => reader = "none"
  /\ promptPc = "keys" => reader = "none" /\ terminal
  /\ promptPc \in {"waiting", "keys"} => question \in Kind
  /\ listNumber \in {"none", "candidate", "other"}
  /\ dropped # {} => terminal
  /\ InTurn

(* The next of what was read is after all that questions got, and what is dropped after   *)
(* that is behind it.                                                                     *)
LEMMA OneMoreAnswer ==
  ASSUME OrderInv, NEW next \in Nat, next = LinesAnswered + 1, answers' = Append(answers, next),
         LinesAnswered' \in Nat, LinesAnswered' >= next,
         dropped' = dropped \cup (next + 1 .. LinesAnswered')
  PROVE  answers' \in Seq(Nat) /\ InTurn'
<1>1. /\ answers \in Seq(Nat) /\ LinesAnswered \in Nat
      /\ \A i \in 1..Len(answers) : answers[i] \in 1..LinesAnswered /\ answers[i] \notin dropped
      /\ \A i, j \in 1..Len(answers) : i < j => answers[i] < answers[j]
      /\ \A n \in dropped : n \in 1..LinesAnswered
      /\ \A n \in 1..LinesAnswered : n \in dropped \/ \E i \in 1..Len(answers) : answers[i] = n
  BY DEF OrderInv, InTurn, LinesAnswered
<1>2. /\ answers' \in Seq(Nat) /\ Len(answers') = Len(answers) + 1 /\ Len(answers) \in Nat
      /\ \A i \in 1..Len(answers) : answers'[i] = answers[i]
      /\ answers'[Len(answers) + 1] = next
  BY <1>1
<1> HIDE DEF LinesAnswered
<1>3. \A i \in 1..Len(answers') : answers'[i] \in 1..LinesAnswered' /\ answers'[i] \notin dropped'
  <2> SUFFICES ASSUME NEW i \in 1..Len(answers')
               PROVE  answers'[i] \in 1..LinesAnswered' /\ answers'[i] \notin dropped'
    OBVIOUS
  <2>1. CASE i = Len(answers) + 1
    <3>1. answers'[i] = next /\ next \notin dropped
      BY <1>1, <1>2, <2>1
    <3> QED BY <1>1, <3>1
  <2>2. CASE i # Len(answers) + 1
    <3>1. i \in 1..Len(answers) /\ answers'[i] = answers[i]
      BY <1>2, <2>2
    <3> QED BY <1>1, <3>1
  <2> QED BY <2>1, <2>2
<1>4. \A i, j \in 1..Len(answers') : i < j => answers'[i] < answers'[j]
  <2> SUFFICES ASSUME NEW i \in 1..Len(answers'), NEW j \in 1..Len(answers'), i < j
               PROVE  answers'[i] < answers'[j]
    OBVIOUS
  <2>1. i \in 1..Len(answers) /\ answers'[i] = answers[i]
    BY <1>2
  <2>2. CASE j = Len(answers) + 1
    BY <1>1, <1>2, <2>1, <2>2
  <2>3. CASE j # Len(answers) + 1
    <3>0. Len(answers') = Len(answers) + 1 /\ Len(answers) \in Nat
      BY <1>2
    <3>1. j \in 1..Len(answers)
      BY <2>3, <3>0
    <3>2. answers'[j] = answers[j]
      BY <1>2, <3>1
    <3> QED BY <1>1, <2>1, <3>1, <3>2
  <2> QED BY <2>2, <2>3
<1>5. \A n \in dropped' : n \in 1..LinesAnswered'
  BY <1>1
<1>6. \A n \in 1..LinesAnswered' : n \in dropped' \/ \E i \in 1..Len(answers') : answers'[i] = n
  <2> SUFFICES ASSUME NEW n \in 1..LinesAnswered', n \notin dropped'
               PROVE  \E i \in 1..Len(answers') : answers'[i] = n
    OBVIOUS
  <2>1. n \in 1..next
    BY <1>1
  <2>2. CASE n = next
    <3>1. Len(answers) + 1 \in 1..Len(answers')
      BY <1>2
    <3> QED BY <1>2, <2>2, <3>1
  <2>3. CASE n # next
    <3>1. n \in 1..LinesAnswered /\ n \notin dropped
      BY <1>1, <2>1, <2>3
    <3>2. PICK i \in 1..Len(answers) : answers[i] = n
      BY <1>1, <3>1
    <3> QED BY <1>2, <3>2
  <2> QED BY <2>2, <2>3
<1> QED BY <1>2, <1>3, <1>4, <1>5, <1>6 DEF InTurn

(* What was read has its question, at any time.                                           *)
LEMMA OrderAlways == Spec => []OrderInv
<1>1. Init => OrderInv
  BY DEF Init, PersonInit, PromptInit, OrderInv, InTurn, LinesAnswered
<1>2. OrderInv /\ [Next]_vars => OrderInv'
  <2> SUFFICES ASSUME OrderInv, PromptStep \/ UNCHANGED promptVars PROVE OrderInv'
    BY PartSteps
  <2>0. ASSUME UNCHANGED <<answers, dropped, LinesAnswered>> PROVE InTurn'
    BY <2>0 DEF OrderInv, InTurn
  <2> USE DEF OrderInv, inputVars
  <2>1. CASE Enter
    <3>0. InTurn'
      BY <2>0, <2>1 DEF Enter, LinesAnswered
    <3>1. CASE UNCHANGED entered
      BY <2>1, <3>0, <3>1 DEF Enter
    <3>2. ASSUME NEW l \in Line, entered' = Append(entered, l) PROVE OrderInv'
      <4>1. entered' \in Seq(Line) /\ Len(entered') = Len(entered) + 1
        BY <3>2
      <4> QED BY <2>1, <3>0, <4>1 DEF Enter
    <3> QED BY <2>1, <3>1, <3>2 DEF Enter
  <2>2. CASE ReadLine
    <3>1. InTurn'
      BY <2>0, <2>2 DEF ReadLine, LinesAnswered
    <3> QED BY <2>2, <3>1 DEF ReadLine
  <2>3. ASSUME NEW k \in Kind, Question(k) PROVE OrderInv'
    <3>1. InTurn'
      BY <2>0, <2>3 DEF Question, Lines, LinesAnswered
    <3> QED BY <2>3, <3>1 DEF Question, UsesTerminal, Lines
  <2>4. CASE NextLine
    <3>1. /\ reader = "holding" /\ reader' = "reading" /\ promptPc' # "keys"
          /\ (promptPc' = "waiting" => question' \in Kind)
          /\ listNumber' \in {"none", "candidate", "other"}
          /\ answers' = Append(answers, read)
          /\ UNCHANGED <<terminal, entered, read, readsLines, dropped>>
      BY <2>4 DEF NextLine, AnswerWith, QuestionEnds, Asks, Kind
    <3>2. /\ read \in Nat /\ read = LinesAnswered + 1 /\ LinesAnswered' = read
          /\ dropped' = dropped \cup (read + 1 .. LinesAnswered')
      BY <3>1 DEF LinesAnswered
    <3>3. answers' \in Seq(Nat) /\ InTurn'
      BY <3>1, <3>2, OneMoreAnswer
    <3> QED BY <3>1, <3>3
  <2>5. CASE NextEndOfInput \/ NextTimesOut
    <3>1. InTurn'
      BY <2>0, <2>5 DEF NextEndOfInput, NextTimesOut, LinesAnswered
    <3> QED BY <2>5, <3>1 DEF NextEndOfInput, NextTimesOut, QuestionEnds
  <2>6. CASE PressInList
    <3>1. /\ promptPc' = "keys" => question' \in Kind
          /\ promptPc' # "waiting"
          /\ listNumber' \in {"none", "candidate", "other"}
      BY <2>6 DEF PressInList, SelectOnEnter, TypeInList, QuestionEnds, Asks
    <3>2. /\ reader = "none" /\ terminal /\ read < Len(entered) /\ read \in Nat
          /\ answers' = Append(answers, read + 1)
          /\ UNCHANGED <<terminal, entered, reader, readsLines>>
      BY <2>6 DEF PressInList
    <3>3. PICK upTo \in read + 1 .. Len(entered) :
            read' = upTo /\ dropped' = dropped \cup (read + 2 .. upTo)
      <4>1. CASE promptPc' = "keys"
        <5>1. read' = read + 1 /\ dropped' = dropped \cup (read + 2 .. read + 1)
          BY <2>6, <3>2, <4>1 DEF PressInList
        <5>2. read + 1 \in read + 1 .. Len(entered)
          BY <3>2
        <5> QED BY <5>1, <5>2
      <4>2. CASE promptPc' # "keys"
        BY <2>6, <4>2 DEF PressInList, DropReadAhead
      <4> QED BY <4>1, <4>2
    <3>4. /\ read + 1 \in Nat /\ read + 1 = LinesAnswered + 1 /\ LinesAnswered' = upTo
          /\ upTo \in Nat /\ upTo >= read + 1 /\ read + 1 + 1 = read + 2
      BY <3>2, <3>3 DEF LinesAnswered
    <3>5. answers' \in Seq(Nat) /\ InTurn'
      BY <3>2, <3>3, <3>4, OneMoreAnswer
    <3>6. read' \in 0..Len(entered')
      BY <3>2, <3>3
    <3> QED BY <3>1, <3>2, <3>5, <3>6
  <2>7. CASE UNCHANGED promptVars
    <3>1. InTurn'
      BY <2>0, <2>7 DEF promptVars, LinesAnswered
    <3> QED BY <2>7, <3>1 DEF promptVars
  <2> QED BY <2>1, <2>2, <2>3, <2>4, <2>5, <2>6, <2>7 DEF PromptStep
<1> QED BY <1>1, <1>2, PTL DEF Spec

(* Every line and key that a person or a script enters answers the question whose turn it *)
(* is, in its order and none twice, whichever questions draw on the terminal or read      *)
(* lines; and none is lost but keys that were typed before a selection ended.             *)
THEOREM AnswersKeepOrder == Spec => []AnswersInOrder
<1>1. OrderInv => AnswersInOrder
  <2> SUFFICES ASSUME OrderInv PROVE AnswersInOrder
    OBVIOUS
  <2>1. /\ read \in Nat
        /\ reader = "holding" => KeptLine = {read} /\ LinesAnswered = read - 1
        /\ reader # "holding" => KeptLine = {} /\ LinesAnswered = read
    BY DEF OrderInv, LinesAnswered, KeptLine
  <2>2. ToSet(answers) = {answers[i] : i \in 1..Len(answers)}
    BY DEF OrderInv, ToSet
  <2>3. \A n \in 1..read : n \in ToSet(answers) \/ n \in dropped \/ n \in KeptLine
    <3> SUFFICES ASSUME NEW n \in 1..read, n \notin KeptLine PROVE n \in ToSet(answers) \/ n \in dropped
      OBVIOUS
    <3>1. n \in 1..LinesAnswered
      BY <2>1
    <3> QED BY <2>2, <3>1 DEF OrderInv, InTurn
  <2>4. \A n \in ToSet(answers) : n <= read /\ n \notin dropped \cup KeptLine
    <3> SUFFICES ASSUME NEW i \in 1..Len(answers) PROVE answers[i] <= read /\ answers[i] \notin dropped \cup KeptLine
      BY <2>2
    <3>1. answers[i] \in 1..LinesAnswered /\ answers[i] \notin dropped
      BY DEF OrderInv, InTurn
    <3> QED BY <2>1, <3>1
  <2> QED BY <2>3, <2>4 DEF OrderInv, InTurn, AnswersInOrder
<1> QED BY <1>1, OrderAlways, PTL
-----------------------------------------------------------------------------
(* Resolving: what was given is what the session has. *)
AsGiven ==
  /\ explicit \in {NoUrl, session.endpoint}
  /\ named \in {NotGiven, session.name}

(* A stored credential is for the endpoint of its profile, or there is none; the profile *)
(* of an edit that has not ended has none.  The profile of a session is as the session   *)
(* has read it, until it is edited.                                                       *)
ForeignInv ==
  /\ stored \in [ProfileName -> [endpoint : AnyEndpoint, selects : BOOLEAN]]
  /\ issuedFor \in [ProfileName -> AnyEndpoint]
  /\ \A n \in ProfileName : issuedFor[n] \in {NoUrl, stored[n].endpoint}
  /\ \A n \in ProfileName : edited = n => issuedFor[n] = NoUrl
  /\ resolvePc = "credential" =>
       /\ AsGiven
       /\ session.selects /\ ~editedSince =>
            /\ session.name \in ProfileName /\ edited # session.name
            /\ stored[session.name].endpoint = session.endpoint
  /\ NoForeignCredentials

(* The profile that is named is the profile that is resolved. *)
LEMMA NamedIsResolved ==
  ASSUME named # NotGiven
  PROVE  ResolvedName = named
<1> DEFINE sources == <<named, matched, UniqueMatch, currentProfile, DefaultName>>
           given == {i \in 1..Len(sources) : sources[i] # NotGiven}
<1>1. 1 \in given /\ given \subseteq Nat \ {0}
  OBVIOUS
<1>2. Min(given) = 1
  BY <1>1 DEF Min
<1> QED BY <1>2 DEF ResolvedName, FirstGiven

(* What a session is begun with. *)
LEMMA SessionAsRead ==
  ASSUME ForeignInv, EndpointFits(SessionProfile, explicit), SessionProfile.endpoint # NoUrl
  PROVE  /\ explicit \in {NoUrl, SessionProfile.endpoint}
         /\ named \in {NotGiven, SessionProfile.name}
         /\ SessionProfile.selects => /\ SessionProfile.name \in ProfileName
                                      /\ stored[SessionProfile.name].endpoint = SessionProfile.endpoint
  BY NamedIsResolved DEF SessionProfile, EndpointFits, StoredNames

(* What the way to a credential has read holds of what is stored, at any time.            *)
LEMMA ForeignAlways == Spec => []ForeignInv
<1>1. Init => ForeignInv
  <2>1. Init => ResolveInit
    BY DEF Init, SettingsInit
  <2>2. ResolveInit => edited \notin ProfileName /\ resolvePc \in {"session", "start"}
    BY ResolvingAssumption DEF ResolveInit
  <2>3. ResolveInit => issuedFor \in [ProfileName -> AnyEndpoint]
    BY DEF ResolveInit, AnyEndpoint
  <2>4. ResolveInit => \A n \in ProfileName : issuedFor[n] \in {NoUrl, stored[n].endpoint}
    BY DEF ResolveInit
  <2> QED BY <2>1, <2>2, <2>3, <2>4 DEF ResolveInit, ForeignInv, NoForeignCredentials
<1>2. ForeignInv /\ [Next]_vars => ForeignInv'
  <2> SUFFICES ASSUME ForeignInv, ResolveStep \/ UNCHANGED resolveVars PROVE ForeignInv'
    BY PartSteps
  <2> USE DEF dirVars, settingVars
  <2>1. CASE UNCHANGED resolveVars
    BY <2>1 DEF resolveVars, ForeignInv, AsGiven, NoForeignCredentials
  <2>2. ASSUME UNCHANGED <<stored, issuedFor, edited>>, resolvePc' \in {"session", "failed"}
        PROVE  ForeignInv'
    BY <2>2 DEF ForeignInv, NoForeignCredentials
  <2>3. CASE ProfileFor
    BY <2>2, <2>3 DEF ProfileFor, Fail, GoOnWith
  <2>4. CASE NewSession
    <3>1. CASE resolvePc' = "failed"
      BY <2>2, <2>4, <3>1 DEF NewSession, Fail
    <3>2. CASE SessionProfile.endpoint # NoUrl /\ EndpointFits(SessionProfile, explicit)
      <4>1. /\ session' = SessionProfile /\ resolvePc' = "credential"
            /\ editedSince' = (edited = SessionProfile.name)
            /\ UNCHANGED <<stored, issuedFor, edited, explicit, named>>
        BY <2>4, <3>2 DEF NewSession
      <4> QED BY <3>2, <4>1, SessionAsRead DEF ForeignInv, AsGiven, NoForeignCredentials
    <3> QED BY <2>4, <3>1, <3>2 DEF NewSession, Fail
  <2>5. CASE ResolveCredentials
    BY <2>5 DEF ResolveCredentials, ForeignInv, AsGiven, NoForeignCredentials, Holds
  <2>6. CASE CredentialsFail
    BY <2>2, <2>6 DEF CredentialsFail, Fail
  <2>7. ASSUME NEW n \in ProfileName, EditRemoves(n) PROVE ForeignInv'
    BY <2>7 DEF EditRemoves, Edit, ForeignInv, AsGiven, NoForeignCredentials, AnyEndpoint, Holds
  <2>8. ASSUME NEW n \in ProfileName, LogIn(n) PROVE ForeignInv'
    <3>1. /\ issuedFor' = [issuedFor EXCEPT ![n] = stored[n].endpoint]
          /\ edited = NotGiven /\ n # NotGiven
          /\ UNCHANGED <<edited, editedSince, explicit, named, target, resolvePc, session, sent>>
      BY <2>8, ResolvingAssumption DEF LogIn, Edit
    <3>2. /\ stored' \in [ProfileName -> [endpoint : AnyEndpoint, selects : BOOLEAN]]
          /\ \A m \in ProfileName : stored'[m].endpoint = stored[m].endpoint
      BY <2>8 DEF LogIn, ForeignInv
    <3>3. issuedFor' \in [ProfileName -> AnyEndpoint]
      BY <3>1 DEF ForeignInv
    <3>4. NoForeignCredentials'
      BY <3>1 DEF ForeignInv, NoForeignCredentials, Holds
    <3> QED BY <3>1, <3>2, <3>3, <3>4 DEF ForeignInv, AsGiven
  <2>9. ASSUME NEW n \in ProfileName, NEW e \in AnyEndpoint, EditStores(n, e) PROVE ForeignInv'
    BY <2>9, ResolvingAssumption DEF EditStores, ForeignInv, AsGiven, NoForeignCredentials, Holds
  <2> QED BY <2>1, <2>3, <2>4, <2>5, <2>6, <2>7, <2>8, <2>9 DEF ResolveStep
<1> QED BY <1>1, <1>2, PTL DEF Spec

(* A command sends to the endpoint and with the profile that it was given, and a stored  *)
(* credential only to the endpoint that it was issued for, whatever other commands edit   *)
(* between its reads of the profiles and of the credentials.                              *)
THEOREM CredentialsStayHome == Spec => []NoForeignCredentials
<1>1. ForeignInv => NoForeignCredentials
  BY DEF ForeignInv
<1> QED BY <1>1, ForeignAlways, PTL
-----------------------------------------------------------------------------
(* AuthStatus: whose tokens are in a cache.  Those of API tokens are of one credential,  *)
(* but for the one of the environment, which is in no cache.                              *)
Owned(n, cache) ==
  \A t \in cache.tokens : IF n = "manual" THEN t.by # EnvironmentIdentity ELSE t.by = cache.of

Identities == NoIdentity..LoginIdentity
Caches == [of : Identities, tokens : SUBSET Mint]

AuthDirInv ==
  /\ selects \in CredentialName \cup {"none"}
  /\ keeps \in [CredentialName -> Identities]
  /\ tokenFile \in [CredentialName -> Caches]
  /\ \A n \in CredentialName : Owned(n, tokenFile[n])
  /\ loginOf \in [at : {"none", "read", "cached"}, name : CredentialName \cup {"none"},
                  identity : Identities, read : [CredentialName -> Identities], before : Caches]
  /\ loginOf.at # "none" => loginOf.name \in CredentialName /\ loginOf.identity # NoIdentity
  /\ loginOf.name = "oidcLogin" => loginOf.identity = LoginIdentity
  /\ loginOf.at = "cached" => Owned(loginOf.name, loginOf.before)

(* The kinds that were told, and those that are still to tell of. *)
Told == CredentialName \ ToSet(toTell)

ToldInv ==
  /\ provided \subseteq {"apiKey", "manual"}
  /\ statusSelected \in CredentialName \cup {"none"}
  /\ used \in [name : CredentialName \cup {"none"}, identity : Identities, stored : BOOLEAN]
  /\ statusPc \in {"load", "stored", "tell"} => used.name \in CredentialName
  /\ statusPc \in {"start", "resolve", "load", "stored"} => toTell = CredentialNames /\ unused = <<>>
  /\ statusPc \in {"start", "resolve", "load"} => shownToken = {}
  /\ readKeeps \in [CredentialName -> Identities]
  /\ toTell \in {CredentialNames, <<"manual", "oidcLogin">>, <<"oidcLogin">>, <<>>}
  /\ unused \in Seq([name : CredentialName, identity : Identities, token : SUBSET Mint])
  /\ {e.name : e \in ToSet(unused)} = {n \in Told : readKeeps[n] # NoIdentity /\ ~IsUsed(n)}
  /\ \A t \in shownToken : MintedFor(t, used)
  /\ \A e \in ToSet(unused) : \A t \in e.token :
       MintedFor(t, [name |-> e.name, identity |-> e.identity, stored |-> TRUE])

(* The credentials of an endpoint, by name. *)
LEMMA CredentialKinds == CredentialName = {"apiKey", "manual", "oidcLogin"}
  BY DEF CredentialName, CredentialNames, ToSet

(* What a credential gets from its file was minted for it. *)
LEMMA LoadedAreOwn ==
  ASSUME AuthDirInv, NEW c \in [name : CredentialName, identity : Identities, stored : BOOLEAN],
         NEW t, t \in LoadedTokens(c) \/ t \in OidcTokenFor(LoadedTokens(c))
  PROVE  MintedFor(t, c)
<1>1. t \in LoadedTokens(c)
  BY DEF OidcTokenFor
<1>2. CASE BringsItsToken(c)
  BY <1>1, <1>2 DEF LoadedTokens, UnscopedOf, MintedFor
<1>3. CASE ~BringsItsToken(c)
  <2>1. t \in tokenFile[c.name].tokens /\ tokenFile[c.name].of = IdentityOf(c.name, c.identity)
    BY <1>1, <1>3 DEF LoadedTokens
  <2> QED BY <1>3, <2>1 DEF AuthDirInv, Owned, BringsItsToken, IdentityOf, MintedFor
<1> QED BY <1>2, <1>3

(* Whatever other commands do, a cache has the tokens of one credential of its kind. *)
LEMMA AuthDirNext == AuthDirInv /\ (StatusStep \/ UNCHANGED statusVars) => AuthDirInv'
<1> SUFFICES ASSUME AuthDirInv, StatusStep \/ UNCHANGED statusVars PROVE AuthDirInv'
  OBVIOUS
<1>1. CASE UNCHANGED authDirVars
  BY <1>1 DEF authDirVars, AuthDirInv, Owned
<1>2. ASSUME NEW n \in CredentialName, NEW i \in Identities, NEW ts \in SUBSET Mint,
             Cached(n, i, ts), Owned(n, [of |-> i, tokens |-> ts])
      PROVE  tokenFile' \in [CredentialName -> Caches] /\ \A m \in CredentialName : Owned(m, tokenFile'[m])
  BY <1>2 DEF AuthDirInv, Cached, Caches, Owned
<1>3. ASSUME NEW i \in 1..LoginIdentity PROVE ScopedOf(i) \in Mint /\ UnscopedOf(i) \in Mint
                                          /\ ScopedOf(i).by = i /\ UnscopedOf(i).by = i
  BY DEF ScopedOf, UnscopedOf, Mint, StoredIdentity, LoginIdentity
<1>4. ASSUME NEW n \in {"apiKey", "oidcLogin"}, NEW i \in 1..LoginIdentity, Renewed(n, i)
      PROVE  tokenFile' \in [CredentialName -> Caches] /\ \A m \in CredentialName : Owned(m, tokenFile'[m])
  <2>1. n \in CredentialName /\ i \in Identities
    BY CredentialKinds DEF Identities, NoIdentity, LoginIdentity
  <2> DEFINE ts == IF n = "oidcLogin" THEN tokenFile[n].tokens \cup {ScopedOf(i)} ELSE {UnscopedOf(i)}
  <2>2. tokenFile[n].of = i /\ Cached(n, i, ts)
    BY <1>4 DEF Renewed
  <2>3. ts \in SUBSET Mint
    BY <1>3, <2>1 DEF AuthDirInv, Caches
  <2>4. Owned(n, [of |-> i, tokens |-> ts])
    BY <1>3, <2>1, <2>2 DEF AuthDirInv, Owned
  <2> HIDE DEF ts
  <2> QED BY <1>2, <2>1, <2>2, <2>3, <2>4
<1>5. ASSUME NEW n \in CredentialName, LoginReads(n) PROVE AuthDirInv'
  <2>1. PICK i \in {LoginIdentity} \cup (IF n = "apiKey" THEN {EnvironmentIdentity} ELSE {}) :
          loginOf' = [NoLoginBeside EXCEPT !.at = "read", !.name = n, !.identity = IdentityOf(n, i), !.read = keeps]
    BY <1>5 DEF LoginReads
  <2>2. loginOf' = [at |-> "read", name |-> n, identity |-> IdentityOf(n, i), read |-> keeps, before |-> NoCache]
    BY <2>1 DEF NoLoginBeside
  <2>3. NoCache \in Caches /\ IdentityOf(n, i) \in Identities
    BY DEF NoCache, Caches, IdentityOf, Identities, NoIdentity, StoredIdentity, EnvironmentIdentity, LoginIdentity
  <2>4. /\ n = "oidcLogin" => IdentityOf(n, i) = LoginIdentity
        /\ IdentityOf(n, i) # NoIdentity
    BY DEF IdentityOf, NoIdentity, StoredIdentity, EnvironmentIdentity, LoginIdentity
  <2> QED BY <1>5, <2>2, <2>3, <2>4 DEF LoginReads, AuthDirInv, Owned
<1>6. CASE LoginCaches
  <2>1. loginOf.name \in CredentialName /\ loginOf.identity \in Identities \ {NoIdentity}
    BY <1>6 DEF LoginCaches, AuthDirInv
  <2> DEFINE ts == IF loginOf.name = "apiKey" THEN {} ELSE {UnscopedOf(LoginIdentity)}
  <2>2. ts \in SUBSET Mint /\ \A t \in ts : t.by = LoginIdentity
    BY <1>3 DEF LoginIdentity
  <2>3. Owned(loginOf.name, [of |-> loginOf.identity, tokens |-> ts])
    BY <2>1, <2>2, CredentialKinds DEF Owned, AuthDirInv, LoginIdentity, EnvironmentIdentity
  <2>4. Cached(loginOf.name, loginOf.identity, ts)
    BY <1>6 DEF LoginCaches
  <2> HIDE DEF ts
  <2>5. tokenFile' \in [CredentialName -> Caches] /\ \A m \in CredentialName : Owned(m, tokenFile'[m])
    BY <1>2, <2>1, <2>2, <2>3, <2>4
  <2>6. /\ loginOf' = [loginOf EXCEPT !.at = "cached", !.before = tokenFile[loginOf.name]]
        /\ UNCHANGED <<keeps, selects>>
    BY <1>6 DEF LoginCaches
  <2>7. /\ loginOf'.at = "cached" /\ loginOf'.name = loginOf.name /\ loginOf'.before = tokenFile[loginOf.name]
        /\ loginOf'.identity = loginOf.identity
    BY <2>6 DEF AuthDirInv
  <2> QED BY <2>1, <2>5, <2>6, <2>7 DEF AuthDirInv
<1>7. ASSUME NEW n \in {"apiKey", "oidcLogin"}, NEW i \in Identities, Renewed(n, i), i # NoIdentity,
             UNCHANGED <<keeps, selects, loginOf>>
      PROVE  AuthDirInv'
  <2>1. i \in 1..LoginIdentity
    BY <1>7 DEF Identities, NoIdentity, LoginIdentity
  <2> QED BY <1>4, <1>7, <2>1 DEF AuthDirInv
<1>8. CASE LoginMints \/ ProvidedMints
  <2>1. CASE ProvidedMints
    BY <1>7, <2>1 DEF ProvidedMints, Identities, EnvironmentIdentity, NoIdentity, LoginIdentity
  <2>2. CASE LoginMints
    BY <1>7, <2>2 DEF LoginMints, AuthDirInv
  <2> QED BY <1>8, <2>1, <2>2
<1>9. ASSUME NEW n \in CredentialName, StoredMints(n) PROVE AuthDirInv'
  BY <1>7, <1>9, CredentialKinds DEF StoredMints, AuthDirInv
<1>10. CASE LoginKeeps
  BY <1>10 DEF LoginKeeps, AuthDirInv, NoLoginBeside, NoCache, Caches, Identities, NoIdentity, LoginIdentity
<1>11. CASE OtherLoginEnds
  <2>1. /\ loginOf' = NoLoginBeside /\ UNCHANGED <<keeps, selects>>
        /\ \/ UNCHANGED tokenFile
           \/ loginOf.at = "cached" /\ Cached(loginOf.name, loginOf.before.of, loginOf.before.tokens)
    BY <1>11 DEF OtherLoginEnds
  <2>2. CASE UNCHANGED tokenFile
    BY <2>1, <2>2 DEF AuthDirInv, NoLoginBeside, NoCache, Caches, Identities, NoIdentity, LoginIdentity
  <2>3. CASE loginOf.at = "cached" /\ Cached(loginOf.name, loginOf.before.of, loginOf.before.tokens)
    <3>1. /\ loginOf.before.of \in Identities /\ loginOf.before.tokens \in SUBSET Mint
          /\ loginOf.name \in CredentialName
      BY <2>3 DEF AuthDirInv, Caches
    <3>2. Owned(loginOf.name, [of |-> loginOf.before.of, tokens |-> loginOf.before.tokens])
      BY <2>3 DEF AuthDirInv, Owned
    <3>3. tokenFile' \in [CredentialName -> Caches] /\ \A m \in CredentialName : Owned(m, tokenFile'[m])
      BY <1>2, <2>3, <3>1, <3>2
    <3> QED BY <2>1, <3>3 DEF AuthDirInv, NoLoginBeside, NoCache, Caches, Identities, NoIdentity, LoginIdentity
  <2> QED BY <2>1, <2>2, <2>3
<1>12. CASE LogoutForgets
  BY <1>12 DEF LogoutForgets, AuthDirInv, Identities, NoIdentity, LoginIdentity, Owned
<1>13. CASE LogoutClears
  BY <1>13 DEF LogoutClears, AuthDirInv, NoCache, Caches, Owned, Identities, NoIdentity, LoginIdentity
<1> QED
  BY <1>1, <1>5, <1>6, <1>8, <1>9, <1>10, <1>11, <1>12, <1>13
  DEF StatusStep, statusVars, ReadSelection, UseProvided, UseStored, LoadUsed, ReadStored, TellUnused,
      Show, ToldAs, Use, FailStatus

(* Every credential but the one in use that was read is told once, with its own token. *)
LEMMA ToldNext == AuthDirInv /\ ToldInv /\ (StatusStep \/ UNCHANGED statusVars) => ToldInv'
<1> SUFFICES ASSUME AuthDirInv, ToldInv, StatusStep \/ UNCHANGED statusVars PROVE ToldInv'
  OBVIOUS
<1>1. CASE UNCHANGED <<provided, toldVars>>
  BY <1>1 DEF toldVars, ToldInv, Told, IsUsed
<1>2. ASSUME UNCHANGED <<provided, used, shownToken, readKeeps, toTell, unused>>,
             statusSelected' \in {statusSelected, selects},
             statusPc' = statusPc \/ statusPc' \in {"resolve", "failed", "shown"},
             statusPc' = "resolve" => statusPc = "start"
      PROVE  ToldInv'
  BY <1>2 DEF AuthDirInv, ToldInv, Told, IsUsed
<1>3. CASE ReadSelection \/ Show \/ FailStatus
  BY <1>2, <1>3 DEF ReadSelection, Show, FailStatus, ToldAs
<1>4. ASSUME NEW n \in CredentialName, NEW i \in Identities, NEW b \in BOOLEAN, Use(n, i, b), statusPc = "resolve"
      PROVE  ToldInv'
  <2>1. /\ statusPc' = "load" /\ used' = [name |-> n, identity |-> i, stored |-> b]
        /\ UNCHANGED <<provided, statusSelected, shownToken, readKeeps, toTell, unused>>
        /\ toTell = CredentialNames /\ unused = <<>> /\ shownToken = {}
    BY <1>4 DEF Use, ToldAs, ToldInv
  <2>2. Told = {} /\ Told' = {} /\ ToSet(unused) = {}
    BY <2>1, CredentialKinds DEF Told, CredentialNames, ToSet
  <2>3. Told' = {} /\ ToSet(unused') = {}
    BY <2>1, <2>2
  <2> QED BY <2>1, <2>3 DEF ToldInv
<1>5. CASE UseProvided
  <2>1. CASE FailStatus
    BY <1>3, <2>1
  <2>2. ASSUME NEW n \in provided, Use(n, EnvironmentIdentity, FALSE) PROVE ToldInv'
    <3>1. n \in CredentialName /\ EnvironmentIdentity \in Identities
      BY CredentialKinds DEF ToldInv, EnvironmentIdentity, Identities, NoIdentity, LoginIdentity
    <3> QED BY <1>4, <1>5, <2>2, <3>1 DEF UseProvided
  <2> QED BY <1>5, <2>1, <2>2 DEF UseProvided
<1>6. CASE UseStored
  <2>1. CASE FailStatus
    BY <1>3, <2>1
  <2>2. ASSUME statusSelected # "none", Use(statusSelected, keeps[statusSelected], TRUE) PROVE ToldInv'
    <3>1. statusSelected \in CredentialName /\ keeps[statusSelected] \in Identities
      BY <2>2 DEF AuthDirInv, ToldInv
    <3> QED BY <1>4, <1>6, <2>2, <3>1 DEF UseStored
  <2> QED BY <1>6, <2>1, <2>2 DEF UseStored
<1>7. CASE LoadUsed
  <2>1. CASE FailStatus
    BY <1>3, <2>1
  <2>2. CASE ToldAs("stored")
    <3>1. /\ statusPc' = "stored" /\ statusPc = "load"
          /\ UNCHANGED <<provided, statusSelected, used, readKeeps, toTell, unused>>
          /\ shownToken' = IF used.name = "oidcLogin" THEN OidcTokenFor(LoadedTokens(used)) ELSE LoadedTokens(used)
      BY <1>7, <2>2 DEF LoadUsed, ToldAs, FailStatus
    <3>2. used \in [name : CredentialName, identity : Identities, stored : BOOLEAN]
      BY <3>1 DEF ToldInv
    <3>3. \A t \in shownToken' : MintedFor(t, used)
      BY <3>1, <3>2, LoadedAreOwn
    <3> QED BY <3>1, <3>3 DEF ToldInv, Told, IsUsed
  <2> QED BY <1>7, <2>1, <2>2 DEF LoadUsed
<1>8. CASE ReadStored
  <2>1. /\ statusPc = "stored" /\ statusPc' \in {"tell", "shown"}
        /\ UNCHANGED <<provided, statusSelected, used, shownToken, toTell, unused>>
        /\ readKeeps' \in {keeps, readKeeps}
    BY <1>8 DEF ReadStored, ToldAs
  <2>2. Told = {} /\ ToSet(unused) = {} /\ UNCHANGED unused /\ UNCHANGED toTell
    BY <2>1, CredentialKinds DEF ToldInv, Told, CredentialNames, ToSet
  <2>3. Told' = {} /\ ToSet(unused') = {}
    BY <2>2 DEF Told
  <2> QED BY <2>1, <2>3 DEF ToldInv, AuthDirInv
<1>9. CASE TellUnused
  <2> DEFINE n == Head(toTell)
             c == [name |-> n, identity |-> readKeeps[n], stored |-> TRUE]
             e == [name |-> n, identity |-> readKeeps[n], token |-> UnusedToken(c)]
  <2>1. /\ statusPc = "tell" /\ statusPc' = "tell" /\ toTell # <<>> /\ toTell' = Tail(toTell)
        /\ UNCHANGED <<provided, statusSelected, used, shownToken, readKeeps>>
        /\ IF readKeeps[n] = NoIdentity \/ IsUsed(n) THEN UNCHANGED unused ELSE unused' = Append(unused, e)
    BY <1>9 DEF TellUnused, ToldAs
  <2>2. /\ n \in CredentialName
        /\ toTell' \in {CredentialNames, <<"manual", "oidcLogin">>, <<"oidcLogin">>, <<>>}
        /\ Told' = Told \cup {n}
    <3>1. CASE toTell = <<"apiKey", "manual", "oidcLogin">>
      BY <2>1, <3>1, CredentialKinds DEF Told, ToSet
    <3>2. CASE toTell = <<"manual", "oidcLogin">>
      BY <2>1, <3>2, CredentialKinds DEF Told, ToSet
    <3>3. CASE toTell = <<"oidcLogin">>
      BY <2>1, <3>3, CredentialKinds DEF Told, ToSet
    <3> QED BY <2>1, <3>1, <3>2, <3>3 DEF ToldInv, CredentialNames
  <2>3. CASE readKeeps[n] = NoIdentity \/ IsUsed(n)
    BY <2>1, <2>2, <2>3 DEF ToldInv, IsUsed
  <2>4. CASE ~(readKeeps[n] = NoIdentity \/ IsUsed(n))
    <3>1. c \in [name : CredentialName, identity : Identities, stored : BOOLEAN]
      BY <2>2 DEF ToldInv
    <3>2. \A t \in UnusedToken(c) : MintedFor(t, c)
      BY <3>1, LoadedAreOwn DEF UnusedToken
    <3>3. UnusedToken(c) \in SUBSET Mint
      <4>1. LoadedTokens(c) \in SUBSET Mint
        BY <3>1 DEF AuthDirInv, Caches, LoadedTokens, BringsItsToken
      <4>2. OidcTokenFor(LoadedTokens(c)) \subseteq LoadedTokens(c)
        BY DEF OidcTokenFor
      <4> QED BY <4>1, <4>2 DEF UnusedToken
    <3>4. unused' = Append(unused, e) /\ e \in [name : CredentialName, identity : Identities, token : SUBSET Mint]
      BY <2>1, <2>4, <3>1, <3>3
    <3>5. unused \in Seq([name : CredentialName, identity : Identities, token : SUBSET Mint])
      BY DEF ToldInv
    <3> HIDE DEF e
    <3>6. unused' \in Seq([name : CredentialName, identity : Identities, token : SUBSET Mint])
          /\ ToSet(unused') = ToSet(unused) \cup {e}
      BY <3>4, <3>5 DEF ToSet
    <3>7. e.name = n /\ e.identity = readKeeps[n] /\ \A t \in e.token : MintedFor(t, c)
      BY <3>2 DEF e
    <3>8. {f.name : f \in ToSet(unused')} = {m \in Told' : readKeeps'[m] # NoIdentity /\ ~IsUsed(m)'}
      BY <2>1, <2>2, <2>4, <3>6, <3>7 DEF ToldInv, IsUsed
    <3> QED BY <2>1, <2>2, <3>6, <3>7, <3>8 DEF ToldInv
  <2> QED BY <2>3, <2>4
<1> QED
  BY <1>1, <1>3, <1>5, <1>6, <1>7, <1>8, <1>9
  DEF StatusStep, statusVars, LoginReads, StoredMints, LoginCaches, LoginMints, LoginKeeps, OtherLoginEnds,
      LogoutForgets, LogoutClears, ProvidedMints, AnotherDoes, Otherwise

(* Each cache is of a credential of its kind, and what is told of one is of it, at any    *)
(* time.                                                                                  *)
LEMMA StatusAlways == Spec => [](AuthDirInv /\ ToldInv)
<1>1. Init => AuthDirInv /\ ToldInv
  <2> SUFFICES ASSUME StatusInit PROVE AuthDirInv /\ ToldInv
    BY DEF Init, SettingsInit
  <2>1. keeps \in [CredentialName -> Identities] /\ selects \in CredentialName \cup {"none"}
    BY DEF StatusInit, Identities, NoIdentity, StoredIdentity, LoginIdentity
  <2> DEFINE cache(i) == IF i = NoIdentity THEN NoCache ELSE [of |-> i, tokens |-> {UnscopedOf(i)}]
             ownCaches == [n \in CredentialName |-> cache(keeps[n])]
  <2>2. ASSUME NEW n \in CredentialName, NEW i \in {NoIdentity, StoredIdentity, EnvironmentIdentity},
               n = "apiKey" \/ i # EnvironmentIdentity
        PROVE  cache(i) \in Caches /\ Owned(n, cache(i))
    BY <2>2 DEF Owned, NoCache, Caches, Mint, UnscopedOf, Identities, NoIdentity, StoredIdentity,
                EnvironmentIdentity, LoginIdentity
  <2>3. tokenFile \in {ownCaches, [ownCaches EXCEPT !["apiKey"] = cache(EnvironmentIdentity)]}
    BY DEF StatusInit
  <2>4. \A n \in CredentialName : keeps[n] \in {NoIdentity, StoredIdentity}
    BY DEF StatusInit
  <2> HIDE DEF cache
  <2>5. ownCaches \in [CredentialName -> Caches] /\ \A n \in CredentialName : Owned(n, ownCaches[n])
    BY <2>2, <2>4 DEF NoIdentity, StoredIdentity, EnvironmentIdentity
  <2>6. "apiKey" \in CredentialName
    BY CredentialKinds
  <2>7. tokenFile \in [CredentialName -> Caches] /\ \A n \in CredentialName : Owned(n, tokenFile[n])
    BY <2>2, <2>3, <2>5, <2>6
  <2>8. AuthDirInv
    BY <2>1, <2>7 DEF StatusInit, AuthDirInv, NoLoginBeside, NoCache, Caches, Identities, NoIdentity, LoginIdentity
  <2>9. Told = {} /\ ToSet(unused) = {}
    BY CredentialKinds DEF StatusInit, Told, CredentialNames, ToSet
  <2> QED BY <2>8, <2>9 DEF StatusInit, ToldInv, NotUsed, Identities, NoIdentity, LoginIdentity
<1>2. AuthDirInv /\ ToldInv /\ [Next]_vars => (AuthDirInv /\ ToldInv)'
  BY PartSteps, AuthDirNext, ToldNext
<1> QED BY <1>1, <1>2, PTL DEF Spec

(* No token is shown under a credential that it was not minted for, and no credential of *)
(* the profile but the one in use is left out, whoever logs in and out meanwhile.         *)
THEOREM StatusStaysTrue == Spec => []StatusIsTrue
<1>1. ToldInv => StatusIsTrue
  <2>1. toTell = <<>> => Told = CredentialName
    BY DEF Told, ToSet
  <2> QED BY <2>1 DEF ToldInv, StatusIsTrue
<1> QED BY <1>1, StatusAlways, PTL
-----------------------------------------------------------------------------
(* TofuExec: what holds of exec at each place that it is at. *)
Before == {"opening", "checking", "overriding", "listening", "starting"}

PlaceInv ==
  /\ execPc \in Before => child = "none" /\ inHand = {} /\ ~lockTimer /\ ~refusals
  /\ execPc = "running" => child \in {"running", "ended"}
  /\ execPc = "closing" => child \in {"ended", "notStarted"}
  /\ execPc = "removing" => /\ inHand = {} /\ ~lockTimer
                            /\ \/ child \in {"ended", "notStarted"}
                               \/ child = "none" /\ problems # {}
  /\ child # "ended" => childCode = 0
  /\ childCode \in {-1, 0, 2}
  /\ refusals => problems # {}

OverrideInv ==
  /\ found \in {"none", "theirs"}
  /\ execPc \in {"opening", "checking", "overriding"} => override = found
  /\ execPc # "ended" => override = found \/ (override = "ours" /\ found = "none")

(* An interrupt that is still to be passed on counts as one that the command got. *)
InterruptInv ==
  /\ interrupts \in Nat /\ childInterrupts \in Nat
  /\ stdinTerminal => toForward # "interrupt"
  /\ stdinTerminal \/ ~foreground => /\ childInterrupts <= interrupts
                                     /\ toForward = "interrupt" => childInterrupts < interrupts

ExecInv == PlaceInv /\ OverrideInv /\ InterruptInv /\ ExecSettles

(* The steps that leave the place of exec and its override alone. *)
LEMMA SameOverride ==
  ASSUME OverrideInv, UNCHANGED <<found, execPc, override>>
  PROVE  OverrideInv'
  BY DEF OverrideInv

(* The steps that touch no signal. *)
LEMMA SameInterrupts ==
  ASSUME InterruptInv, UNCHANGED <<execFlags, signalVars>>
  PROVE  InterruptInv'
  BY DEF InterruptInv, execFlags, signalVars

(* Before exec has ended its end is of no matter. *)
LEMMA NotYetEnded ==
  ASSUME ExecInv, InterruptInv', execPc' # "ended", UNCHANGED execFlags, changed' => changed \/ Writable
  PROVE  ExecSettles'
<1>1. access' = access
  BY DEF execFlags
<1>2. changed' => Writable'
  BY <1>1 DEF ExecInv, ExecSettles, Writable
<1>3. childInterrupts' <= interrupts' \/ (foreground' /\ ~stdinTerminal')
  BY Zenon DEF InterruptInv
<1> DEFINE settled ==
       /\ inHand = {} /\ ~lockTimer /\ child # "running"
       /\ override = found \/ (leftOver /\ override = "ours" /\ found = "none")
       /\ exitCode = 0 => child = "ended" /\ childCode = 0 /\ ~refusals
       /\ child = "ended" /\ childCode = 0 /\ ~refusals /\ problems = {} => exitCode = 0
       /\ child = "ended" /\ childCode > 0 => exitCode = childCode
<1>4. execPc' = "ended" => settled'
  OBVIOUS
<1> QED BY <1>2, <1>3, <1>4 DEF ExecSettles

(* Every step of exec and of its command keeps the invariant. *)
LEMMA ExecNext == ExecInv /\ (ExecStep \/ UNCHANGED tofuVars) => ExecInv'
<1> SUFFICES ASSUME ExecInv, ExecStep \/ UNCHANGED tofuVars PROVE ExecInv'
  OBVIOUS
<1> USE DEF serveVars, ExecEnds
<1>1. CASE OpenStore \/ CheckRuns
  <2>1. /\ UNCHANGED <<execFlags, override, leftOver, child, childCode, signalVars, serveVars, problems>>
        /\ execPc \in {"opening", "checking"}
        /\ execPc' \in {"checking", "overriding"} \/ (execPc' = "ended" /\ exitCode' = 1)
    BY <1>1 DEF OpenStore, CheckRuns
  <2>2. InterruptInv'
    BY <2>1, SameInterrupts DEF ExecInv
  <2>3. PlaceInv' /\ OverrideInv'
    BY <2>1 DEF ExecInv, PlaceInv, OverrideInv, Before, execFlags
  <2>4. ExecSettles'
    BY <2>1, <2>2, NotYetEnded DEF ExecInv, PlaceInv, OverrideInv, Before, ExecSettles, execFlags, signalVars, Writable
  <2> QED BY <2>2, <2>3, <2>4 DEF ExecInv
<1>2. CASE WriteBackendOverride
  <2>1. /\ UNCHANGED <<execFlags, child, childCode, signalVars, serveVars, problems>>
        /\ execPc = "overriding" /\ override = found
        /\ \/ execPc' = "listening" /\ (override' = found \/ (override' = "ours" /\ found = "none"))
           \/ /\ execPc' = "ended" /\ exitCode' = 1
              /\ override' = found \/ (leftOver' /\ override' = "ours" /\ found = "none")
    BY <1>2 DEF WriteBackendOverride, ExecInv, OverrideInv
  <2>2. InterruptInv'
    BY <2>1, SameInterrupts DEF ExecInv
  <2>3. PlaceInv' /\ OverrideInv'
    BY <2>1 DEF ExecInv, PlaceInv, OverrideInv, Before, execFlags
  <2>4. ExecSettles'
    BY <2>1, <2>2, NotYetEnded DEF ExecInv, PlaceInv, OverrideInv, Before, ExecSettles, execFlags, signalVars, Writable
  <2> QED BY <2>2, <2>3, <2>4 DEF ExecInv
<1>3. CASE Listen
  <2>1. /\ UNCHANGED <<execFlags, override, leftOver, child, childCode, signalVars, serveVars>>
        /\ execPc = "listening"
        /\ \/ execPc' = "starting" /\ UNCHANGED problems
           \/ execPc' = "removing" /\ problems' # {}
    BY <1>3 DEF Listen
  <2>2. InterruptInv'
    BY <2>1, SameInterrupts DEF ExecInv
  <2>3. PlaceInv' /\ OverrideInv'
    BY <2>1 DEF ExecInv, PlaceInv, OverrideInv, Before, execFlags
  <2> QED BY <2>1, <2>2, <2>3, NotYetEnded DEF ExecInv
<1>4. CASE StartCommand \/ Shutdown
  <2>1. /\ UNCHANGED <<execFlags, override, leftOver, childCode, interrupts, childInterrupts, serveVars, problems>>
        /\ execPc \in {"starting", "running"} /\ execPc' \in {"running", "closing"}
        /\ toForward' \in {toForward, "none"}
        /\ \/ execPc = "starting" /\ <<child', execPc'>> \in {<<"running", "running">>, <<"notStarted", "closing">>}
           \/ child = "ended" /\ child' = "ended" /\ execPc' = "closing"
    BY <1>4 DEF StartCommand, Shutdown
  <2>2. InterruptInv'
    BY <2>1 DEF ExecInv, InterruptInv, execFlags
  <2>3. PlaceInv' /\ OverrideInv'
    BY <2>1 DEF ExecInv, PlaceInv, OverrideInv, Before, execFlags
  <2> QED BY <2>1, <2>2, <2>3, NotYetEnded DEF ExecInv
<1>5. ASSUME NEW atTerminal \in BOOLEAN, SendInterrupt(atTerminal) PROVE ExecInv'
  <2>1. /\ UNCHANGED <<execFlags, execPc, override, leftOver, child, childCode, serveVars, problems, exitCode>>
        /\ execPc # "ended"
    BY <1>5 DEF SendInterrupt
  <2>2. InterruptInv'
    BY <1>5 DEF SendInterrupt, Catch, ForwardsInterrupts, ExecInv, InterruptInv, execFlags
  <2>3. PlaceInv' /\ OverrideInv'
    BY <2>1, SameOverride DEF ExecInv, PlaceInv, execFlags
  <2> QED BY <2>1, <2>2, <2>3, NotYetEnded DEF ExecInv
<1>6. CASE SendTerminate
  <2>1. /\ UNCHANGED <<execFlags, override, leftOver, child, childCode, interrupts, childInterrupts,
                       served, lockTimer, refusals, changed, problems, exitCode>>
        /\ execPc # "ended" /\ toForward' \in {toForward, "terminate"}
        /\ UNCHANGED <<execPc, inHand>> \/ execPc' = "killed"
    BY <1>6 DEF SendTerminate, Catch
  <2>2. InterruptInv'
    BY <2>1 DEF ExecInv, InterruptInv, execFlags
  <2>3. PlaceInv' /\ OverrideInv'
    BY <2>1 DEF ExecInv, PlaceInv, OverrideInv, Before, execFlags
  <2> QED BY <2>1, <2>2, <2>3, NotYetEnded DEF ExecInv
<1>7. CASE ForwardSignal
  <2>1. UNCHANGED <<execFlags, execPc, override, leftOver, child, childCode, serveVars, problems, exitCode>>
        /\ execPc # "ended"
    BY <1>7 DEF ForwardSignal
  <2>2. InterruptInv'
    BY <1>7 DEF ForwardSignal, ExecInv, InterruptInv, execFlags
  <2>3. PlaceInv' /\ OverrideInv'
    BY <2>1, SameOverride DEF ExecInv, PlaceInv, execFlags
  <2> QED BY <2>1, <2>2, <2>3, NotYetEnded DEF ExecInv
<1>8. CASE CommandEnds
  <2>1. /\ UNCHANGED <<execFlags, execPc, override, leftOver, signalVars, serveVars, problems, exitCode>>
        /\ execPc = "running" /\ child' = "ended" /\ childCode' \in {-1, 0, 2}
    BY <1>8 DEF CommandEnds
  <2>2. InterruptInv'
    BY <2>1, SameInterrupts DEF ExecInv
  <2>3. PlaceInv' /\ OverrideInv'
    BY <2>1, SameOverride DEF ExecInv, PlaceInv, Before, execFlags
  <2> QED BY <2>1, <2>2, <2>3, NotYetEnded DEF ExecInv
<1>9. CASE Request
  <2>1. /\ UNCHANGED <<execFlags, execPc, override, leftOver, child, childCode, signalVars, lockTimer,
                       refusals, changed, problems, exitCode>>
        /\ execPc = "running"
    BY <1>9 DEF Request
  <2>2. InterruptInv'
    BY <2>1, SameInterrupts DEF ExecInv
  <2>3. PlaceInv' /\ OverrideInv'
    BY <2>1, SameOverride DEF ExecInv, PlaceInv, Before, execFlags
  <2> QED BY <2>1, <2>2, <2>3, NotYetEnded DEF ExecInv
<1>10. ASSUME NEW k \in inHand, Succeed(k) \/ FailOrPassLock(k) \/ Refuse(k) PROVE ExecInv'
  <2>1. UNCHANGED <<execFlags, execPc, override, leftOver, child, childCode, signalVars, exitCode>>
    BY <1>10 DEF Succeed, FailOrPassLock, Refuse, Replied
  <2>2. execPc \notin Before \cup {"removing", "ended"}
    BY <1>10 DEF ExecInv, PlaceInv, ExecSettles
  <2>3. InterruptInv'
    BY <2>1, SameInterrupts DEF ExecInv
  <2>4. refusals' => problems' # {}
    BY <1>10 DEF Succeed, FailOrPassLock, Refuse, ExecInv, PlaceInv
  <2>5. changed' => changed \/ Writable
    BY <1>10 DEF Succeed, FailOrPassLock, Refuse, AsksMeshStack, MustRefuse
  <2>6. PlaceInv' /\ OverrideInv'
    BY <2>1, <2>2, <2>4, SameOverride DEF ExecInv, PlaceInv, Before, execFlags
  <2> QED BY <2>1, <2>2, <2>3, <2>5, <2>6, NotYetEnded DEF ExecInv
<1>11. CASE ServeEnds
  <2>1. /\ UNCHANGED <<execFlags, override, leftOver, child, childCode, signalVars, inHand, refusals, changed>>
        /\ execPc = "closing" /\ execPc' = "removing" /\ inHand = {} /\ lockTimer' = FALSE
        /\ problems \subseteq problems'
    BY <1>11 DEF ServeEnds
  <2>2. InterruptInv'
    BY <2>1, SameInterrupts DEF ExecInv
  <2>3. PlaceInv' /\ OverrideInv'
    BY <2>1 DEF ExecInv, PlaceInv, OverrideInv, Before, execFlags
  <2> QED BY <2>1, <2>2, <2>3, NotYetEnded DEF ExecInv
<1>12. CASE RemoveOverride
  <2>1. /\ UNCHANGED <<execFlags, child, childCode, signalVars, serveVars, problems>>
        /\ execPc = "removing" /\ execPc' = "ended" /\ exitCode' = ExitCode
    BY <1>12 DEF RemoveOverride
  <2>2. override' = found \/ (leftOver' /\ override' = "ours" /\ found = "none")
    BY <1>12 DEF RemoveOverride, ExecInv, OverrideInv
  <2>3. InterruptInv'
    BY <2>1, SameInterrupts DEF ExecInv
  <2>4. PlaceInv' /\ OverrideInv'
    BY <2>1 DEF ExecInv, PlaceInv, OverrideInv, Before, execFlags
  <2>5. /\ exitCode' = 0 => child = "ended" /\ childCode = 0 /\ ~refusals
        /\ child = "ended" /\ childCode = 0 /\ problems = {} => exitCode' = 0
        /\ child = "ended" /\ childCode > 0 => exitCode' = childCode
    BY <2>1 DEF ExitCode, ExecInv, PlaceInv
  <2>6. (changed => Writable)' /\ (childInterrupts <= interrupts \/ (foreground /\ ~stdinTerminal))'
    BY <2>1 DEF ExecInv, ExecSettles, execFlags, signalVars, Writable
  <2>7. ExecSettles'
    BY <2>1, <2>2, <2>5, <2>6 DEF ExecInv, PlaceInv, ExecSettles, execFlags
  <2> QED BY <2>3, <2>4, <2>7 DEF ExecInv
<1>13. CASE UNCHANGED tofuVars
  BY <1>13 DEF tofuVars, execFlags, signalVars, ExecInv, PlaceInv, OverrideInv, InterruptInv, ExecSettles, Writable
<1> QED
  BY <1>1, <1>2, <1>3, <1>4, <1>5, <1>6, <1>7, <1>8, <1>9, <1>10, <1>11, <1>12, <1>13 DEF ExecStep

(* When tfstate exec has ended it has waited for its requests, has removed its backend   *)
(* override or has said why not, and has the exit code of the command and its problems;   *)
(* tofu gets no more interrupts than there were, unless the terminal and exec both send.  *)
THEOREM ExecAlwaysSettles == Spec => []ExecSettles
<1>1. Init => ExecInv
  <2>1. Init => ExecInit
    BY DEF Init, TofuInit
  <2> QED BY <2>1 DEF ExecInit, ExecInv, PlaceInv, OverrideInv, InterruptInv, ExecSettles, Before
<1>2. ExecInv /\ [Next]_vars => ExecInv'
  BY PartSteps, ExecNext
<1>3. ExecInv => ExecSettles
  BY DEF ExecInv
<1> QED BY <1>1, <1>2, <1>3, PTL DEF Spec
-----------------------------------------------------------------------------
(* LoginChoice: what is settled at each place that the login is at. *)
Chosen ==
  /\ loginTo \in candidates \cup (StorableName \ before.names)
  /\ givenName \in {loginTo, Nobody}
  /\ ~(with = "browser" /\ secretOnStdin)

(* The workspace that a login has resolved, which is "failure" where it has none. *)
Settled ==
  /\ givenPlace # NoPlace => place = givenPlace
  /\ place \in offered \cup {givenPlace, before.place[loginTo], Failure}
  /\ with = "browser" => place \in offered \cup {givenPlace, Failure} /\ place # NoPlace

ChoiceInv ==
  /\ before \in Keepable /\ before.loggedIn = {} /\ kept \in Keepable
  /\ candidates \subseteq before.names /\ offered \subseteq Place
  /\ with \in {"browser", "apikey", "apitoken"} /\ givenPlace \in Place \cup {NoPlace}
  /\ givenName \in StorableName \cup {Nobody}
  /\ loginAt \notin {"profile", "failed"} => Chosen
  /\ loginAt \in {"listing", "selecting"} => Selects /\ givenPlace = NoPlace
  /\ loginAt \in {"minting", "storing"} => Settled
  /\ loginAt \in {"profile", "credential"} => ~tokens
  /\ loginAt \notin {"loggedIn", "unlocking", "failed"} => kept = before
  /\ LoginAsChosen

(* The steps before anything is stored. *)
LEMMA NothingStored ==
  ASSUME ChoiceInv, UNCHANGED <<givenVars, kept>>, kept = before, loginAt' # "loggedIn",
         secretOnStdin => questions' = {}, loginAt' = "failed" => ~tokens'
  PROVE  LoginAsChosen'
  BY DEF ChoiceInv, LoginAsChosen, givenVars

(* A step of the login keeps its invariant. *)
LEMMA ChoiceNext == ChoiceInv /\ (LoginSteps \/ UNCHANGED choiceVars) => ChoiceInv'
<1> SUFFICES ASSUME ChoiceInv, LoginSteps \/ UNCHANGED choiceVars PROVE ChoiceInv'
  OBVIOUS
<1>1. CASE RefuseStdin \/ FailToChoose \/ FailCredential
  <2>1. /\ loginAt \in {"profile", "credential"} /\ loginAt' = "failed"
        /\ UNCHANGED <<givenVars, kept, loginTo, tokens, offered, place, questions>>
    BY <1>1 DEF RefuseStdin, FailToChoose, FailCredential, Abandon
  <2>2. kept = before /\ ~tokens /\ (secretOnStdin => questions = {})
    BY <2>1 DEF ChoiceInv, LoginAsChosen
  <2>3. LoginAsChosen'
    BY <2>1, <2>2, NothingStored
  <2> QED BY <2>1, <2>2, <2>3 DEF ChoiceInv, givenVars
<1>2. CASE ChooseProfile \/ TakeCurrentProfile
  <2>1. /\ loginAt = "profile" /\ loginAt' = "credential"
        /\ UNCHANGED <<givenVars, kept, tokens, offered, place>>
        /\ secretOnStdin => questions' = questions
    BY <1>2 DEF ChooseProfile, TakeCurrentProfile, TakeName, LogsInTo, AsksForProfile
  <2>2. loginTo' \in candidates \cup (StorableName \ before.names) /\ givenName \in {loginTo', Nobody}
    BY <1>2, LoginAssumption DEF ChooseProfile, TakeCurrentProfile, TakeName, LogsInTo, CurrentIsCandidate, ChoiceInv
  <2>3. ~(with = "browser" /\ secretOnStdin)
    BY <1>2 DEF ChooseProfile, TakeCurrentProfile, AsksForProfile
  <2>4. kept = before /\ ~tokens /\ (secretOnStdin => questions' = {})
    BY <2>1 DEF ChoiceInv, LoginAsChosen
  <2>5. LoginAsChosen'
    BY <2>1, <2>4, NothingStored
  <2> QED BY <2>1, <2>2, <2>3, <2>4, <2>5 DEF ChoiceInv, Chosen, givenVars
<1>3. CASE ResolveCredential
  <2>1. /\ loginAt = "credential" /\ loginAt' = "workspace"
        /\ UNCHANGED <<givenVars, kept, loginTo, offered, place, questions>>
    BY <1>3 DEF ResolveCredential
  <2>2. kept = before /\ (secretOnStdin => questions = {})
    BY <2>1 DEF ChoiceInv, LoginAsChosen
  <2>3. LoginAsChosen'
    BY <2>1, <2>2, NothingStored
  <2> QED BY <2>1, <2>2, <2>3 DEF ChoiceInv, Chosen, givenVars
<1>4. CASE ResolveWorkspaceForLogin
  <2>1. /\ loginAt = "workspace" /\ loginAt' \in {"minting", "listing"}
        /\ UNCHANGED <<givenVars, kept, loginTo, tokens, offered, questions>>
    BY <1>4 DEF ResolveWorkspaceForLogin, Resolved
  <2>2. kept = before /\ (secretOnStdin => questions = {})
    BY <2>1 DEF ChoiceInv, LoginAsChosen
  <2>3. LoginAsChosen'
    BY <2>1, <2>2, NothingStored
  <2>4. loginAt' = "listing" => (Selects /\ givenPlace = NoPlace)'
    BY <1>4, <2>1 DEF ResolveWorkspaceForLogin, Resolved, givenVars, Selects
  <2>5. loginAt' = "minting" => Settled'
    BY <1>4, <2>1, <2>2 DEF ResolveWorkspaceForLogin, Resolved, givenVars, Selects, Settled, DefaultPlace
  <2> QED BY <2>1, <2>2, <2>3, <2>4, <2>5 DEF ChoiceInv, Chosen, givenVars
<1>5. CASE ListWorkspaces \/ SelectWorkspace \/ EndOfSelection \/ LeaveSelection
  <2>1. /\ loginAt \in {"listing", "selecting"} /\ loginAt' \in {"selecting", "minting"}
        /\ UNCHANGED <<givenVars, kept, loginTo, tokens>> /\ offered' \subseteq Place
    BY <1>5 DEF ListWorkspaces, SelectWorkspace, EndOfSelection, LeaveSelection, Resolved, ChoiceInv
  <2>2. kept = before /\ Selects /\ Chosen /\ givenPlace = NoPlace
    BY <2>1 DEF ChoiceInv
  <2>3. ~secretOnStdin
    BY <2>2 DEF Selects, Chosen
  <2>4. LoginAsChosen'
    BY <2>1, <2>2, <2>3, NothingStored
  <2>5. (Selects /\ Chosen /\ givenPlace = NoPlace)'
    BY <2>1, <2>2 DEF Selects, Chosen, givenVars
  <2>6. loginAt' = "minting" => Settled'
    <3>1. ASSUME loginAt' = "minting"
          PROVE  \/ place' \in offered'
                 \/ place' = Failure
                 \/ place' = before.place[loginTo] /\ with = "apikey"
      BY <1>5, <2>2, <3>1 DEF ListWorkspaces, SelectWorkspace, EndOfSelection, LeaveSelection, Resolved,
         DefaultPlace, ProfileDefault, Optional
    <3>2. NoPlace \notin Place /\ NoPlace # Failure
      BY LoginAssumption DEF NoPlace, Failure
    <3> QED BY <2>1, <2>2, <3>1, <3>2 DEF Settled, givenVars
  <2> QED BY <2>1, <2>2, <2>4, <2>5, <2>6 DEF ChoiceInv, givenVars
<1>6. CASE GetBearerToken
  <2>1. /\ loginAt = "minting" /\ loginAt' = "storing"
        /\ UNCHANGED <<givenVars, kept, loginTo, tokens, offered, place, questions>>
    BY <1>6 DEF GetBearerToken
  <2>2. kept = before /\ (secretOnStdin => questions = {})
    BY <2>1 DEF ChoiceInv, LoginAsChosen
  <2>3. LoginAsChosen'
    BY <2>1, <2>2, NothingStored
  <2> QED BY <2>1, <2>2, <2>3 DEF ChoiceInv, Chosen, Settled, givenVars
<1>7. CASE FailToken \/ RefuseFailure
  <2>1. /\ loginAt \in {"minting", "storing"} /\ loginAt' = "unlocking"
        /\ UNCHANGED <<givenVars, kept, loginTo, tokens, offered, place, questions>>
    BY <1>7 DEF FailToken, RefuseFailure, GiveBack
  <2>2. kept = before /\ (secretOnStdin => questions = {})
    BY <2>1 DEF ChoiceInv, LoginAsChosen
  <2>3. LoginAsChosen'
    BY <2>1, <2>2, NothingStored
  <2> QED BY <2>1, <2>2, <2>3 DEF ChoiceInv, Chosen, givenVars
<1>8. CASE StoreSession
  <2>1. /\ loginAt = "storing" /\ place # Failure /\ loginAt' \in {"unlocking", "loggedIn", "failed"}
        /\ UNCHANGED <<givenVars, loginTo, tokens, offered, place, questions>>
    BY <1>8 DEF StoreSession
  <2>2. kept = before /\ Chosen /\ Settled
    BY <2>1 DEF ChoiceInv
  <2>3. PICK credentialStored \in BOOLEAN, currentSet \in BOOLEAN :
          LET now == IF currentSet THEN WithProfile ELSE kept IN
          /\ kept' = IF credentialStored THEN [now EXCEPT !.loggedIn = {loginTo}] ELSE now
          /\ loginAt' = CASE ~credentialStored -> "unlocking"
                          [] credentialStored /\ currentSet -> "loggedIn" [] OTHER -> "failed"
    BY <1>8 DEF StoreSession
  <2>4. loginTo \in StorableName /\ place \in Place \cup {NoPlace}
    BY <2>1, <2>2 DEF ChoiceInv, Chosen, Settled, Keepable
  <2>5. /\ WithProfile \in Keepable /\ WithProfile.current = loginTo /\ WithProfile.loggedIn = {}
        /\ \A n \in StorableName :
             WithProfile.place[n] = IF n = loginTo /\ place # NoPlace THEN place ELSE before.place[n]
    BY <2>2, <2>4 DEF WithProfile, Keepable, ChoiceInv
  <2>6. /\ kept' \in Keepable
        /\ kept'.loggedIn = (IF credentialStored THEN {loginTo} ELSE {})
        /\ kept'.place = (IF currentSet THEN WithProfile.place ELSE before.place)
        /\ currentSet => kept'.current = loginTo
    BY <2>2, <2>3, <2>4, <2>5 DEF Keepable, ChoiceInv
  <2>7. loginAt' = "loggedIn" => credentialStored /\ currentSet
    BY <2>3
  <2>8. loginAt' = "failed" => credentialStored
    BY <2>3
  <2>9. \A n \in StorableName :
          kept'.place[n] # before.place[n] => n = loginTo /\ kept'.place[n] \in offered \cup {givenPlace}
    <3>1. place \in offered \cup {givenPlace, before.place[loginTo]}
      BY <2>1, <2>2 DEF Settled
    <3>2. \A n \in StorableName :
            kept'.place[n] # before.place[n] => n = loginTo /\ kept'.place[n] = place
      BY <2>5, <2>6
    <3> QED BY <3>1, <3>2
  <2>10. loginAt' = "loggedIn" =>
           /\ kept'.current = loginTo /\ kept'.loggedIn = {loginTo}
           /\ givenName \in {loginTo, Nobody} /\ givenPlace \in {kept'.place[loginTo], NoPlace}
           /\ with = "browser" => kept'.place[loginTo] \in (offered \cup {givenPlace}) \ {NoPlace}
    BY <2>1, <2>2, <2>4, <2>5, <2>6, <2>7 DEF Settled, Chosen
  <2>11. secretOnStdin => questions = {}
    BY DEF ChoiceInv, LoginAsChosen
  <2>12. LoginAsChosen'
    BY <2>1, <2>2, <2>6, <2>8, <2>9, <2>10, <2>11 DEF LoginAsChosen, Chosen, givenVars
  <2> QED BY <2>1, <2>2, <2>6, <2>12 DEF ChoiceInv, Chosen, givenVars
<1>9. CASE Unlock
  <2>1. /\ loginAt = "unlocking" /\ loginAt' = "failed" /\ tokens' = FALSE
        /\ UNCHANGED <<givenVars, kept, loginTo, offered, place, questions>>
    BY <1>9 DEF Unlock
  <2>2. LoginAsChosen'
    BY <2>1 DEF ChoiceInv, LoginAsChosen, givenVars
  <2> QED BY <2>1, <2>2 DEF ChoiceInv, givenVars
<1>10. CASE UNCHANGED choiceVars
  BY <1>10 DEF choiceVars, givenVars, ChoiceInv, Chosen, Settled, Selects, LoginAsChosen
<1> QED BY <1>1, <1>2, <1>3, <1>4, <1>5, <1>6, <1>7, <1>8, <1>9, <1>10 DEF LoginSteps

(* What a login has settled is what was given or chosen, at any time.                     *)
LEMMA ChoiceAlways == Spec => []ChoiceInv
<1>1. Init => ChoiceInv
  <2>1. Init => LoginInit
    BY DEF Init, SettingsInit
  <2>2. LoginInit => kept \in Keepable /\ kept.loggedIn = {} /\ before = kept
    BY LoginAssumption DEF LoginInit
  <2>3. LoginInit => LoginAsChosen
    BY <2>2 DEF LoginInit, LoginAsChosen
  <2> QED BY <2>1, <2>2, <2>3 DEF LoginInit, ChoiceInv
<1>2. ChoiceInv /\ [Next]_vars => ChoiceInv'
  BY PartSteps, ChoiceNext
<1> QED BY <1>1, <1>2, PTL DEF Spec

(* A login goes to the profile and the workspace that its person named or chose; no       *)
(* credential comes to a profile of another endpoint, whatever fails and whenever the     *)
(* input ends.                                                                            *)
THEOREM LoginGoesAsChosen == Spec => []LoginAsChosen
<1>1. ChoiceInv => LoginAsChosen
  BY DEF ChoiceInv
<1> QED BY <1>1, ChoiceAlways, PTL
-----------------------------------------------------------------------------
(* ProfileMenu: what the list holds differs from what is stored by what its person has   *)
(* changed and could not store.                                                          *)
HoldsWhatIsStored ==
  holder = "menu" /\ ~unguarded => Differs(file, memory) \subseteq touched

(* What a key of the list changes counts as touched. *)
LEMMA StoreTouches ==
  ASSUME HoldsWhatIsStored, NEW p, Store(p), holder' \in {holder, "nobody"},
         unguarded' = (unguarded \/ holder # "menu")
  PROVE  /\ HoldsWhatIsStored'
         /\ Differs(file, file') \subseteq touched' \/ unguarded'
<1>1. memory' = p /\ touched' = touched \cup Differs(memory, p) /\ file' \in {p, file}
  BY DEF Store
<1>2. unguarded' \/ Differs(file, memory) \subseteq touched
  BY DEF HoldsWhatIsStored
<1>3. unguarded' \/ Differs(file, p) \subseteq touched'
  BY <1>1, <1>2 DEF Differs
<1>4. Differs(p, p) = {} /\ Differs(file, file) = {}
  BY DEF Differs
<1>5. Differs(file', memory') \subseteq touched' \/ unguarded'
  BY <1>1, <1>3, <1>4
<1>6. Differs(file, file') \subseteq touched' \/ unguarded'
  BY <1>1, <1>3, <1>4
<1> QED BY <1>5, <1>6, Zenon DEF HoldsWhatIsStored

(* The steps that store nothing and change no profile. *)
LEMMA NothingTouched ==
  ASSUME HoldsWhatIsStored, UNCHANGED <<file, memory, touched>>,
         holder' = "menu" => holder = "menu", unguarded => unguarded'
  PROVE  /\ HoldsWhatIsStored'
         /\ Differs(file, file') \subseteq touched' \/ unguarded'
<1>1. Differs(file, file') = {} /\ Differs(file', memory') = Differs(file, memory)
  BY DEF Differs
<1> QED BY <1>1, Zenon DEF HoldsWhatIsStored

(* A step of the menu, or beside it. *)
LEMMA MenuNext ==
  ASSUME HoldsWhatIsStored, MenuStep \/ UNCHANGED menuVars
  PROVE  /\ HoldsWhatIsStored'
         /\ writer' = "menu" => Differs(file, file') \subseteq touched' \/ unguarded'
<1> USE DEF fileVars, formVars, execVars
<1>1. ASSUME Finish \/ UNCHANGED holder \/ holder' = Unlocked
      PROVE  holder' \in {holder, "nobody"}
  BY <1>1 DEF Finish, Unlocked
<1>2. ASSUME NEW n \in Profile, PressUse(n) \/ Submitted(n) \/ Confirmed
      PROVE  \/ \E p : Store(p)
             \/ UNCHANGED <<file, writer, memory, touched>>
  BY <1>2 DEF PressUse, Submitted, Confirmed
<1>3. ASSUME NEW n \in Profile, PressUse(n) \/ Submitted(n) \/ Confirmed
      PROVE  holder' \in {holder, "nobody"} /\ unguarded' = (unguarded \/ holder # "menu")
  BY <1>1, <1>3 DEF PressUse, Submitted, Confirmed, Key
<1>4. CASE Confirmed \/ \E n \in Profile : PressUse(n) \/ Submitted(n)
  <2>1. PICK n \in Profile : PressUse(n) \/ Submitted(n) \/ Confirmed
    BY <1>4, MenuAssumption
  <2>2. CASE \E p : Store(p)
    BY <1>3, <2>1, <2>2, StoreTouches
  <2>3. CASE UNCHANGED <<file, writer, memory, touched>>
    BY <1>3, <2>1, <2>3, NothingTouched
  <2> QED BY <1>2, <2>1, <2>2, <2>3
<1>5. CASE PressAdd \/ Quit \/ Cancelled \/ (\E e \in Endpoint \cup {NoProfile} : Type(e))
           \/ \E n \in Profile : PressEdit(n) \/ PressDelete(n) \/ PressLogin(n)
  <2>1. UNCHANGED <<file, memory, touched>> /\ unguarded' = (unguarded \/ holder # "menu")
    BY <1>5 DEF PressAdd, Quit, Cancelled, Type, PressEdit, PressDelete, PressLogin, Key
  <2>2. holder' \in {holder, "nobody"}
    BY <1>1, <1>5 DEF PressAdd, Quit, Cancelled, Type, PressEdit, PressDelete, PressLogin
  <2> QED BY <2>1, <2>2, NothingTouched
<1>6. CASE Exec \/ LoginLocks \/ LoginFails \/ LoginEnds \/ OtherLocks
           \/ \E m \in pending : WorkspacesLookedUp(m) \/ WorkspaceLookupDue(m)
  <2>1. UNCHANGED <<file, memory, touched, unguarded>>
    BY <1>6 DEF Exec, LoginLocks, LoginFails, LoginEnds, OtherLocks, WorkspacesLookedUp, WorkspaceLookupDue, LoginStep
  <2>2. holder' = "menu" => holder = "menu"
    BY <1>6 DEF Exec, LoginLocks, LoginFails, LoginEnds, OtherLocks, WorkspacesLookedUp, WorkspaceLookupDue, Unlocked
  <2> QED BY <2>1, <2>2, NothingTouched
<1>7. CASE LoggedIn
  <2>1. memory' = file /\ UNCHANGED file
    BY <1>7 DEF LoggedIn
  <2>2. Differs(file, file') = {} /\ Differs(file', memory') = {}
    BY <2>1 DEF Differs
  <2> QED BY <2>2 DEF HoldsWhatIsStored
<1>8. CASE LoginStores \/ \E n \in Profile, e \in Endpoint : OtherStores(n, e)
  BY <1>8 DEF LoginStores, OtherStores, HoldsWhatIsStored
<1>9. CASE UNCHANGED menuVars
  BY <1>9, NothingTouched DEF menuVars
<1> QED BY <1>4, <1>5, <1>6, <1>7, <1>8, <1>9 DEF MenuStep, Pressed

(* What the list keeps is what it changes: no other profile than the person's, and of     *)
(* what others stored nothing, unless a key was taken while the list held no profiles.    *)
THEOREM MenuChangesItsOwn == Spec => OnlyItsChange
<1>1. Init => HoldsWhatIsStored
  <2>1. Init => memory = file
    BY DEF Init, PersonInit, MenuInit
  <2> QED BY <2>1 DEF HoldsWhatIsStored, Differs
<1>2. HoldsWhatIsStored /\ [Next]_vars => HoldsWhatIsStored'
  BY PartSteps, MenuNext
<1>3. HoldsWhatIsStored /\ [Next]_vars =>
        [writer' = "menu" => Differs(file, file') \subseteq touched' \/ unguarded']_menuVars
  BY PartSteps, MenuNext
<1> QED BY <1>1, <1>2, <1>3, PTL DEF Spec, OnlyItsChange
-----------------------------------------------------------------------------
(* HeldLogs: what a goroutine has logged is held or in the journal, once, and of what is  *)
(* held the journal has as much as was flushed.                                           *)
IsLogged(r) == r[2] \in Logged(r[1])

LogTypeOK ==
  /\ logging \in [Logger -> {"none", "info", "warn", "through"}]
  /\ logged \in [Logger -> 0..MaxRecords]
  /\ \A w \in Logger : logging[w] # "none" => logged[w] # 0
  /\ held \in Seq(Record) /\ journal \in Seq(Record) /\ flushed \in 0..Len(held)
  /\ warned \in Nat /\ told \in Nat
  /\ releasePc \in {"running", "closed", "forwarded", "restored", "flushing", "done"}

HeldInv ==
  /\ LogTypeOK
  /\ IsInjective(held) /\ \A r \in ToSet(held) : IsLogged(r)
  /\ IsInjective(journal) /\ \A r \in ToSet(journal) : IsLogged(r)
  /\ \A w \in Logger : \A n \in Logged(w) : <<w, n>> \in ToSet(held) \cup ToSet(journal)
  /\ \A b \in DOMAIN held : b <= flushed <=> held[b] \in ToSet(journal)
  /\ HeldInOrder
  /\ releasePc \in {"flushing", "done"} => released
  /\ releasePc = "done" => flushed = Len(held)
  /\ releasePc = "running" /\ told < warned => signal \/ forwarding = "signalled"

(* A sequence with one more element at its end. *)
HasOneMore(t, s, x) ==
  /\ Len(s) \in Nat /\ Len(t) = Len(s) + 1 /\ DOMAIN s = 1..Len(s) /\ DOMAIN t = 1..(Len(s) + 1)
  /\ t[Len(s) + 1] = x /\ \A i \in 1..Len(s) : t[i] = s[i]
  /\ ToSet(t) = ToSet(s) \cup {x}
  /\ IsInjective(s) /\ x \notin ToSet(s) => IsInjective(t)

(* What appending does to a sequence. *)
LEMMA OneMoreIn ==
  ASSUME NEW S, NEW s \in Seq(S), NEW x \in S, NEW t, t = Append(s, x)
  PROVE  t \in Seq(S) /\ HasOneMore(t, s, x)
<1>1. /\ t \in Seq(S) /\ Len(s) \in Nat /\ Len(t) = Len(s) + 1
      /\ DOMAIN s = 1..Len(s) /\ DOMAIN t = 1..(Len(s) + 1)
      /\ t[Len(s) + 1] = x /\ \A i \in 1..Len(s) : t[i] = s[i]
  OBVIOUS
<1>2. 1..(Len(s) + 1) = 1..Len(s) \cup {Len(s) + 1} /\ Len(s) + 1 \notin 1..Len(s)
  BY <1>1
<1>3. ToSet(t) = ToSet(s) \cup {x}
  <2>1. ASSUME NEW y \in ToSet(t) PROVE y \in ToSet(s) \cup {x}
    BY <1>1, <1>2, <2>1 DEF ToSet
  <2>2. x \in ToSet(t)
    BY <1>1, <1>2 DEF ToSet
  <2>3. ASSUME NEW y \in ToSet(s) PROVE y \in ToSet(t)
    <3>1. PICK i \in 1..Len(s) : y = s[i]
      BY <1>1, <2>3 DEF ToSet
    <3>2. i \in DOMAIN t /\ y = t[i]
      BY <1>1, <1>2, <3>1
    <3> QED BY <3>2 DEF ToSet
  <2> QED BY <2>1, <2>2, <2>3
<1>4. ASSUME IsInjective(s), x \notin ToSet(s) PROVE IsInjective(t)
  <2>1. \A i \in 1..Len(s) : s[i] # x
    BY <1>1, <1>4 DEF ToSet
  <2>2. \A i, j \in 1..Len(s) : s[i] = s[j] => i = j
    BY <1>1, <1>4 DEF IsInjective
  <2> SUFFICES ASSUME NEW i \in DOMAIN t, NEW j \in DOMAIN t, t[i] = t[j] PROVE i = j
    BY DEF IsInjective
  <2> QED BY <1>1, <1>2, <2>1, <2>2
<1> QED BY <1>1, <1>3, <1>4 DEF HasOneMore

(* The record that a goroutine is logging is not yet held nor in the journal, and ends as *)
(* the one more that is logged.                                                           *)
LEMMA EndsLogging ==
  ASSUME LogTypeOK, NEW w \in Logger, logging[w] # "none", UNCHANGED logged,
         logging' = [logging EXCEPT ![w] = "none"]
  PROVE  /\ Rec(w) \in Record /\ ~IsLogged(Rec(w)) /\ IsLogged(Rec(w))'
         /\ \A u \in Logger, n \in Nat : n \in Logged(u)' <=> n \in Logged(u) \/ <<u, n>> = Rec(w)
<1> USE LoggerAssumption DEF LogTypeOK
<1>1. logged[w] \in 1..MaxRecords /\ logged[w] \in Nat
  OBVIOUS
<1>2. \A u \in Logger : logging'[u] = IF u = w THEN "none" ELSE logging[u]
  OBVIOUS
<1>3. \A u \in Logger, n \in Nat : n \in Logged(u)' <=> n \in Logged(u) \/ <<u, n>> = Rec(w)
  <2> SUFFICES ASSUME NEW u \in Logger, NEW n \in Nat
               PROVE  n \in Logged(u)' <=> n \in Logged(u) \/ (u = w /\ n = logged[w])
    BY DEF Rec
  <2>1. logged[u] \in Nat /\ logged'[u] = logged[u]
    OBVIOUS
  <2>2. CASE u = w
    BY <1>1, <1>2, <2>1, <2>2 DEF Logged
  <2>3. CASE u # w
    BY <1>2, <2>1, <2>3 DEF Logged
  <2> QED BY <2>2, <2>3
<1>4. Rec(w) \in Record /\ ~IsLogged(Rec(w))
  BY <1>1 DEF Rec, Record, IsLogged, Logged
<1>5. Rec(w)' = Rec(w)
  BY DEF Rec
<1>6. logged[w] \in Logged(w)'
  BY <1>1, <1>2 DEF Logged
<1> QED BY <1>3, <1>4, <1>5, <1>6 DEF IsLogged, Rec

(* Until a record has been logged nothing is more than it was. *)
LEMMA SameLogged ==
  ASSUME LogTypeOK, NEW w \in Logger,
         \/ /\ logging[w] = "none" /\ logging' = [logging EXCEPT ![w] = logging'[w]]
            /\ logging'[w] \in {"info", "warn"} /\ logged' = [logged EXCEPT ![w] = @ + 1]
         \/ /\ logging[w] # "none" /\ logging' = [logging EXCEPT ![w] = "through"]
            /\ UNCHANGED logged
  PROVE  \A u \in Logger : Logged(u)' = Logged(u)
<1> SUFFICES ASSUME NEW u \in Logger PROVE Logged(u)' = Logged(u)
  OBVIOUS
<1>1. logged[u] \in Nat
  BY LoggerAssumption DEF LogTypeOK
<1>2. CASE u # w
  <2>1. logged'[u] = logged[u] /\ logging'[u] = logging[u]
    BY <1>2 DEF LogTypeOK
  <2> QED BY <2>1 DEF Logged
<1>3. CASE u = w /\ logging[w] = "none"
  <2>1. logged'[u] = logged[u] + 1 /\ logging'[u] # "none" /\ logging[u] = "none"
    BY <1>3 DEF LogTypeOK
  <2>2. Logged(u)' = {n \in 1..(logged[u] + 1) : n < logged[u] + 1}
    BY <2>1 DEF Logged
  <2>3. Logged(u) = 1..logged[u]
    BY <2>1 DEF Logged
  <2> QED BY <1>1, <2>2, <2>3
<1>4. CASE u = w /\ logging[w] # "none"
  <2>1. logged'[u] = logged[u] /\ logging'[u] # "none" /\ logging[u] # "none"
    BY <1>4 DEF LogTypeOK
  <2> QED BY <2>1 DEF Logged
<1> QED BY <1>2, <1>3, <1>4

(* A record that is held is one more that the journal still has to get. *)
LEMMA OneMoreHeld ==
  ASSUME HeldInv, NEW w \in Logger, logging[w] # "none", ~released,
         logging' = [logging EXCEPT ![w] = "none"], held' = Append(held, Rec(w)),
         warned' \in Nat, warned' = warned \/ signal', signal => signal',
         UNCHANGED <<logged, journal, flushed, released, releasePc, told, forwarding>>
  PROVE  HeldInv'
<1>1. LogTypeOK /\ held \in Seq(Record)
  BY DEF HeldInv, LogTypeOK
<1>2. /\ Rec(w) \in Record /\ ~IsLogged(Rec(w)) /\ IsLogged(Rec(w))'
      /\ \A u \in Logger, n \in Nat : n \in Logged(u)' <=> n \in Logged(u) \/ <<u, n>> = Rec(w)
  BY <1>1, EndsLogging
<1>3. Rec(w) \notin ToSet(held) /\ Rec(w) \notin ToSet(journal)
  BY <1>2 DEF HeldInv
<1>4. /\ held' \in Seq(Record) /\ Len(held) \in Nat /\ Len(held') = Len(held) + 1
      /\ DOMAIN held = 1..Len(held) /\ DOMAIN held' = 1..(Len(held) + 1)
      /\ held'[Len(held) + 1] = Rec(w) /\ \A i \in 1..Len(held) : held'[i] = held[i]
      /\ ToSet(held') = ToSet(held) \cup {Rec(w)} /\ IsInjective(held')
  <2>1. held' \in Seq(Record) /\ HasOneMore(held', held, Rec(w))
    BY <1>1, <1>2, OneMoreIn
  <2>2. IsInjective(held)
    BY DEF HeldInv
  <2> QED BY <1>3, <2>1, <2>2 DEF HasOneMore
<1>5. LogTypeOK'
  <2>1. logging' \in [Logger -> {"none", "info", "warn", "through"}]
    BY <1>1 DEF LogTypeOK
  <2>2. \A u \in Logger : logging'[u] # "none" => logged'[u] # 0
    BY <1>1 DEF LogTypeOK
  <2>3. flushed' \in 0..Len(held')
    BY <1>1, <1>4 DEF LogTypeOK
  <2> QED BY <1>1, <1>4, <2>1, <2>2, <2>3 DEF LogTypeOK
<1>6. \A r \in Record : IsLogged(r) => IsLogged(r)'
  BY <1>2, LoggerAssumption DEF IsLogged, Record
<1>7. ToSet(held) \subseteq Record /\ ToSet(journal) \subseteq Record
  BY <1>1 DEF LogTypeOK, ToSet
<1>8. (\A r \in ToSet(held) : IsLogged(r))' /\ (\A r \in ToSet(journal) : IsLogged(r))'
  <2>1. /\ \A r \in ToSet(held) : IsLogged(r)'
        /\ \A r \in ToSet(journal) : IsLogged(r)'
    BY <1>6, <1>7 DEF HeldInv
  <2>2. Rec(w)' = Rec(w)
    BY DEF Rec
  <2>3. \A r \in {Rec(w)} : IsLogged(r)'
    BY <1>2, <2>2 DEF IsLogged
  <2> QED BY <1>4, <2>1, <2>3
<1>9. (\A u \in Logger : \A n \in Logged(u) : <<u, n>> \in ToSet(held) \cup ToSet(journal))'
  <2> SUFFICES ASSUME NEW u \in Logger, NEW n \in Logged(u)'
               PROVE  <<u, n>> \in ToSet(held') \cup ToSet(journal)
    OBVIOUS
  <2>1. n \in Nat
    BY <1>5 DEF Logged, LogTypeOK
  <2> QED BY <1>2, <1>4, <2>1 DEF HeldInv
<1>10. (\A b \in DOMAIN held : b <= flushed <=> held[b] \in ToSet(journal))'
  <2> SUFFICES ASSUME NEW b \in DOMAIN held' PROVE b <= flushed <=> held'[b] \in ToSet(journal)
    OBVIOUS
  <2>1. flushed \in Nat /\ flushed <= Len(held)
    BY <1>1, <1>4 DEF LogTypeOK
  <2>2. CASE b \in 1..Len(held)
    BY <1>4, <2>2 DEF HeldInv
  <2>3. CASE b = Len(held) + 1
    BY <1>3, <1>4, <2>1, <2>3
  <2> QED BY <1>4, <2>2, <2>3
<1>11. HeldInOrder'
  <2> SUFFICES ASSUME NEW i \in DOMAIN journal, NEW b \in DOMAIN held', journal[i] = held'[b]
               PROVE  \A a \in 1..(b - 1) : \E k \in 1..(i - 1) : journal[k] = held'[a]
    BY DEF HeldInOrder
  <2>1. b \in 1..Len(held)
    BY <1>3, <1>4 DEF ToSet
  <2>2. \A a \in 1..(b - 1) : \E k \in 1..(i - 1) : journal[k] = held[a]
    BY <1>4, <2>1 DEF HeldInv, HeldInOrder
  <2>3. 1..(b - 1) \subseteq 1..Len(held)
    BY <1>4, <2>1
  <2> QED BY <1>4, <2>2, <2>3
<1>12. /\ releasePc' \in {"flushing", "done"} => released'
       /\ releasePc' = "done" => flushed' = Len(held')
  BY DEF HeldInv
<1>13. releasePc' = "running" /\ told' < warned' => signal' \/ forwarding' = "signalled"
  <2>1. CASE warned' = warned
    BY <2>1 DEF HeldInv
  <2> QED BY <2>1
<1>14. IsInjective(journal)'
  BY DEF HeldInv
<1> QED BY <1>4, <1>5, <1>8, <1>9, <1>10, <1>11, <1>12, <1>13, <1>14 DEF HeldInv

(* A record that is logged past what is held is one more in the journal. *)
LEMMA OneMoreWritten ==
  ASSUME HeldInv, NEW w \in Logger, logging[w] # "none",
         logging' = [logging EXCEPT ![w] = "none"], journal' = Append(journal, Rec(w)),
         UNCHANGED <<logged, held, flushed, released, releasePc, warned, told, signal, forwarding>>
  PROVE  HeldInv'
<1>1. LogTypeOK /\ journal \in Seq(Record)
  BY DEF HeldInv, LogTypeOK
<1>2. /\ Rec(w) \in Record /\ ~IsLogged(Rec(w)) /\ IsLogged(Rec(w))'
      /\ \A u \in Logger, n \in Nat : n \in Logged(u)' <=> n \in Logged(u) \/ <<u, n>> = Rec(w)
  BY <1>1, EndsLogging
<1>3. Rec(w) \notin ToSet(held) /\ Rec(w) \notin ToSet(journal)
  BY <1>2 DEF HeldInv
<1>4. /\ journal' \in Seq(Record) /\ Len(journal) \in Nat /\ Len(journal') = Len(journal) + 1
      /\ DOMAIN journal = 1..Len(journal) /\ DOMAIN journal' = 1..(Len(journal) + 1)
      /\ journal'[Len(journal) + 1] = Rec(w)
      /\ \A i \in 1..Len(journal) : journal'[i] = journal[i]
      /\ ToSet(journal') = ToSet(journal) \cup {Rec(w)} /\ IsInjective(journal')
  <2>1. journal' \in Seq(Record) /\ HasOneMore(journal', journal, Rec(w))
    BY <1>1, <1>2, OneMoreIn
  <2>2. IsInjective(journal)
    BY DEF HeldInv
  <2> QED BY <1>3, <2>1, <2>2 DEF HasOneMore
<1>5. LogTypeOK'
  <2>1. logging' \in [Logger -> {"none", "info", "warn", "through"}]
    BY <1>1 DEF LogTypeOK
  <2>2. \A u \in Logger : logging'[u] # "none" => logged'[u] # 0
    BY <1>1 DEF LogTypeOK
  <2> QED BY <1>1, <1>4, <2>1, <2>2 DEF LogTypeOK
<1>6. \A r \in Record : IsLogged(r) => IsLogged(r)'
  BY <1>2, LoggerAssumption DEF IsLogged, Record
<1>7. ToSet(held) \subseteq Record /\ ToSet(journal) \subseteq Record
  BY <1>1 DEF LogTypeOK, ToSet
<1>8. (\A r \in ToSet(held) : IsLogged(r))' /\ (\A r \in ToSet(journal) : IsLogged(r))'
  <2>1. /\ \A r \in ToSet(held) : IsLogged(r)'
        /\ \A r \in ToSet(journal) : IsLogged(r)'
    BY <1>6, <1>7 DEF HeldInv
  <2>2. Rec(w)' = Rec(w)
    BY DEF Rec
  <2>3. \A r \in {Rec(w)} : IsLogged(r)'
    BY <1>2, <2>2 DEF IsLogged
  <2> QED BY <1>4, <2>1, <2>3
<1>9. (\A u \in Logger : \A n \in Logged(u) : <<u, n>> \in ToSet(held) \cup ToSet(journal))'
  <2> SUFFICES ASSUME NEW u \in Logger, NEW n \in Logged(u)'
               PROVE  <<u, n>> \in ToSet(held) \cup ToSet(journal')
    OBVIOUS
  <2>1. n \in Nat
    BY <1>5 DEF Logged, LogTypeOK
  <2> QED BY <1>2, <1>4, <2>1 DEF HeldInv
<1>10. (\A b \in DOMAIN held : b <= flushed <=> held[b] \in ToSet(journal))'
  <2>1. \A b \in DOMAIN held : held[b] # Rec(w)
    BY <1>3 DEF ToSet
  <2> QED BY <1>4, <2>1 DEF HeldInv
<1>11. HeldInOrder'
  <2> SUFFICES ASSUME NEW i \in DOMAIN journal', NEW b \in DOMAIN held, journal'[i] = held[b]
               PROVE  \A a \in 1..(b - 1) : \E k \in 1..(i - 1) : journal'[k] = held[a]
    BY DEF HeldInOrder
  <2>1. i \in 1..Len(journal)
    <3>1. held[b] # Rec(w)
      BY <1>3 DEF ToSet
    <3> QED BY <1>4, <3>1
  <2>2. \A a \in 1..(b - 1) : \E k \in 1..(i - 1) : journal[k] = held[a]
    BY <1>4, <2>1 DEF HeldInv, HeldInOrder
  <2>3. 1..(i - 1) \subseteq 1..Len(journal)
    BY <1>4, <2>1
  <2> QED BY <1>4, <2>2, <2>3
<1>12. /\ releasePc' \in {"flushing", "done"} => released'
       /\ releasePc' = "done" => flushed' = Len(held')
       /\ releasePc' = "running" /\ told' < warned' => signal' \/ forwarding' = "signalled"
       /\ IsInjective(held)'
  BY DEF HeldInv
<1> QED BY <1>4, <1>5, <1>8, <1>9, <1>10, <1>11, <1>12 DEF HeldInv

(* The next of the held records comes to the journal after all that are held before it. *)
LEMMA OneMoreFlushed ==
  ASSUME HeldInv, flushed < Len(held), releasePc = "flushing",
         journal' = Append(journal, held[flushed + 1]), flushed' = flushed + 1,
         UNCHANGED <<logging, logged, held, released, releasePc, warned, told, signal, forwarding>>
  PROVE  HeldInv'
<1> DEFINE r == held[flushed + 1]
<1>1. LogTypeOK /\ journal \in Seq(Record) /\ held \in Seq(Record) /\ Len(held) \in Nat
  BY DEF HeldInv, LogTypeOK
<1>2. flushed \in Nat /\ flushed + 1 \in 1..Len(held) /\ DOMAIN held = 1..Len(held) /\ r \in Record
  BY <1>1 DEF LogTypeOK
<1>3. r \notin ToSet(journal) /\ IsLogged(r)
  <2>1. ~(flushed + 1 <= flushed)
    BY <1>2
  <2>2. r \in ToSet(held)
    BY <1>2 DEF ToSet
  <2> QED BY <1>2, <2>1, <2>2 DEF HeldInv
<1>4. /\ journal' \in Seq(Record) /\ Len(journal) \in Nat /\ Len(journal') = Len(journal) + 1
      /\ DOMAIN journal = 1..Len(journal) /\ DOMAIN journal' = 1..(Len(journal) + 1)
      /\ journal'[Len(journal) + 1] = r
      /\ \A i \in 1..Len(journal) : journal'[i] = journal[i]
      /\ ToSet(journal') = ToSet(journal) \cup {r} /\ IsInjective(journal')
  <2>1. journal' \in Seq(Record) /\ HasOneMore(journal', journal, r)
    BY <1>1, <1>2, OneMoreIn
  <2>2. IsInjective(journal)
    BY DEF HeldInv
  <2> QED BY <1>3, <2>1, <2>2 DEF HasOneMore
<1>5. LogTypeOK'
  <2>1. flushed' \in 0..Len(held)
    BY <1>1, <1>2
  <2> QED BY <1>1, <1>4, <2>1 DEF LogTypeOK
<1>6. \A b \in DOMAIN held : held[b] = r => b = flushed + 1
  BY <1>2 DEF HeldInv, IsInjective
<1> HIDE DEF r
<1>7. (\A s \in ToSet(held) : IsLogged(s))' /\ (\A s \in ToSet(journal) : IsLogged(s))'
  BY <1>3, <1>4 DEF HeldInv, IsLogged, Logged
<1>8. (\A u \in Logger : \A n \in Logged(u) : <<u, n>> \in ToSet(held) \cup ToSet(journal))'
  BY <1>4 DEF HeldInv, Logged
<1>9. (\A b \in DOMAIN held : b <= flushed <=> held[b] \in ToSet(journal))'
  <2> SUFFICES ASSUME NEW b \in DOMAIN held
               PROVE  b <= flushed + 1 <=> held[b] \in ToSet(journal) \cup {r}
    BY <1>4
  <2>1. b \in Nat /\ (b <= flushed + 1 <=> b <= flushed \/ b = flushed + 1)
    BY <1>2
  <2>2. held[b] = r <=> b = flushed + 1
    BY <1>6 DEF r
  <2> QED BY <2>1, <2>2 DEF HeldInv
<1>10. HeldInOrder'
  <2> SUFFICES ASSUME NEW i \in DOMAIN journal', NEW b \in DOMAIN held', journal'[i] = held'[b],
                      NEW a \in 1..(b - 1)
               PROVE  \E k \in 1..(i - 1) : journal'[k] = held'[a]
    BY Zenon DEF HeldInOrder
  <2>0. held' = held
    OBVIOUS
  <2>1. CASE i \in 1..Len(journal)
    <3>1. PICK k \in 1..(i - 1) : journal[k] = held[a]
      BY <1>4, <2>0, <2>1 DEF HeldInv, HeldInOrder
    <3>2. k \in 1..Len(journal)
      BY <1>4, <2>1, <3>1
    <3> QED BY <1>4, <2>0, <3>1, <3>2
  <2>2. CASE i = Len(journal) + 1
    <3>1. b = flushed + 1
      BY <1>4, <1>6, <2>0, <2>2
    <3>2. a \in DOMAIN held /\ a <= flushed
      BY <1>2, <3>1
    <3>3. held[a] \in ToSet(journal)
      BY <3>2 DEF HeldInv
    <3>4. PICK k \in 1..Len(journal) : journal[k] = held[a]
      BY <1>4, <3>3 DEF ToSet
    <3>5. k \in 1..(i - 1)
      BY <1>4, <2>2
    <3> QED BY <1>4, <2>0, <3>4, <3>5
  <2> QED BY <1>4, <2>1, <2>2
<1>11. /\ releasePc' \in {"flushing", "done"} => released'
       /\ releasePc' = "done" => flushed' = Len(held')
       /\ releasePc' = "running" /\ told' < warned' => signal' \/ forwarding' = "signalled"
       /\ IsInjective(held)'
  BY DEF HeldInv
<1> QED BY <1>4, <1>5, <1>7, <1>8, <1>9, <1>10, <1>11 DEF HeldInv

(* The steps that neither hold nor write a record. *)
LEMMA NoneWritten ==
  ASSUME HeldInv, UNCHANGED <<held, journal, flushed>>, LogTypeOK',
         \A u \in Logger : Logged(u)' = Logged(u),
         /\ releasePc' \in {"flushing", "done"} => released'
         /\ releasePc' = "done" => flushed' = Len(held')
         /\ releasePc' = "running" /\ told' < warned' => signal' \/ forwarding' = "signalled"
  PROVE  HeldInv'
<1>1. \A r \in Record : IsLogged(r) => IsLogged(r)'
  BY DEF IsLogged, Record
<1>2. ToSet(held) \subseteq Record /\ ToSet(journal) \subseteq Record
  BY DEF HeldInv, LogTypeOK, ToSet
<1>3. HeldInOrder'
  BY DEF HeldInv, HeldInOrder
<1>4. (\A r \in ToSet(held) : IsLogged(r))' /\ (\A r \in ToSet(journal) : IsLogged(r))'
  BY <1>1, <1>2 DEF HeldInv
<1>5. (\A u \in Logger : \A n \in Logged(u) : <<u, n>> \in ToSet(held) \cup ToSet(journal))'
  BY DEF HeldInv
<1> QED BY <1>3, <1>4, <1>5 DEF HeldInv

(* A step of the log, or of what releases it, keeps its invariant. *)
LEMMA HeldNext == HeldInv /\ (HoldStep \/ UNCHANGED holdVars) => HeldInv'
<1> SUFFICES ASSUME HeldInv, HoldStep \/ UNCHANGED holdVars PROVE HeldInv'
  OBVIOUS
<1> USE DEF heldVars, releaseVars, forwardVars
<1>1. LogTypeOK
  BY DEF HeldInv
<1>2. ASSUME UNCHANGED <<held, journal, flushed, logging, logged, releasePc, released>>,
             warned' \in Nat, told' \in Nat,
             releasePc = "running" /\ told' < warned' => signal' \/ forwarding' = "signalled"
      PROVE  HeldInv'
  <2>1. LogTypeOK'
    BY <1>1, <1>2 DEF LogTypeOK
  <2>2. \A u \in Logger : Logged(u)' = Logged(u)
    BY <1>2 DEF Logged
  <2> QED BY <1>2, <2>1, <2>2, NoneWritten DEF HeldInv
<1>3. ASSUME NEW w \in Logger, Log(w) PROVE HeldInv'
  <2>1. PICK level \in {"info", "warn"} : logging' = [logging EXCEPT ![w] = level]
    BY <1>3 DEF Log
  <2>2. /\ logging[w] = "none" /\ logged[w] < MaxRecords /\ logged' = [logged EXCEPT ![w] = @ + 1]
        /\ UNCHANGED <<held, journal, flushed, released, releasePc, warned, told, signal, forwarding>>
    BY <1>3 DEF Log
  <2>3. logging'[w] = level
    BY <1>1, <2>1 DEF LogTypeOK
  <2>4. \A u \in Logger : Logged(u)' = Logged(u)
    BY <1>1, <2>1, <2>2, <2>3, SameLogged
  <2>5. LogTypeOK'
    <3>1. logged[w] \in Nat /\ logged[w] + 1 \in 0..MaxRecords /\ logged[w] + 1 # 0
      BY <1>1, <2>2, LoggerAssumption DEF LogTypeOK
    <3>2. /\ logged' \in [Logger -> 0..MaxRecords]
          /\ logging' \in [Logger -> {"none", "info", "warn", "through"}]
      BY <1>1, <2>1, <2>2, <3>1 DEF LogTypeOK
    <3>3. \A u \in Logger : logging'[u] # "none" => logged'[u] # 0
      BY <1>1, <2>1, <2>2, <3>1 DEF LogTypeOK
    <3> QED BY <1>1, <2>2, <3>2, <3>3 DEF LogTypeOK
  <2> QED BY <2>2, <2>4, <2>5, NoneWritten DEF HeldInv
<1>4. ASSUME NEW w \in Logger, Handle(w) PROVE HeldInv'
  <2>1. CASE released
    <3>1. /\ logging[w] # "none" /\ logging' = [logging EXCEPT ![w] = "through"]
          /\ UNCHANGED <<logged, held, journal, flushed, released, releasePc, warned, told, signal, forwarding>>
      BY <1>4, <2>1 DEF Handle
    <3>2. \A u \in Logger : Logged(u)' = Logged(u)
      BY <1>1, <3>1, SameLogged
    <3>3. LogTypeOK'
      <4>1. logging' \in [Logger -> {"none", "info", "warn", "through"}]
        BY <1>1, <3>1 DEF LogTypeOK
      <4>2. \A u \in Logger : logging'[u] # "none" => logged'[u] # 0
        BY <1>1, <3>1 DEF LogTypeOK
      <4> QED BY <1>1, <3>1, <4>1, <4>2 DEF LogTypeOK
    <3> QED BY <3>1, <3>2, <3>3, NoneWritten DEF HeldInv
  <2>2. CASE ~released
    <3>1. /\ logging[w] # "none" /\ logging' = [logging EXCEPT ![w] = "none"]
          /\ held' = Append(held, Rec(w))
          /\ UNCHANGED <<logged, journal, flushed, released, releasePc, told, forwarding>>
      BY <1>4, <2>2 DEF Handle
    <3>2. signal' = (signal \/ logging[w] = "warn")
      BY <1>4, <2>2 DEF Handle
    <3>3. warned' = warned + IF logging[w] = "warn" THEN 1 ELSE 0
      BY <1>4, <2>2 DEF Handle
    <3>4. warned' \in Nat
      BY <1>1, <3>3 DEF LogTypeOK
    <3>5. warned' = warned \/ signal'
      <4>1. CASE logging[w] = "warn"
        BY <3>2, <4>1
      <4>2. CASE logging[w] # "warn"
        <5>1. warned \in Nat
          BY <1>1 DEF LogTypeOK
        <5> QED BY <3>3, <4>2, <5>1
      <4> QED BY <4>1, <4>2
    <3>6. signal => signal'
      BY <3>2
    <3> QED BY <2>2, <3>1, <3>4, <3>5, <3>6, OneMoreHeld
  <2> QED BY <2>1, <2>2
<1>5. ASSUME NEW w \in Logger, Write(w) PROVE HeldInv'
  <2>1. /\ logging[w] # "none" /\ logging' = [logging EXCEPT ![w] = "none"]
        /\ journal' = Append(journal, Rec(w))
        /\ UNCHANGED <<logged, held, flushed, released, releasePc, warned, told, signal, forwarding>>
    BY <1>5 DEF Write
  <2> QED BY <2>1, OneMoreWritten
<1>6. CASE Forward \/ Notify \/ NotifyReturns \/ Loop
  <2>1. /\ UNCHANGED <<held, journal, flushed, logging, logged, releasePc, released, warned>>
        /\ warned \in Nat /\ told \in Nat /\ told' \in {told, warned}
    BY <1>1, <1>6 DEF Forward, Notify, NotifyReturns, Loop, logVars, LogTypeOK
  <2>2. ~(warned < warned)
    BY <2>1
  <2>3. releasePc = "running" /\ told' < warned' => signal' \/ forwarding' = "signalled"
    <3>1. CASE Forward
      BY <2>1, <3>1 DEF Forward, HeldInv
    <3>2. CASE Notify
      BY <2>1, <2>2, <3>2 DEF Notify
    <3>3. CASE NotifyReturns
      BY <2>1, <3>3 DEF NotifyReturns, HeldInv
    <3>4. CASE Loop
      BY <2>1, <3>4 DEF Loop, HeldInv
    <3> QED BY <1>6, <3>1, <3>2, <3>3, <3>4
  <2> QED BY <1>2, <2>1, <2>3
<1>7. CASE FlushRecord
  <2>1. /\ flushed < Len(held) /\ releasePc = "flushing" /\ releasePc' = "flushing"
        /\ journal' = Append(journal, held[flushed + 1]) /\ flushed' = flushed + 1
        /\ UNCHANGED <<logging, logged, held, released, warned, told, signal, forwarding>>
    BY <1>7 DEF FlushRecord, ReleaseTo, logVars
  <2> QED BY <2>1, OneMoreFlushed
<1>8. CASE CloseReleased \/ WaitForForwarding \/ Restore \/ Flush \/ Flushed
  <2>1. /\ UNCHANGED <<held, journal, flushed, logging, logged, warned, told, signal, forwarding>>
        /\ releasePc' \in {"closed", "forwarded", "restored", "flushing", "done"}
        /\ releasePc' \in {"flushing", "done"} => released'
        /\ releasePc' = "done" => flushed = Len(held)
    BY <1>8 DEF CloseReleased, WaitForForwarding, Restore, Flush, Flushed, ReleaseTo, logVars, HeldInv
  <2>2. LogTypeOK'
    BY <1>1, <2>1 DEF LogTypeOK
  <2>3. \A u \in Logger : Logged(u)' = Logged(u)
    BY <2>1 DEF Logged
  <2> QED BY <2>1, <2>2, <2>3, NoneWritten
<1>9. CASE UNCHANGED holdVars
  <2>1. UNCHANGED <<held, journal, flushed, logging, logged, releasePc, released, warned, told, signal, forwarding>>
    BY <1>9 DEF holdVars
  <2> QED BY <1>1, <1>2, <2>1 DEF LogTypeOK, HeldInv
<1> QED BY <1>3, <1>4, <1>5, <1>6, <1>7, <1>8, <1>9 DEF HoldStep

(* What was logged is held or in the journal, at any time.                                *)
LEMMA HeldAlways == Spec => []HeldInv
<1>1. Init => HeldInv
  <2> SUFFICES ASSUME Init PROVE HeldInv
    OBVIOUS
  <2>1. HoldInit
    BY DEF Init, PersonInit
  <2>2. Len(<<>>) = 0 /\ DOMAIN <<>> = {} /\ <<>> \in Seq(Record) /\ ToSet(<<>>) = {} /\ IsInjective(<<>>)
    BY DEF ToSet, IsInjective
  <2>3. LogTypeOK
    BY <2>1, <2>2, LoggerAssumption DEF HoldInit, LogTypeOK
  <2>4. \A w \in Logger : Logged(w) = {}
    BY <2>1 DEF HoldInit, Logged
  <2>5. HeldInOrder
    BY <2>1, <2>2 DEF HoldInit, HeldInOrder
  <2>6. ~(told < warned)
    BY <2>1 DEF HoldInit
  <2> QED BY <2>1, <2>2, <2>3, <2>4, <2>5, <2>6 DEF HoldInit, HeldInv
<1>2. HeldInv /\ [Next]_vars => HeldInv'
  BY PartSteps, HeldNext
<1> QED BY <1>1, <1>2, PTL DEF Spec

(* Every record comes to the log once, those that were held in their order, with any      *)
(* number of goroutines and records; and no warning is held that the UI will not be told.  *)
THEOREM NoRecordIsLost == Spec => []WrittenOnce
<1>1. HeldInv => WrittenOnce
  <2> SUFFICES ASSUME HeldInv PROVE WrittenOnce
    OBVIOUS
  <2>1. releasePc = "done" => ToSet(held) \subseteq ToSet(journal)
    <3> SUFFICES ASSUME releasePc = "done", NEW r \in ToSet(held) PROVE r \in ToSet(journal)
      OBVIOUS
    <3>1. PICK b \in DOMAIN held : r = held[b]
      BY DEF ToSet
    <3>2. flushed = Len(held) /\ b <= Len(held)
      BY LenProperties DEF HeldInv, LogTypeOK
    <3> QED BY <3>1, <3>2 DEF HeldInv
  <2>2. releasePc = "done" => \A w \in Logger : \A n \in Logged(w) : <<w, n>> \in ToSet(journal)
    BY <2>1 DEF HeldInv
  <2>3. IsInjective(journal) /\ HeldInOrder
    BY DEF HeldInv
  <2>4. releasePc = "running" /\ told < warned => signal \/ forwarding = "signalled"
    BY DEF HeldInv
  <2> QED BY <2>2, <2>3, <2>4 DEF WrittenOnce
<1> QED BY <1>1, HeldAlways, PTL
-----------------------------------------------------------------------------
(* Listing: what is listed is newer than what is left of each source, which is the page   *)
(* that was read, and what meshStack has behind it.                                       *)

(* How many of the objects are newer, which is where a listing has it. *)
Position(S, o) == Cardinality({p \in S : p > o})

(* What the pages after the one that was read will have, if nothing changes.              *)
ToCome(s) ==
  IF Started(s)
  THEN {o \in Matching(s, until[s]) :
          Position(Matching(s, until[s]), o) >= nextPage[s] * PageSize}
  ELSE {}

Left(s) == ToSet(rest[s]) \cup ToCome(s)

ListTypes ==
  /\ objects \in [Sources -> SUBSET (1..time)] /\ time \in 0..MaxTime
  /\ listPc \in {"idle", "heads", "yield", "page", "done"}
  /\ limit \in Nat /\ (1 \in Sources \/ merged)
  /\ until \in [Sources -> 0..time] /\ nextPage \in [Sources -> Nat]
  /\ rest \in [Sources -> Seq(1..MaxTime)] /\ \A s \in Sources : ToSet(rest[s]) \subseteq 1..time
  /\ more \in [Sources -> BOOLEAN]
  /\ total \in Int /\ listed \in Seq(1..MaxTime)
  /\ atStart \in [Sources -> SUBSET (1..time)]

Descending(s) == \A i, j \in DOMAIN s : i < j => s[i] > s[j]

(* No object is of two sources. *)
Apart ==
  \A s, u \in Sources :
    s # u => (objects[s] \cup ToSet(rest[s])) \cap (objects[u] \cup ToSet(rest[u])) = {}

(* What is listed is newer than what is left, and a page newer than what comes after it.  *)
InOrder ==
  Steady =>
    /\ \A s \in Sources : /\ Descending(rest[s])
                          /\ \A x \in ToSet(rest[s]), o \in ToCome(s) : x > o
    /\ Descending(listed)
    /\ \A x \in ToSet(listed), s \in Read : \A o \in Left(s) : x > o

(* Nothing comes after the last page, and nothing is listed before every source was read. *)
PagesInv ==
  /\ \A s \in Sources : /\ Steady /\ ~more[s] => ToCome(s) = {}
                        /\ ~Started(s) => rest[s] = <<>> /\ more[s] /\ atStart[s] = {}
  /\ listPc = "yield" => \A s \in Read : Advanced(s)
  /\ listed # <<>> => \A s \in Read : Started(s)

(* While nothing is deleted, what was there at first is listed or left, and nothing else. *)
Present ==
  Steady /\ ~deleted =>
    /\ \A s \in Sources : /\ Left(s) \subseteq atStart[s]
                          /\ Started(s) => atStart[s] = Matching(s, until[s])
    /\ \A s \in Read : atStart[s] \subseteq ToSet(listed) \cup Left(s)
    /\ ToSet(listed) \subseteq UNION {atStart[s] : s \in Read}

(* Where the answer to a query has an object. *)
PlaceIn(S, o) == IF newestFirst THEN Position(S, o) ELSE Cardinality(S) - 1 - Position(S, o)

(* Whatever else is created, and in whichever order it comes, no object that was there at *)
(* first gets onto a page that was already read.                                          *)
Kept ==
  ~deleted =>
    \A s \in Read : Started(s) =>
      \A o \in atStart[s] :
        /\ o \in Matching(s, until[s])
        /\ ~more[s] \/ PlaceIn(Matching(s, until[s]), o) < nextPage[s] * PageSize =>
             o \in ToSet(listed) \cup ToSet(rest[s])

(* A limit that is no less than the total makes one page of it all. *)
OnePage ==
  ~merged /\ limit # Unlimited /\ Started(1) /\ total <= limit =>
    ~more[1] /\ Len(listed) + Len(rest[1]) = total

(* The total is what the first page was of, and the limit is not reached before the end.  *)
Counted ==
  /\ merged => total = Unknown
  /\ ~merged => total = IF Started(1) THEN Cardinality(atStart[1]) ELSE Unknown
  /\ listPc # "done" => /\ outcome = "none" /\ array \in {"none", "open"}
                        /\ limit = Unlimited \/ Len(listed) < limit

ListInv ==
  /\ ListTypes /\ Apart /\ InOrder /\ PagesInv /\ Present /\ Kept /\ OnePage /\ Counted
  /\ ListsNewest

(* An object is at a position of its own, behind those that are newer. *)
LEMMA Positions ==
  ASSUME NEW S \in SUBSET Int, IsFiniteSet(S), NEW o \in S
  PROVE  /\ Cardinality(S) \in Nat /\ Position(S, o) \in 0..(Cardinality(S) - 1)
         /\ \A q \in S : q > o => Position(S, q) < Position(S, o)
<1> DEFINE Newer(x) == {p \in S : p > x}
<1>1. ASSUME NEW x, NEW T, T = Newer(x)
      PROVE  IsFiniteSet(T) /\ Cardinality(T) \in Nat /\ Cardinality(T) <= Cardinality(S)
             /\ (Cardinality(S) = Cardinality(T) => S = T)
  <2>1. T \in SUBSET S
    BY <1>1
  <2> QED BY <2>1, FS_Subset, FS_CardinalityType
<1>2. Cardinality(S) \in Nat
  BY FS_CardinalityType
<1>3. o \notin Newer(o)
  OBVIOUS
<1>4. Cardinality(Newer(o)) \in Nat /\ Cardinality(Newer(o)) < Cardinality(S)
  <2>1. Newer(o) # S
    BY <1>3
  <2>2. /\ Cardinality(Newer(o)) \in Nat /\ Cardinality(Newer(o)) <= Cardinality(S)
        /\ Cardinality(S) = Cardinality(Newer(o)) => S = Newer(o)
    BY <1>1
  <2> HIDE DEF Newer
  <2> QED BY <1>2, <2>1, <2>2
<1>5. ASSUME NEW q \in S, q > o PROVE Cardinality(Newer(q)) < Cardinality(Newer(o))
  <2>1. Newer(q) \in SUBSET Newer(o) /\ q \in Newer(o) /\ q \notin Newer(q)
    <3>1. q \in Int /\ o \in Int /\ ~(q > q)
      OBVIOUS
    <3>2. ASSUME NEW p \in S, p > q PROVE p > o
      BY <1>5, <3>1, <3>2
    <3> QED BY <1>5, <3>1, <3>2
  <2>2. /\ IsFiniteSet(Newer(o)) /\ Cardinality(Newer(q)) \in Nat
    BY <1>1
  <2>3. /\ Cardinality(Newer(q)) <= Cardinality(Newer(o))
        /\ Cardinality(Newer(o)) = Cardinality(Newer(q)) => Newer(o) = Newer(q)
    BY <2>1, <2>2, FS_Subset
  <2>4. Newer(o) # Newer(q)
    BY <2>1
  <2> HIDE DEF Newer
  <2> QED BY <1>4, <2>2, <2>3, <2>4
<1> QED BY <1>2, <1>4, <1>5 DEF Position

(* Every position is an object's. *)
LEMMA EachPosition ==
  ASSUME NEW S \in SUBSET Int, IsFiniteSet(S), NEW i \in 0..(Cardinality(S) - 1)
  PROVE  \E o \in S : Position(S, o) = i
<1> DEFINE n == Cardinality(S)
           f == [o \in S |-> Position(S, o) + 1]
<1>1. n \in Nat /\ IsFiniteSet(1..n) /\ Cardinality(1..n) = n
  BY FS_CardinalityType, FS_Interval
<1>2. \A o \in S : Position(S, o) \in 0..(n - 1) /\ \A q \in S : q > o => Position(S, q) < Position(S, o)
  BY Positions
<1> HIDE DEF n
<1>3. f \in [S -> 1..n]
  BY <1>1, <1>2
<1>4. ASSUME NEW p \in S, NEW q \in S, f[p] = f[q] PROVE p = q
  <2>1. Position(S, p) = Position(S, q) /\ Position(S, p) \in Int /\ Position(S, q) \in Int
    BY <1>1, <1>2, <1>4
  <2>2. p \in Int /\ q \in Int /\ (q > p => Position(S, q) < Position(S, p))
        /\ (p > q => Position(S, p) < Position(S, q))
    BY <1>2
  <2> QED BY <2>1, <2>2
<1>5. f \in Injection(S, 1..n)
  BY <1>3, <1>4 DEF Injection, IsInjective
<1> HIDE DEF f
<1>6. f \in Surjection(S, 1..n)
  BY <1>1, <1>5, FS_Injection DEF n
<1>7. PICK o \in S : f[o] = i + 1
  BY <1>1, <1>6 DEF Surjection, n
<1> QED BY <1>1, <1>2, <1>7 DEF f

(* A listing has every object at its position. *)
LEMMA AtItsPosition ==
  ASSUME NEW S \in SUBSET Int, IsFiniteSet(S), NEW all, all = NewestFirst(S)
  PROVE  /\ Cardinality(S) \in Nat /\ all \in Seq(S) /\ Len(all) = Cardinality(S)
         /\ \A i \in 1..Cardinality(S) : all[i] \in S /\ Position(S, all[i]) = i - 1
         /\ \A o \in S : Position(S, o) + 1 \in 1..Cardinality(S) /\ all[Position(S, o) + 1] = o
<1> DEFINE n == Cardinality(S)
<1>1. n \in Nat
  BY FS_CardinalityType
<1>2. \A i \in 1..n : all[i] = CHOOSE o \in S : Position(S, o) = i - 1
  BY DEF NewestFirst, Position
<1>3. \A i \in 1..n : all[i] \in S /\ Position(S, all[i]) = i - 1
  <2> SUFFICES ASSUME NEW i \in 1..n PROVE all[i] \in S /\ Position(S, all[i]) = i - 1
    OBVIOUS
  <2>1. \E o \in S : Position(S, o) = i - 1
    BY <1>1, EachPosition
  <2> QED BY <1>2, <2>1
<1>4. all \in [1..n -> S]
  BY <1>3 DEF NewestFirst
<1>5. all \in Seq(S) /\ Len(all) = n
  <2> HIDE DEF n
  <2> QED BY <1>1, <1>4
<1>6. ASSUME NEW o \in S PROVE Position(S, o) + 1 \in 1..n /\ all[Position(S, o) + 1] = o
  <2>1. Position(S, o) \in 0..(n - 1)
    BY Positions
  <2>2. Position(S, o) + 1 \in 1..n
    BY <1>1, <2>1
  <2> DEFINE q == all[Position(S, o) + 1]
  <2>3. q \in S /\ Position(S, q) = Position(S, o)
    BY <1>3, <2>1, <2>2
  <2>4. q > o => Position(S, q) < Position(S, o)
    BY <2>3, Positions
  <2>5. o > q => Position(S, o) < Position(S, q)
    BY <2>3, Positions
  <2> HIDE DEF q
  <2>6. q = o
    <3>1. q \in Int /\ o \in Int
      BY <2>3
    <3> QED BY <1>1, <2>1, <2>3, <2>4, <2>5, <3>1
  <2> QED BY <2>2, <2>6 DEF q
<1> QED BY <1>1, <1>3, <1>5, <1>6

(* A listing is newest first. *)
LEMMA IsDescending ==
  ASSUME NEW S \in SUBSET Int, IsFiniteSet(S), NEW all, all = NewestFirst(S),
         NEW i \in 1..Cardinality(S), NEW j \in 1..Cardinality(S), i < j
  PROVE  all[i] > all[j]
<1>1. /\ Cardinality(S) \in Nat
      /\ all[i] \in S /\ Position(S, all[i]) = i - 1
      /\ all[j] \in S /\ Position(S, all[j]) = j - 1
  BY AtItsPosition
<1>2. all[j] > all[i] => Position(S, all[j]) < Position(S, all[i])
  BY <1>1, Positions
<1>3. all[i] # all[j]
  <2>1. i - 1 # j - 1
    BY <1>1
  <2> QED BY <1>1, <2>1
<1>4. all[i] \in Int /\ all[j] \in Int
  BY <1>1
<1>5. ~(all[j] > all[i])
  <2>1. ~(j - 1 < i - 1)
    BY <1>1
  <2> QED BY <1>1, <1>2, <2>1
<1> QED BY <1>3, <1>4, <1>5

PageAt(S, from, to) == SubSeq(NewestFirst(S), from + 1, Least(to, Len(NewestFirst(S))))

(* A page has the objects at its positions, newest first. *)
LEMMA PageOf ==
  ASSUME NEW S \in SUBSET Int, IsFiniteSet(S), NEW from \in Nat, NEW to \in Nat,
         NEW page, page = PageAt(S, from, to)
  PROVE  /\ page \in Seq(S) /\ Descending(page)
         /\ \A o : o \in ToSet(page) <=> o \in S /\ Position(S, o) \in from..(to - 1)
<1> DEFINE all == NewestFirst(S)
           n == Cardinality(S)
           end == Least(to, n)
<1>1. /\ n \in Nat /\ Len(all) = n
      /\ \A i \in 1..n : all[i] \in S /\ Position(S, all[i]) = i - 1
      /\ \A o \in S : Position(S, o) + 1 \in 1..n /\ all[Position(S, o) + 1] = o
  BY AtItsPosition
<1>2. end \in Nat /\ end <= n /\ end <= to /\ (end = n \/ end = to)
  BY <1>1 DEF Least
<1>3. \A i, j \in 1..n : i < j => all[i] > all[j]
  BY IsDescending
<1>4. page = SubSeq(all, from + 1, end)
  BY <1>1 DEF PageAt
<1> HIDE DEF all, n, end
<1>5. \A i \in (from + 1)..end : i \in 1..n /\ all[i] \in S
  BY <1>1, <1>2
<1>6. /\ page \in Seq(S)
      /\ Len(page) = IF from + 1 <= end THEN end - (from + 1) + 1 ELSE 0
      /\ \A i \in 1..(end - (from + 1) + 1) : page[i] = all[from + 1 + i - 1]
  <2> DEFINE m == from + 1
  <2>1. m \in Int /\ end \in Int /\ \A i \in m..end : all[i] \in S
    BY <1>2, <1>5
  <2> HIDE DEF m
  <2>2. /\ SubSeq(all, m, end) \in Seq(S)
        /\ Len(SubSeq(all, m, end)) = IF m <= end THEN end - m + 1 ELSE 0
        /\ \A i \in 1..(end - m + 1) : SubSeq(all, m, end)[i] = all[m + i - 1]
    BY <2>1, SubSeqProperties
  <2> QED BY <1>4, <2>2 DEF m
<1>7. Len(page) \in Nat /\ DOMAIN page = 1..Len(page)
  BY <1>6
<1>8. \A i \in DOMAIN page : from + i \in 1..n /\ from + i <= to /\ page[i] = all[from + i] /\ i \in Nat
  <2> SUFFICES ASSUME NEW i \in DOMAIN page
               PROVE  from + i \in 1..n /\ from + i <= to /\ page[i] = all[from + i] /\ i \in Nat
    OBVIOUS
  <2>1. i \in 1..(end - (from + 1) + 1) /\ i \in Nat
    BY <1>2, <1>6, <1>7
  <2>2. from + 1 + i - 1 = from + i
    BY <2>1
  <2>3. page[i] = all[from + i]
    BY <1>6, <2>1, <2>2
  <2>4. from + i \in 1..n /\ from + i <= to
    BY <1>1, <1>2, <2>1
  <2> QED BY <2>1, <2>3, <2>4
<1>9. Descending(page)
  <2> SUFFICES ASSUME NEW i \in DOMAIN page, NEW j \in DOMAIN page, i < j PROVE page[i] > page[j]
    BY DEF Descending
  <2>1. from + i < from + j
    BY <1>8
  <2> QED BY <1>3, <1>8, <2>1
<1>10. ASSUME NEW o \in ToSet(page) PROVE o \in S /\ Position(S, o) \in from..(to - 1)
  <2>1. PICK i \in DOMAIN page : o = page[i]
    BY <1>10 DEF ToSet
  <2>2. i \in Nat /\ i >= 1
    BY <1>7, <2>1
  <2> DEFINE k == from + i
  <2>3. k \in 1..n /\ k <= to /\ o = all[k]
    BY <1>8, <2>1
  <2>4. k \in Nat /\ k >= from + 1
    BY <2>2
  <2> HIDE DEF k
  <2>5. o \in S /\ Position(S, o) = k - 1
    BY <1>1, <2>3
  <2>6. k - 1 \in from..(to - 1)
    BY <2>3, <2>4
  <2> QED BY <2>5, <2>6
<1>11. ASSUME NEW o \in S, Position(S, o) \in from..(to - 1) PROVE o \in ToSet(page)
  <2> DEFINE p == Position(S, o)
             i == p + 1 - from
  <2>1. p + 1 \in 1..n /\ all[p + 1] = o
    BY <1>1
  <2>2. p \in Nat /\ from <= p /\ p + 1 <= to
    BY <1>11
  <2> HIDE DEF p
  <2>3. i \in 1..(end - from) /\ from + 1 <= end /\ from + i = p + 1
    BY <1>1, <1>2, <2>1, <2>2
  <2>4. Len(page) = end - from
    <3> HIDE DEF i
    <3>1. from + 1 <= end
      BY <2>3
    <3>2. Len(page) = end - (from + 1) + 1
      BY <1>6, <3>1
    <3>3. end \in Int /\ from \in Int
      BY <1>2
    <3>4. end - (from + 1) + 1 = end - from
      BY <3>3
    <3> QED BY <3>2, <3>4
  <2> HIDE DEF i
  <2>5. i \in DOMAIN page
    BY <1>7, <2>3, <2>4
  <2>6. page[i] = o
    BY <1>8, <2>1, <2>3, <2>5
  <2> QED BY <2>5, <2>6 DEF ToSet
<1> QED BY <1>6, <1>9, <1>10, <1>11

(* After the last page there is nothing more. *)
LEMMA NoneAfterLast ==
  ASSUME NEW n \in Nat, NEW size \in Nat \ {0}, NEW count \in Nat,
         IsLast(n, (count + size - 1) \div size)
  PROVE  n * size \in Nat /\ (n + 1) * size = n * size + size /\ count <= (n + 1) * size
<1> DEFINE pages == (count + size - 1) \div size
<1>1. pages \in Int /\ count + size - 1 < pages * size + size
  OBVIOUS
<1>2. pages <= n + 1
  BY <1>1 DEF IsLast
<1> HIDE DEF pages
<1>3. pages * size <= (n + 1) * size
  BY <1>1, <1>2
<1>4. n * size \in Nat /\ (n + 1) * size = n * size + size /\ pages * size \in Int
  BY <1>1
<1> QED BY <1>1, <1>3, <1>4

(* What is no more than a page is one. *)
LEMMA OnlyPage ==
  ASSUME NEW size \in Nat \ {0}, NEW count \in 0..size
  PROVE  IsLast(0, (count + size - 1) \div size)
<1> DEFINE pages == (count + size - 1) \div size
<1>1. pages \in Int /\ pages * size <= count + size - 1
  OBVIOUS
<1> HIDE DEF pages
<1>2. ASSUME pages >= 2 PROVE FALSE
  <2>1. pages * size >= 2 * size
    BY <1>1, <1>2
  <2> QED BY <1>1, <2>1
<1>3. 0 >= pages - 1
  BY <1>1, <1>2
<1> QED BY <1>3 DEF pages, IsLast

(* An answer has every object at its place. *)
LEMMA AtItsPlace ==
  ASSUME NEW S \in SUBSET Int, IsFiniteSet(S), NEW all, all = Ordered(S)
  PROVE  /\ Cardinality(S) \in Nat /\ all \in Seq(S) /\ Len(all) = Cardinality(S)
         /\ \A o \in S : /\ PlaceIn(S, o) \in 0..(Cardinality(S) - 1)
                        /\ all[PlaceIn(S, o) + 1] = o
<1> DEFINE n == Cardinality(S)
           first == NewestFirst(S)
<1>1. /\ n \in Nat /\ first \in Seq(S) /\ Len(first) = n
      /\ \A o \in S : Position(S, o) + 1 \in 1..n /\ first[Position(S, o) + 1] = o
  BY AtItsPosition
<1>2. \A o \in S : Position(S, o) \in 0..(n - 1)
  BY Positions
<1> HIDE DEF n, first
<1>3. CASE newestFirst
  <2>1. all = first
    BY <1>3 DEF Ordered, first
  <2> QED BY <1>1, <1>2, <1>3, <2>1 DEF PlaceIn, n
<1>4. CASE ~newestFirst
  <2>1. all = [i \in 1..n |-> first[(n - i) + 1]]
    BY <1>1, <1>4 DEF Ordered, Reverse, first
  <2>2. \A i \in 1..n : (n - i) + 1 \in 1..n
    BY <1>1
  <2>3. first \in [1..n -> S]
    BY <1>1
  <2>4. all \in [1..n -> S]
    BY <2>1, <2>2, <2>3
  <2>5. all \in Seq(S) /\ Len(all) = n
    BY <1>1, <2>4
  <2>6. ASSUME NEW o \in S
        PROVE  PlaceIn(S, o) \in 0..(n - 1) /\ all[PlaceIn(S, o) + 1] = o
    <3> DEFINE p == Position(S, o)
    <3>1. p \in 0..(n - 1) /\ first[p + 1] = o
      BY <1>1, <1>2
    <3>2. PlaceIn(S, o) = n - 1 - p
      BY <1>4 DEF PlaceIn, n
    <3> HIDE DEF p
    <3> DEFINE i == n - 1 - p + 1
    <3>3. i \in 1..n /\ (n - i) + 1 = p + 1 /\ n - 1 - p \in 0..(n - 1)
      BY <1>1, <3>1
    <3> HIDE DEF i
    <3>4. all[i] = o
      BY <2>1, <3>1, <3>3
    <3> QED BY <3>2, <3>3, <3>4 DEF i
  <2> QED BY <1>1, <2>5, <2>6 DEF n
<1> QED BY <1>3, <1>4

PageFrom(S, from, to) == SubSeq(Ordered(S), from + 1, Least(to, Len(Ordered(S))))

(* So a page has the objects at its places, and all of them if there are no more. *)
LEMMA PageHas ==
  ASSUME NEW S \in SUBSET Int, IsFiniteSet(S), NEW from \in Nat, NEW to \in Nat, from <= to,
         NEW page, page = PageFrom(S, from, to)
  PROVE  /\ page \in Seq(S)
         /\ newestFirst => page = PageAt(S, from, to)
         /\ \A o \in S : PlaceIn(S, o) \in from..(to - 1) => o \in ToSet(page)
         /\ from = 0 /\ Cardinality(S) <= to => Len(page) = Cardinality(S)
<1> DEFINE n == Cardinality(S)
           end == Least(to, n)
           all == Ordered(S)
<1>1. /\ n \in Nat /\ all \in Seq(S) /\ Len(all) = n
      /\ \A o \in S : PlaceIn(S, o) \in 0..(n - 1) /\ all[PlaceIn(S, o) + 1] = o
  BY AtItsPlace
<1>2. end \in Nat /\ end <= n /\ end <= to /\ (end = n \/ end = to)
  BY <1>1 DEF Least
<1>3. newestFirst => page = PageAt(S, from, to)
  BY DEF Ordered, PageAt, PageFrom
<1>4. page = SubSeq(all, from + 1, end)
  BY <1>1 DEF PageFrom
<1> HIDE DEF n, end, all
<1>5. \A i \in (from + 1)..end : all[i] \in S
  BY <1>1, <1>2
<1>6. /\ page \in Seq(S)
      /\ Len(page) = IF from + 1 <= end THEN end - (from + 1) + 1 ELSE 0
      /\ \A i \in 1..(end - (from + 1) + 1) : page[i] = all[from + 1 + i - 1]
  <2> DEFINE m == from + 1
  <2>1. m \in Int /\ end \in Int /\ \A i \in m..end : all[i] \in S
    BY <1>2, <1>5
  <2> HIDE DEF m
  <2>2. /\ SubSeq(all, m, end) \in Seq(S)
        /\ Len(SubSeq(all, m, end)) = IF m <= end THEN end - m + 1 ELSE 0
        /\ \A i \in 1..(end - m + 1) : SubSeq(all, m, end)[i] = all[m + i - 1]
    BY <2>1, SubSeqProperties
  <2> QED BY <1>4, <2>2 DEF m
<1>7. ASSUME NEW o \in S, PlaceIn(S, o) \in from..(to - 1) PROVE o \in ToSet(page)
  <2> DEFINE p == PlaceIn(S, o)
             i == p + 1 - from
  <2>1. p \in 0..(n - 1) /\ all[p + 1] = o
    BY <1>1
  <2>2. p \in from..(to - 1)
    BY <1>7
  <2> HIDE DEF p
  <2>3. /\ i \in 1..(end - (from + 1) + 1) /\ from + 1 <= end /\ from + 1 + i - 1 = p + 1
    BY <1>1, <1>2, <2>1, <2>2
  <2> HIDE DEF i
  <2>4. page[i] = o /\ Len(page) = end - (from + 1) + 1
    BY <1>6, <2>1, <2>3
  <2>5. i \in DOMAIN page
    BY <1>6, <2>3, <2>4
  <2> QED BY <2>4, <2>5 DEF ToSet
<1>8. ASSUME from = 0, n <= to PROVE Len(page) = n
  <2>1. end = n
    BY <1>1, <1>2, <1>8
  <2>2. from + 1 = 1
    BY <1>8
  <2> DEFINE m == n - (from + 1) + 1
  <2>3. Len(page) = IF 1 <= n THEN m ELSE 0
    BY <1>6, <2>1, <2>2
  <2>4. n \in Nat /\ (from + 1) \in Int
    BY <1>1
  <2>5. m = n
    BY <1>8, <2>4
  <2> HIDE DEF m
  <2>6. CASE 1 <= n
    BY <2>3, <2>5, <2>6
  <2>7. CASE ~(1 <= n)
    <3>1. Len(page) = 0
      BY <2>3, <2>7
    <3>2. n = 0
      BY <2>4, <2>7
    <3> QED BY <3>1, <3>2
  <2> QED BY <2>6, <2>7
<1>9. \A o \in S : PlaceIn(S, o) \in from..(to - 1) => o \in ToSet(page)
  BY <1>7
<1>10. from = 0 /\ n <= to => Len(page) = n
  BY <1>8
<1> QED BY <1>3, <1>6, <1>9, <1>10 DEF n

(* A newer object is behind the rest in one order, and before them in the other. *)
LEMMA OneMoreThere ==
  ASSUME NEW S \in SUBSET Int, IsFiniteSet(S), NEW o \in S, NEW t \in Int, \A p \in S : t > p
  PROVE  PlaceIn(S, o) \in Int /\ PlaceIn(S \cup {t}, o) \in Int /\ PlaceIn(S, o) <= PlaceIn(S \cup {t}, o)
<1> DEFINE N == {p \in S : p > o}
           T == S \cup {t}
           M == {p \in T : p > o}
<1>1. t \notin S /\ M = N \cup {t} /\ t \notin N
  <2>1. ~(t > t) /\ t > o
    OBVIOUS
  <2> QED BY <2>1
<1>2. IsFiniteSet(N)
  <2>1. N \in SUBSET S
    OBVIOUS
  <2> QED BY <2>1, FS_Subset
<1>3. Cardinality(N) \in Nat /\ Cardinality(S) \in Nat
  BY <1>2, FS_CardinalityType
<1> HIDE DEF N
<1>4. Cardinality(N \cup {t}) = Cardinality(N) + 1 /\ Cardinality(S \cup {t}) = Cardinality(S) + 1
  BY <1>1, <1>2, FS_AddElement
<1>5. Position(S, o) = Cardinality(N) /\ Position(T, o) = Cardinality(N) + 1
  BY <1>1, <1>4 DEF Position, N
<1>6. Cardinality(T) = Cardinality(S) + 1
  BY <1>4
<1> HIDE DEF T, M
<1>7. PlaceIn(S, o) \in Int /\ PlaceIn(T, o) \in Int /\ PlaceIn(S, o) <= PlaceIn(T, o)
  BY <1>3, <1>5, <1>6 DEF PlaceIn
<1> QED BY <1>7 DEF T

(* The first elements of a sequence that never rises are as many as they are. *)
LEMMA CountFirst ==
  ASSUME NEW s \in Seq(Int), Descending(s), NEW k \in 0..Len(s)
  PROVE  /\ IsFiniteSet({s[j] : j \in 1..k})
         /\ Cardinality({s[j] : j \in 1..k}) = k
<1> DEFINE T == {s[j] : j \in 1..k}
           f == [j \in 1..k |-> s[j]]
<1>1. Len(s) \in Nat /\ DOMAIN s = 1..Len(s) /\ \A j \in DOMAIN s : s[j] \in Int
  OBVIOUS
<1>2. 1..k \subseteq DOMAIN s /\ k \in Nat
  BY <1>1
<1>3. IsFiniteSet(1..k) /\ Cardinality(1..k) = k
  BY <1>2, FS_Interval
<1>4. f \in [1..k -> T] /\ \A x \in T : \E j \in 1..k : f[j] = x
  OBVIOUS
<1>5. ASSUME NEW i \in 1..k, NEW j \in 1..k, f[i] = f[j] PROVE i = j
  <2>1. s[i] = s[j] /\ i \in DOMAIN s /\ j \in DOMAIN s
    BY <1>2, <1>5
  <2>2. ~(i < j) /\ ~(j < i)
    BY <1>1, <2>1 DEF Descending
  <2> QED BY <1>2, <2>2
<1>6. f \in Bijection(1..k, T)
  BY <1>4, <1>5 DEF Bijection, Injection, Surjection, IsInjective
<1>7. ExistsBijection(1..k, T)
  BY <1>6 DEF ExistsBijection
<1> HIDE DEF T
<1>8. IsFiniteSet(T) /\ Cardinality(T) = Cardinality(1..k)
  BY <1>3, <1>7, FS_Bijection
<1> QED BY <1>3, <1>8 DEF T

(* What never rises, and leaves out only what is older, is the newest of all. *)
LEMMA ListedFirst ==
  ASSUME NEW A \in SUBSET Int, IsFiniteSet(A), NEW s \in Seq(A), Descending(s),
         \A x \in ToSet(s), o \in A \ ToSet(s) : x > o
  PROVE  /\ Cardinality(A) \in Nat /\ Len(s) \in Nat /\ Len(s) <= Cardinality(A)
         /\ s = SubSeq(NewestFirst(A), 1, Len(s))
         /\ A \subseteq ToSet(s) => Len(s) = Cardinality(A)
<1> DEFINE all == NewestFirst(A)
           m == Len(s)
<1>1. /\ Cardinality(A) \in Nat /\ Len(all) = Cardinality(A) /\ all \in Seq(A)
      /\ \A o \in A : Position(A, o) + 1 \in 1..Cardinality(A) /\ all[Position(A, o) + 1] = o
  BY AtItsPosition
<1>2. m \in Nat /\ DOMAIN s = 1..m /\ s \in Seq(Int) /\ \A j \in 1..m : s[j] \in A
  <2>1. m \in Nat /\ DOMAIN s = 1..m /\ \A j \in 1..m : s[j] \in A
    OBVIOUS
  <2>2. s \in Seq(Int)
    BY SeqMonotonic
  <2> QED BY <2>1, <2>2
<1> HIDE DEF all
<1>3. ASSUME NEW i \in 1..m PROVE Position(A, s[i]) + 1 = i
  <2> DEFINE T == {s[j] : j \in 1..(i - 1)}
  <2>1. i - 1 \in 0..m /\ 1..(i - 1) \subseteq 1..m
    BY <1>2
  <2>2. Cardinality(T) = i - 1
    BY <1>2, <2>1, CountFirst
  <2>3. ASSUME NEW p \in A, p > s[i] PROVE p \in T
    <3>1. s[i] \in ToSet(s)
      BY <1>2 DEF ToSet
    <3>2. p \in Int /\ s[i] \in Int /\ ~(s[i] > p)
      BY <1>2, <2>3
    <3>3. p \in ToSet(s)
      BY <3>1, <3>2
    <3>4. PICK j \in 1..m : p = s[j]
      BY <1>2, <3>3 DEF ToSet
    <3>5. ~(i < j) /\ i # j
      BY <1>2, <2>3, <3>4 DEF Descending
    <3>6. j \in 1..(i - 1)
      BY <1>2, <3>5
    <3> QED BY <3>4, <3>6
  <2>4. ASSUME NEW p \in T PROVE p \in A /\ p > s[i]
    <3>1. PICK j \in 1..(i - 1) : p = s[j]
      OBVIOUS
    <3>2. j \in 1..m /\ j < i
      BY <1>2, <2>1
    <3> QED BY <1>2, <3>1, <3>2 DEF Descending
  <2>5. {p \in A : p > s[i]} = T
    BY <2>3, <2>4
  <2>6. Position(A, s[i]) = i - 1
    BY <2>2, <2>5 DEF Position
  <2> QED BY <2>6
<1>4. \A i \in 1..m : i \in 1..Cardinality(A) /\ all[i] = s[i]
  BY <1>1, <1>2, <1>3
<1>5. m <= Cardinality(A)
  <2>1. CASE m = 0
    BY <1>1, <2>1
  <2>2. CASE m # 0
    BY <1>1, <1>2, <1>4, <2>2
  <2> QED BY <2>1, <2>2
<1>6. s = SubSeq(all, 1, m)
  <2> DEFINE t == SubSeq(all, 1, m)
  <2>1. /\ t \in Seq(A) /\ Len(t) = IF 1 <= m THEN m - 1 + 1 ELSE 0
        /\ \A i \in 1..(m - 1 + 1) : t[i] = all[1 + i - 1]
    BY <1>2, <1>4, SubSeqProperties
  <2>2. Len(t) = m /\ \A i \in 1..m : t[i] = all[i]
    BY <1>2, <2>1
  <2> HIDE DEF t, m
  <2>3. \A i \in 1..m : t[i] = s[i]
    BY <1>4, <2>2
  <2> QED BY <1>2, <2>1, <2>2, <2>3 DEF t, m
<1>7. ASSUME A \subseteq ToSet(s) PROVE m = Cardinality(A)
  <2>1. A = {s[j] : j \in 1..m}
    BY <1>2, <1>7 DEF ToSet
  <2>2. m \in 0..Len(s)
    BY <1>2
  <2> QED BY <1>2, <2>1, <2>2, CountFirst
<1> QED BY <1>1, <1>2, <1>5, <1>6, <1>7 DEF all

(* Of fewer objects no more are newer. *)
LEMMA FewerNewer ==
  ASSUME NEW S \in SUBSET Int, IsFiniteSet(S), NEW T \in SUBSET S, NEW o \in T
  PROVE  Position(T, o) \in Nat /\ Position(S, o) \in Nat /\ Position(T, o) <= Position(S, o)
<1> DEFINE N == {p \in S : p > o}
           M == {p \in T : p > o}
<1>1. N \in SUBSET S /\ M \in SUBSET N
  OBVIOUS
<1>2. IsFiniteSet(N)
  BY <1>1, FS_Subset
<1>3. IsFiniteSet(M) /\ Cardinality(M) <= Cardinality(N)
  BY <1>1, <1>2, FS_Subset
<1>4. Cardinality(N) \in Nat /\ Cardinality(M) \in Nat
  BY <1>2, <1>3, FS_CardinalityType
<1> QED BY <1>3, <1>4 DEF Position

(* A page is not empty for its size. *)
LEMMA SizesOfPages ==
  ASSUME ListTypes
  PROVE  PageSize \in Nat \ {0}
BY ListingAssumption DEF ListTypes, PageSize, Size, Least, Unlimited

(* What is read is there. *)
LEMMA ReadSources ==
  ASSUME ListTypes
  PROVE  Read \subseteq Sources
BY DEF ListTypes, Read

(* The answer to a query is no more than the source holds. *)
LEMMA MatchingTypes ==
  ASSUME ListTypes, NEW s \in Sources, NEW end \in Nat
  PROVE  /\ Matching(s, end) \in SUBSET Int /\ IsFiniteSet(Matching(s, end))
         /\ Matching(s, end) \subseteq objects[s]
<1>1. Matching(s, end) \in SUBSET (1..time) /\ time \in Nat /\ Matching(s, end) \subseteq objects[s]
  BY ListingAssumption DEF ListTypes, Matching
<1>2. IsFiniteSet(1..time)
  BY <1>1, FS_Interval
<1> QED BY <1>1, <1>2, FS_Subset

(* What meshStack creates while a list is steady comes after the until of a page, and what *)
(* it deletes leaves the rest where it was or further in front.                           *)
LEMMA NoMoreToCome ==
  ASSUME ListTypes, NEW s \in Sources, Create(s) \/ Delete(s), NEW u \in Sources, Steady'
  PROVE  /\ ToCome(u)' \subseteq ToCome(u)
         /\ ~deleted' => /\ ToCome(u)' = ToCome(u)
                         /\ Started(u) => Matching(u, until[u])' = Matching(u, until[u])
<1> DEFINE M == Matching(u, until[u])
<1>1. M \in SUBSET Int /\ IsFiniteSet(M) /\ until[u] \in Nat /\ until[u] <= time /\ time \in Nat
  <2>1. until[u] \in Nat /\ until[u] <= time /\ time \in Nat
    BY ListingAssumption DEF ListTypes
  <2> QED BY <2>1, MatchingTypes
<1>2. UNCHANGED <<until, nextPage, limit, merged, takesUntil>>
  BY DEF Create, Delete
<1>3. PageSize' = PageSize /\ (Started(u)' <=> Started(u)) /\ until'[u] = until[u]
  BY <1>2 DEF PageSize, Size, Started
<1>4. Started(u) => Matching(u, until[u])' \subseteq M /\ (~deleted' => Matching(u, until[u])' = M)
  <2> SUFFICES ASSUME Started(u)
               PROVE  Matching(u, until[u])' \subseteq M /\ (~deleted' => Matching(u, until[u])' = M)
    OBVIOUS
  <2>1. CASE Create(s)
    <3>1. \/ objects'[u] = objects[u]
          \/ u = s /\ objects'[u] = objects[u] \cup {time + 1}
      BY <2>1 DEF Create, ListTypes
    <3>2. ~(time + 1 <= until[u])
      BY <1>1
    <3>3. u = s => takesUntil
      <4>1. created' = (created \/ Started(s)) /\ takesUntil' = takesUntil
        BY <2>1 DEF Create
      <4> QED BY <4>1, Zenon DEF Steady
    <3>4. CASE objects'[u] = objects[u]
      BY <1>2, <1>3, <3>4 DEF Matching
    <3>5. CASE takesUntil /\ objects'[u] = objects[u] \cup {time + 1}
      BY <1>2, <1>3, <3>2, <3>5 DEF Matching
    <3> QED BY <3>1, <3>3, <3>4, <3>5
  <2>2. CASE Delete(s)
    <3>1. objects'[u] \subseteq objects[u] /\ deleted'
      BY <2>2 DEF Delete, ListTypes
    <3> QED BY <1>2, <1>3, <3>1 DEF Matching
  <2> QED BY <2>1, <2>2
<1>5. ToCome(u) = IF Started(u) THEN {o \in M : Position(M, o) >= nextPage[u] * PageSize} ELSE {}
  BY DEF ToCome
<1> DEFINE N == Matching(u, until[u])'
<1>6. ToCome(u)' = IF Started(u) THEN {o \in N : Position(N, o) >= nextPage[u] * PageSize} ELSE {}
  BY <1>2, <1>3 DEF ToCome
<1>7. nextPage[u] * PageSize \in Int
  <2>1. nextPage[u] \in Int /\ PageSize \in Int
    BY SizesOfPages DEF ListTypes
  <2> QED BY <2>1
<1>8. ASSUME NEW o \in ToCome(u)' PROVE o \in ToCome(u)
  <2> HIDE DEF M, N
  <2>1. Started(u) /\ o \in N /\ Position(N, o) >= nextPage[u] * PageSize
    BY <1>6, <1>8
  <2>2. N \in SUBSET M /\ o \in M
    BY <1>4, <2>1 DEF M, N
  <2>3. Position(N, o) \in Nat /\ Position(M, o) \in Nat /\ Position(N, o) <= Position(M, o)
    BY <1>1, <2>1, <2>2, FewerNewer
  <2>4. Position(M, o) >= nextPage[u] * PageSize
    BY <1>7, <2>1, <2>3
  <2> QED BY <1>5, <2>1, <2>2, <2>4
<1>9. ASSUME ~deleted' PROVE ToCome(u)' = ToCome(u)
  BY <1>4, <1>5, <1>6, <1>9
<1> QED BY <1>4, <1>8, <1>9

(* Whatever meshStack creates, no object moves to a page that was read. *)
LEMMA NoneMovesAhead ==
  ASSUME ListTypes, Kept, NEW s \in Sources, Create(s) \/ Delete(s)
  PROVE  Kept'
<1>1. UNCHANGED <<takesUntil, newestFirst, limit, merged, until, nextPage, rest, more, listed, atStart>>
  BY DEF Create, Delete
<1>2. PageSize' = PageSize /\ Read' = Read /\ Read \subseteq Sources
  BY <1>1, ReadSources DEF PageSize, Size, Read
<1> SUFFICES ASSUME ~deleted', NEW u \in Read, Started(u), NEW o \in atStart[u]
             PROVE  LET M == Matching(u, until[u])' IN
                    /\ o \in M
                    /\ ~more[u] \/ PlaceIn(M, o) < nextPage[u] * PageSize =>
                         o \in ToSet(listed) \cup ToSet(rest[u])
  BY <1>1, <1>2 DEF Kept, Started, PlaceIn
<1> DEFINE M == Matching(u, until[u])
           N == Matching(u, until[u])'
<1>3. Create(s) /\ ~deleted
  BY DEF Create, Delete
<1>4. u \in Sources /\ until[u] \in Nat /\ time \in Nat
  BY <1>2, ListingAssumption DEF ListTypes
<1>5. M \in SUBSET Int /\ IsFiniteSet(M) /\ M \subseteq objects[u]
  BY <1>4, MatchingTypes
<1>6. /\ o \in M
      /\ ~more[u] \/ PlaceIn(M, o) < nextPage[u] * PageSize => o \in ToSet(listed) \cup ToSet(rest[u])
  BY <1>3 DEF Kept
<1>7. N = M \/ N = M \cup {time + 1}
  <2>1. objects'[u] = objects[u] \/ objects'[u] = objects[u] \cup {time + 1}
    BY <1>3, <1>4 DEF Create, ListTypes
  <2> QED BY <1>1, <2>1 DEF Matching
<1>8. \A p \in M : p \in Int /\ time + 1 > p
  <2>1. M \subseteq 1..time
    BY <1>4, <1>5 DEF ListTypes
  <2> QED BY <1>4, <2>1
<1>9. nextPage[u] * PageSize \in Int
  <2>1. nextPage[u] \in Int /\ PageSize \in Int
    BY <1>4, SizesOfPages DEF ListTypes
  <2> QED BY <2>1
<1> HIDE DEF M, N
<1>10. CASE N = M
  BY <1>6, <1>10 DEF N
<1>11. CASE N = M \cup {time + 1}
  <2>1. PlaceIn(M, o) \in Int /\ PlaceIn(N, o) \in Int /\ PlaceIn(M, o) <= PlaceIn(N, o)
    <3>1. time + 1 \in Int
      BY <1>4
    <3> QED BY <1>5, <1>6, <1>8, <1>11, <3>1, OneMoreThere
  <2>2. PlaceIn(N, o) < nextPage[u] * PageSize => PlaceIn(M, o) < nextPage[u] * PageSize
    BY <1>9, <2>1
  <2> QED BY <1>6, <1>11, <2>2 DEF N
<1> QED BY <1>7, <1>10, <1>11

(* Whatever meshStack creates or deletes while the pages are read keeps the invariant. *)
LEMMA ServerNext ==
  ASSUME ListInv, NEW s \in Sources, Create(s) \/ Delete(s)
  PROVE  ListInv'
<1> USE DEF ListInv
<1>1. /\ UNCHANGED <<listPc, limit, merged, until, nextPage, rest, more, total, listed, array,
                     outcome, atStart>>
      /\ time \in Nat /\ time' \in 0..MaxTime /\ time' >= time
  BY ListingAssumption DEF Create, Delete, ListTypes
<1>2. \A u \in Sources : Steady' =>
        /\ ToCome(u)' \subseteq ToCome(u)
        /\ ~deleted' => /\ ToCome(u)' = ToCome(u)
                        /\ Started(u) => Matching(u, until[u])' = Matching(u, until[u])
  BY NoMoreToCome
<1>3. (~deleted' => ~deleted) /\ (Steady' => Steady)
  <2>1. ~deleted' => ~deleted
    BY DEF Create, Delete
  <2>2. /\ takesUntil' = takesUntil /\ newestFirst' = newestFirst
        /\ created' = created \/ created' = (created \/ Started(s))
    BY DEF Create, Delete
  <2>3. Steady' => Steady
    BY <2>2, Zenon DEF Steady
  <2> QED BY <2>1, <2>3
<1>4. Read' = Read /\ Read \subseteq Sources
  BY <1>1, ReadSources DEF Read
<1>5. \A u \in Sources : /\ Started(u)' <=> Started(u)
                         /\ Advanced(u)' <=> Advanced(u)
                         /\ Steady' => Left(u)' \subseteq Left(u)
                         /\ Steady' /\ ~deleted' => Left(u)' = Left(u)
  BY <1>1, <1>2 DEF Started, Advanced, Left
<1>6. /\ objects' \in [Sources -> SUBSET (1..time')]
      /\ \A u \in Sources : u # s => objects'[u] = objects[u]
      /\ \A o \in objects'[s] : o \in objects[s] \/ o = time + 1
  <2>1. objects \in [Sources -> SUBSET (1..time)]
    BY DEF ListTypes
  <2>2. 1..time \subseteq 1..time'
    BY <1>1
  <2>3. CASE Create(s)
    <3>1. objects' = [objects EXCEPT ![s] = @ \cup {time + 1}] /\ time + 1 \in 1..time'
      BY <1>1, <2>3 DEF Create
    <3> QED BY <2>1, <2>2, <3>1
  <2>4. CASE Delete(s)
    BY <2>1, <2>2, <2>4 DEF Delete
  <2> QED BY <2>3, <2>4
<1>7. ListTypes'
  <2>1. 1..time \subseteq 1..time' /\ 0..time \subseteq 0..time'
    BY <1>1
  <2>2. until \in [Sources -> 0..time'] /\ atStart \in [Sources -> SUBSET (1..time')]
    BY <2>1 DEF ListTypes
  <2>3. \A u \in Sources : ToSet(rest[u]) \subseteq 1..time'
    BY <2>1 DEF ListTypes
  <2> QED BY <1>1, <1>6, <2>2, <2>3 DEF ListTypes
<1>8. Apart'
  <2>1. \A u \in Sources : time + 1 \notin objects[u] \cup ToSet(rest[u])
    BY <1>1 DEF ListTypes
  <2> SUFFICES ASSUME NEW u \in Sources, NEW v \in Sources, u # v
               PROVE  (objects'[u] \cup ToSet(rest[u])) \cap (objects'[v] \cup ToSet(rest[v])) = {}
    BY <1>1 DEF Apart
  <2>2. (objects[u] \cup ToSet(rest[u])) \cap (objects[v] \cup ToSet(rest[v])) = {}
    BY DEF Apart
  <2>3. /\ \A o \in objects'[u] : o \in objects[u] \/ (u = s /\ o = time + 1)
        /\ \A o \in objects'[v] : o \in objects[v] \/ (v = s /\ o = time + 1)
    BY <1>6
  <2> QED BY <2>1, <2>2, <2>3
<1>9. InOrder'
  BY <1>1, <1>2, <1>3, <1>4, <1>5 DEF InOrder
<1>10. PagesInv'
  BY <1>1, <1>2, <1>3, <1>4, <1>5 DEF PagesInv
<1>11. Present'
  BY <1>1, <1>2, <1>3, <1>4, <1>5 DEF Present
<1>12. Counted'
  BY <1>1 DEF Counted, Started
<1>13. ListsNewest'
  BY <1>1, <1>3, <1>4 DEF ListsNewest
<1>14. Kept'
  BY NoneMovesAhead
<1>15. OnePage'
  BY <1>1 DEF OnePage, Started
<1> QED BY <1>7, <1>8, <1>9, <1>10, <1>11, <1>12, <1>13, <1>14, <1>15

(* What a step keeps that reads and lists nothing. *)
LEMMA SameListing ==
  ASSUME ListInv, listPc' \in {"idle", "heads", "yield", "page", "done"},
         UNCHANGED <<serverVars, limit, merged, until, nextPage, rest, more, total, listed,
                     atStart, created, deleted>>,
         listPc' = "yield" => \A s \in Read : Advanced(s)
  PROVE  ListTypes' /\ Apart' /\ InOrder' /\ PagesInv' /\ Present' /\ Kept' /\ OnePage'
<1> USE DEF ListInv, serverVars
<1>1. Read' = Read /\ PageSize' = PageSize /\ (Steady' <=> Steady)
  BY DEF Read, PageSize, Size, Steady
<1>2. \A u : /\ ToCome(u)' = ToCome(u) /\ Left(u)' = Left(u) /\ (Started(u)' <=> Started(u))
             /\ (Advanced(u)' <=> Advanced(u)) /\ Matching(u, until[u])' = Matching(u, until[u])
  BY <1>1 DEF ToCome, Left, Started, Advanced, Matching
<1>3. ListTypes'
  BY DEF ListTypes
<1>4. Apart'
  BY DEF Apart
<1>5. InOrder'
  BY <1>1, <1>2 DEF InOrder
<1>6. PagesInv'
  BY <1>1, <1>2 DEF PagesInv
<1>7. Present'
  BY <1>1, <1>2 DEF Present
<1>8. Kept'
  <2>1. \A u : \A o : PlaceIn(Matching(u, until[u]), o)' = PlaceIn(Matching(u, until[u]), o)
    BY <1>2 DEF PlaceIn
  <2> QED BY <1>1, <1>2, <2>1 DEF Kept
<1>9. OnePage'
  BY DEF OnePage, Started
<1> QED BY <1>3, <1>4, <1>5, <1>6, <1>7, <1>8, <1>9

(* An error ends the list, and leaves its array open. *)
LEMMA ListEndsInError ==
  ASSUME ListInv, EndList("error"), listPc # "done",
         UNCHANGED <<serverVars, limit, merged, until, nextPage, rest, more, total, listed, array,
                     atStart, created, deleted>>
  PROVE  ListInv'
<1>1. ListTypes' /\ Apart' /\ InOrder' /\ PagesInv' /\ Present' /\ Kept' /\ OnePage' /\ (Steady' => Steady)
  BY SameListing DEF EndList, Steady, serverVars
<1>2. listPc' = "done" /\ outcome' = "error" /\ array' \in {"none", "open"}
  BY DEF EndList, ListInv, Counted
<1>3. Counted'
  BY <1>2 DEF ListInv, Counted, Started
<1>4. ListsNewest'
  BY <1>1, <1>2 DEF ListInv, ListsNewest
<1> QED BY <1>1, <1>3, <1>4 DEF ListInv

(* A page is the next part of the answer, the whole of it where it is no longer than the  *)
(* page; newest first it is the next part of what is to come of its source.               *)
LEMMA PageRead ==
  ASSUME ListInv, NEW s \in Read, ~Advanced(s), ReadPage(s), UNCHANGED <<serverVars, limit, merged>>,
         NEW M, M = Matching(s, IF Started(s) THEN until[s] ELSE time)
  PROVE  /\ rest[s] = <<>> /\ rest' \in [Sources -> Seq(1..MaxTime)] /\ ToSet(rest[s])' \subseteq objects[s]
         /\ Matching(s, until[s])' = M /\ Cardinality(M) \in Nat
         /\ total' = IF merged \/ total # Unknown THEN total ELSE Cardinality(M)
         /\ \A o \in M :
              /\ PlaceIn(M, o) < (nextPage[s] + 1) * PageSize =>
                   PlaceIn(M, o) < nextPage[s] * PageSize \/ o \in ToSet(rest[s])'
              /\ ~more[s]' => PlaceIn(M, o) < (nextPage[s] + 1) * PageSize
         /\ ~Started(s) /\ Cardinality(M) <= PageSize => ~more[s]' /\ Len(rest[s]') = Cardinality(M)
         /\ newestFirst => /\ Descending(rest[s]')
                           /\ \A x \in ToSet(rest[s])', o \in ToCome(s)' : x > o
                           /\ ~more[s]' => ToCome(s)' = {}
                           /\ Left(s)' = IF Started(s) THEN ToCome(s) ELSE objects[s]
<1> DEFINE end == IF Started(s) THEN until[s] ELSE time
           n == nextPage[s]
           from == n * PageSize
           to == (n + 1) * PageSize
           all == Ordered(M)
           page == PageFrom(M, from, to)
<1>1. ListTypes /\ s \in Sources /\ PageSize \in Nat \ {0} /\ PageSize' = PageSize /\ n \in Nat
      /\ time \in Nat /\ time <= MaxTime
  <2>1. ListTypes /\ s \in Sources /\ PageSize \in Nat \ {0}
    BY ReadSources, SizesOfPages DEF ListInv
  <2>2. PageSize' = PageSize
    BY DEF PageSize, Size
  <2>3. n \in Nat
    BY <2>1 DEF ListTypes
  <2>4. time \in Nat /\ time <= MaxTime
    BY <2>1, ListingAssumption DEF ListTypes
  <2> QED BY <2>1, <2>2, <2>3, <2>4
<1>2. end \in Nat /\ M = Matching(s, end)
  BY <1>1 DEF ListTypes
<1>3. M \in SUBSET Int /\ IsFiniteSet(M) /\ M \subseteq objects[s] /\ M \subseteq 1..MaxTime
  <2>1. M \in SUBSET Int /\ IsFiniteSet(M) /\ M \subseteq objects[s]
    BY <1>1, <1>2, MatchingTypes
  <2>2. objects[s] \subseteq 1..MaxTime
    <3>1. objects[s] \subseteq 1..time
      BY <1>1 DEF ListTypes
    <3>2. 1..time \subseteq 1..MaxTime
      BY <1>1, ListingAssumption
    <3> QED BY <3>1, <3>2
  <2> QED BY <2>1, <2>2
<1>4. from \in Nat /\ to \in Nat /\ from <= to
  <2>1. from \in Nat /\ to = from + PageSize
    BY <1>1
  <2> QED BY <1>1, <2>1
<1>5. /\ until' = [until EXCEPT ![s] = end]
      /\ rest' = [rest EXCEPT ![s] = page]
      /\ more' = [more EXCEPT ![s] = ~IsLast(n, Pages(Len(all)))]
      /\ nextPage' = [nextPage EXCEPT ![s] = n + 1]
      /\ total' = IF merged \/ total # Unknown THEN total ELSE Len(all)
  BY <1>2 DEF ReadPage, PageFrom
<1>6. /\ until'[s] = end /\ rest'[s] = page /\ nextPage'[s] = n + 1
      /\ more'[s] = ~IsLast(n, Pages(Len(all)))
  BY <1>1, <1>5 DEF ListTypes
<1>7. /\ Cardinality(M) \in Nat /\ Len(all) = Cardinality(M)
      /\ \A o \in M : Position(M, o) \in 0..(Cardinality(M) - 1)
      /\ \A o \in M : PlaceIn(M, o) \in 0..(Cardinality(M) - 1)
  BY <1>3, AtItsPlace, Positions
<1>8. Matching(s, until[s])' = M
  BY <1>2, <1>6 DEF Matching, serverVars
<1>9. /\ page \in Seq(M)
      /\ newestFirst => page = PageAt(M, from, to)
      /\ \A o \in M : PlaceIn(M, o) \in from..(to - 1) => o \in ToSet(page)
      /\ from = 0 /\ Cardinality(M) <= to => Len(page) = Cardinality(M)
  <2> HIDE DEF from, to
  <2> QED BY <1>3, <1>4, PageHas
<1>10. rest[s] = <<>>
  BY DEF Advanced
<1>11. rest' \in [Sources -> Seq(1..MaxTime)]
  <2>1. page \in Seq(1..MaxTime)
    BY <1>3, <1>9, SeqMonotonic
  <2> QED BY <1>1, <1>5, <2>1 DEF ListTypes
<1>12. ToSet(rest[s])' \subseteq objects[s]
  <2>1. \A x \in ToSet(page) : x \in M
    <3> HIDE DEF page
    <3> QED BY <1>9 DEF ToSet
  <2> QED BY <1>3, <1>6, <2>1
<1>13. ~more[s]' => Cardinality(M) <= to
  <2> SUFFICES ASSUME ~more[s]' PROVE Cardinality(M) <= to
    OBVIOUS
  <2>1. IsLast(n, (Cardinality(M) + PageSize - 1) \div PageSize)
    BY <1>6, <1>7 DEF Pages
  <2> DEFINE c == Cardinality(M)
  <2>2. c \in Nat /\ IsLast(n, (c + PageSize - 1) \div PageSize)
    BY <1>7, <2>1
  <2> HIDE DEF c, n
  <2>3. c <= (n + 1) * PageSize
    BY <1>1, <2>2, NoneAfterLast
  <2> QED BY <2>3 DEF c
<1>14. ASSUME NEW o \in M
       PROVE  /\ PlaceIn(M, o) < to => PlaceIn(M, o) < from \/ o \in ToSet(rest[s])'
              /\ ~more[s]' => PlaceIn(M, o) < to
  <2> DEFINE p == PlaceIn(M, o)
  <2>1. p \in 0..(Cardinality(M) - 1) /\ (p \in from..(to - 1) => o \in ToSet(rest'[s]))
    BY <1>6, <1>7, <1>9
  <2> HIDE DEF p, from, to
  <2>2. p < to => p < from \/ o \in ToSet(rest'[s])
    BY <1>4, <1>7, <2>1
  <2>3. ~more'[s] => p < to
    BY <1>4, <1>7, <1>13, <2>1
  <2> QED BY <2>2, <2>3 DEF p
<1>15. ASSUME ~Started(s), Cardinality(M) <= PageSize
       PROVE  ~more[s]' /\ Len(rest[s]') = Cardinality(M)
  <2>1. n = 0 /\ from = 0 /\ to = PageSize
    <3>1. n = 0
      BY <1>1, <1>15 DEF Started
    <3> QED BY <1>1, <3>1
  <2>2. Len(page) = Cardinality(M)
    <3> HIDE DEF page, from, to
    <3> QED BY <1>9, <1>15, <2>1
  <2>3. IsLast(0, (Cardinality(M) + PageSize - 1) \div PageSize)
    <3>1. Cardinality(M) \in 0..PageSize
      BY <1>1, <1>7, <1>15
    <3> QED BY <1>1, <3>1, OnlyPage
  <2>4. IsLast(n, Pages(Len(all)))
    BY <1>7, <2>1, <2>3 DEF Pages
  <2> QED BY <1>6, <2>2, <2>4
<1>16. ASSUME newestFirst
       PROVE  /\ Descending(rest[s]')
              /\ \A x \in ToSet(rest[s])', o \in ToCome(s)' : x > o
              /\ ~more[s]' => ToCome(s)' = {}
              /\ Left(s)' = IF Started(s) THEN ToCome(s) ELSE objects[s]
  <2>1. ToCome(s)' = {o \in M : Position(M, o) >= to}
    <3>1. Started(s)'
      BY <1>1, <1>6 DEF Started
    <3>2. nextPage'[s] * PageSize' = to
      BY <1>1, <1>6
    <3> QED BY <1>8, <3>1, <3>2 DEF ToCome
  <2>2. /\ Descending(page)
        /\ ToSet(page) = {o \in M : Position(M, o) \in from..(to - 1)}
    <3> HIDE DEF from, to, page
    <3>1. /\ Descending(page)
          /\ \A o : o \in ToSet(page) <=> o \in M /\ Position(M, o) \in from..(to - 1)
      BY <1>3, <1>4, <1>9, <1>16, PageOf
    <3> QED BY <3>1
  <2>3. ToSet(rest[s])' = {o \in M : Position(M, o) \in from..(to - 1)}
    BY <1>6, <2>2
  <2> HIDE DEF from, to, page
  <2>4. ASSUME NEW x \in ToSet(rest[s])', NEW o \in ToCome(s)' PROVE x > o
    <3>1. x \in M /\ o \in M /\ Position(M, x) \in from..(to - 1) /\ Position(M, o) >= to
      BY <2>1, <2>3, <2>4
    <3>2. /\ x \in Int /\ o \in Int
          /\ Position(M, o) \in Int /\ Position(M, x) \in Int /\ Position(M, x) < Position(M, o)
      BY <1>3, <1>4, <1>7, <3>1
    <3>3. o > x => Position(M, o) < Position(M, x)
      BY <1>3, <3>1, Positions
    <3> QED BY <3>2, <3>3
  <2>5. ASSUME ~more[s]' PROVE ToCome(s)' = {}
    BY <1>4, <1>7, <1>13, <2>1, <2>5
  <2>6. Left(s)' = {o \in M : Position(M, o) >= from}
    <3>1. \A o \in M : Position(M, o) >= from <=> Position(M, o) \in from..(to - 1) \/ Position(M, o) >= to
      BY <1>4, <1>7
    <3> QED BY <2>1, <2>3, <3>1 DEF Left
  <2>7. Left(s)' = IF Started(s) THEN ToCome(s) ELSE objects[s]
    <3>1. CASE Started(s)
      BY <1>2, <2>6, <3>1 DEF ToCome, from
    <3>2. CASE ~Started(s)
      <4>1. n = 0 /\ from = 0
        BY <1>1, <3>2 DEF Started, from
      <4>2. M = objects[s]
        BY <1>1, <3>2 DEF Matching, ListTypes
      <4>3. \A o \in M : Position(M, o) >= 0
        BY <1>7
      <4> QED BY <2>6, <3>2, <4>1, <4>2, <4>3
    <3> QED BY <3>1, <3>2
  <2> QED BY <1>6, <2>2, <2>4, <2>5, <2>7
<1>17. total' = IF merged \/ total # Unknown THEN total ELSE Cardinality(M)
  BY <1>5, <1>7
<1> QED BY <1>7, <1>8, <1>10, <1>11, <1>12, <1>14, <1>15, <1>16, <1>17

(* Reading a page keeps the invariant. *)
LEMMA ReadHeadNext ==
  ASSUME ListInv, ReadHead
  PROVE  ListInv'
<1> USE DEF ListInv
<1>1. PICK s \in Read : ~Advanced(s) /\ ReadPage(s)
  BY DEF ReadHead
<1>2. /\ UNCHANGED <<serverVars, limit, merged>> /\ listPc \in {"heads", "page"}
      /\ UNCHANGED <<listPc, listed, array, outcome, created, deleted>>
  BY DEF ReadHead
<1> DEFINE end == IF Started(s) THEN until[s] ELSE time
           M == Matching(s, end)
<1>3. /\ rest[s] = <<>> /\ rest' \in [Sources -> Seq(1..MaxTime)] /\ ToSet(rest[s])' \subseteq objects[s]
      /\ Matching(s, until[s])' = M /\ Cardinality(M) \in Nat
      /\ total' = IF merged \/ total # Unknown THEN total ELSE Cardinality(M)
      /\ \A o \in M :
           /\ PlaceIn(M, o) < (nextPage[s] + 1) * PageSize =>
                PlaceIn(M, o) < nextPage[s] * PageSize \/ o \in ToSet(rest[s])'
           /\ ~more[s]' => PlaceIn(M, o) < (nextPage[s] + 1) * PageSize
      /\ ~Started(s) /\ Cardinality(M) <= PageSize => ~more[s]' /\ Len(rest[s]') = Cardinality(M)
      /\ newestFirst => /\ Descending(rest[s]')
                        /\ \A x \in ToSet(rest[s])', o \in ToCome(s)' : x > o
                        /\ ~more[s]' => ToCome(s)' = {}
                        /\ Left(s)' = IF Started(s) THEN ToCome(s) ELSE objects[s]
  BY <1>1, <1>2, PageRead
<1> HIDE DEF M
<1>4. /\ s \in Sources /\ Read \subseteq Sources /\ Read' = Read /\ UNCHANGED <<objects, time>>
      /\ (Steady' <=> Steady) /\ (Steady => newestFirst)
  BY <1>2, ReadSources DEF Read, serverVars, Steady
<1>5. /\ until' = [until EXCEPT ![s] = end]
      /\ rest' = [rest EXCEPT ![s] = rest'[s]]
      /\ more' = [more EXCEPT ![s] = more'[s]]
      /\ nextPage' = [nextPage EXCEPT ![s] = nextPage[s] + 1]
      /\ atStart' = IF Started(s) THEN atStart ELSE [atStart EXCEPT ![s] = objects[s]]
      /\ more'[s] \in BOOLEAN /\ end \in 0..time
  <2>1. more' = [more EXCEPT ![s] = more'[s]] /\ more'[s] \in BOOLEAN
    BY <1>1, <1>4 DEF ReadPage, ListTypes
  <2>2. rest' = [rest EXCEPT ![s] = rest'[s]]
    BY <1>1, <1>4 DEF ReadPage, ListTypes
  <2>3. end \in 0..time
    <3>1. until[s] \in 0..time /\ time \in Nat
      BY <1>4, ListingAssumption DEF ListTypes
    <3> QED BY <3>1
  <2> QED BY <1>1, <2>1, <2>2, <2>3 DEF ReadPage
<1>6. /\ until'[s] = end /\ nextPage'[s] = nextPage[s] + 1 /\ Started(s)'
      /\ atStart'[s] = IF Started(s) THEN atStart[s] ELSE objects[s]
  BY <1>4, <1>5 DEF ListTypes, Started
<1>7. \A u \in Sources : u # s =>
        /\ until'[u] = until[u] /\ nextPage'[u] = nextPage[u] /\ rest'[u] = rest[u]
        /\ more'[u] = more[u] /\ atStart'[u] = atStart[u]
  BY <1>4, <1>5 DEF ListTypes
<1>8. \A u \in Sources : u # s =>
        /\ ToCome(u)' = ToCome(u) /\ Left(u)' = Left(u)
        /\ (Started(u)' <=> Started(u)) /\ Matching(u, until[u])' = Matching(u, until[u])
  <2>1. PageSize' = PageSize /\ takesUntil' = takesUntil
    BY <1>2 DEF PageSize, Size, serverVars
  <2> QED BY <1>4, <1>7, <2>1 DEF ToCome, Left, Started, Matching
<1>9. \A u \in Sources : Started(u) => Started(u)' /\ Matching(u, until[u])' = Matching(u, until[u])
  <2>1. Started(s) => Matching(s, until[s])' = Matching(s, until[s])
    BY <1>3 DEF M
  <2> QED BY <1>6, <1>8, <2>1
<1>10. ListTypes'
  <2>1. /\ nextPage' \in [Sources -> Nat] /\ until' \in [Sources -> 0..time]
        /\ more' \in [Sources -> BOOLEAN] /\ atStart' \in [Sources -> SUBSET (1..time)]
    <3> HIDE DEF end
    <3>1. nextPage' \in [Sources -> Nat]
      BY <1>4, <1>5 DEF ListTypes
    <3>2. until' \in [Sources -> 0..time]
      BY <1>4, <1>5 DEF ListTypes
    <3>3. more' \in [Sources -> BOOLEAN]
      BY <1>4, <1>5 DEF ListTypes
    <3>4. atStart' \in [Sources -> SUBSET (1..time)]
      <4>1. CASE Started(s)
        BY <1>5, <4>1 DEF ListTypes
      <4>2. CASE ~Started(s)
        <5>1. atStart' = [atStart EXCEPT ![s] = objects[s]]
          BY <1>5, <4>2
        <5> QED BY <1>4, <5>1 DEF ListTypes
      <4> QED BY <4>1, <4>2
    <3> QED BY <3>1, <3>2, <3>3, <3>4
  <2>2. \A u \in Sources : ToSet(rest'[u]) \subseteq 1..time
    <3>1. ToSet(rest'[s]) \subseteq 1..time
      BY <1>3, <1>4 DEF ListTypes
    <3> QED BY <1>7, <3>1 DEF ListTypes
  <2>3. total' \in Int
    <3>1. Cardinality(M) \in Int /\ total \in Int
      BY <1>3 DEF ListTypes
    <3> QED BY <1>3, <3>1
  <2> QED BY <1>2, <1>3, <1>4, <2>1, <2>2, <2>3 DEF ListTypes
<1>11. Apart'
  <2> SUFFICES ASSUME NEW u \in Sources, NEW v \in Sources, u # v
               PROVE  (objects[u] \cup ToSet(rest'[u])) \cap (objects[v] \cup ToSet(rest'[v])) = {}
    BY <1>4 DEF Apart
  <2>1. \A w \in Sources :
          objects[w] \cup ToSet(rest'[w]) \subseteq objects[w] \cup ToSet(rest[w])
    BY <1>3, <1>7
  <2> QED BY <2>1 DEF Apart
<1>12. listed # <<>> => Started(s)
  BY <1>1 DEF PagesInv
<1>13. \A x \in ToSet(listed) : listed # <<>>
  BY DEF ToSet
<1>14. InOrder'
  <2> SUFFICES ASSUME Steady PROVE InOrder'
    BY <1>4 DEF InOrder
  <2>1. ASSUME NEW u \in Sources
        PROVE  Descending(rest[u])' /\ \A x \in ToSet(rest[u])', o \in ToCome(u)' : x > o
    BY <1>3, <1>4, <1>7, <1>8 DEF InOrder
  <2>2. ASSUME NEW x \in ToSet(listed), NEW u \in Read, NEW o \in Left(u)' PROVE x > o
    <3>1. o \in Left(u)
      BY <1>3, <1>4, <1>8, <1>12, <1>13, <2>2 DEF Left
    <3> QED BY <3>1 DEF InOrder
  <2> QED BY <1>2, <1>4, <2>1, <2>2 DEF InOrder
<1>15. PagesInv'
  <2>1. \A u \in Sources : Steady' /\ ~more[u]' => ToCome(u)' = {}
    BY <1>3, <1>4, <1>7, <1>8 DEF PagesInv
  <2>2. \A u \in Sources : ~Started(u)' => rest[u]' = <<>> /\ more[u]' /\ atStart[u]' = {}
    BY <1>6, <1>7, <1>8 DEF PagesInv
  <2>3. listed # <<>> => \A u \in Read : Started(u)'
    BY <1>4, <1>9 DEF PagesInv
  <2> QED BY <1>2, <1>4, <2>1, <2>2, <2>3 DEF PagesInv
<1>16. Present'
  <2> SUFFICES ASSUME Steady, ~deleted
               PROVE  /\ \A u \in Sources : /\ Left(u)' \subseteq atStart'[u]
                                            /\ Started(u)' => atStart'[u] = Matching(u, until[u])'
                      /\ \A u \in Read : atStart'[u] \subseteq ToSet(listed) \cup Left(u)'
                      /\ ToSet(listed) \subseteq UNION {atStart'[u] : u \in Read}
    BY <1>2, <1>4 DEF Present
  <2>1. Left(s)' = IF Started(s) THEN Left(s) ELSE objects[s]
    BY <1>3, <1>4 DEF Left, ToSet
  <2>2. ASSUME NEW u \in Sources PROVE Left(u)' \subseteq atStart'[u]
    BY <1>6, <1>7, <1>8, <2>1 DEF Present
  <2>3. ASSUME NEW u \in Sources, Started(u)' PROVE atStart'[u] = Matching(u, until[u])'
    <3>1. CASE Started(u)
      BY <1>6, <1>7, <1>9, <3>1 DEF Present
    <3>2. CASE ~Started(u)
      <4>1. u = s
        BY <1>8, <2>3, <3>2
      <4>2. Matching(s, time) = objects[s]
        BY <1>4, ListingAssumption DEF Matching, ListTypes
      <4> QED BY <1>3, <1>6, <3>2, <4>1, <4>2 DEF M
    <3> QED BY <3>1, <3>2
  <2>4. ASSUME NEW u \in Read PROVE atStart'[u] \subseteq ToSet(listed) \cup Left(u)'
    BY <1>4, <1>6, <1>7, <1>8, <2>1 DEF Present
  <2>5. \A u \in Read : atStart[u] \subseteq atStart'[u]
    BY <1>4, <1>6, <1>7 DEF PagesInv
  <2>6. ToSet(listed) \subseteq UNION {atStart'[u] : u \in Read}
    BY <2>5 DEF Present
  <2> QED BY <2>2, <2>3, <2>4, <2>6
<1>17. Counted'
  <2>1. merged => total' = Unknown
    BY <1>3 DEF Counted
  <2>2. ~merged => total' = IF Started(1)' THEN Cardinality(atStart[1]') ELSE Unknown
    <3> SUFFICES ASSUME ~merged PROVE s = 1 /\ total' = Cardinality(atStart'[s])
      BY <1>6
    <3>1. s = 1
      BY <1>1 DEF Read
    <3>2. CASE Started(s)
      <4>1. atStart[s] \subseteq 1..time /\ time \in Nat
        BY <1>4, ListingAssumption DEF ListTypes
      <4>2. Cardinality(atStart[s]) \in Nat
        <5>1. IsFiniteSet(1..time)
          BY <4>1, FS_Interval
        <5>2. IsFiniteSet(atStart[s])
          BY <4>1, <5>1, FS_Subset
        <5> QED BY <5>2, FS_CardinalityType
      <4>3. total = Cardinality(atStart[s])
        BY <3>1, <3>2 DEF Counted
      <4>4. total # Unknown
        BY <4>2, <4>3 DEF Unknown
      <4> QED BY <1>3, <1>6, <3>1, <3>2, <4>3, <4>4
    <3>3. CASE ~Started(s)
      <4>1. total = Unknown
        BY <3>1, <3>3 DEF Counted
      <4>2. Matching(s, time) = objects[s]
        BY <1>4, ListingAssumption DEF Matching, ListTypes
      <4> QED BY <1>3, <1>6, <3>1, <3>3, <4>1, <4>2 DEF M
    <3> QED BY <3>1, <3>2, <3>3
  <2> QED BY <1>2, <2>1, <2>2 DEF Counted
<1>18. ListsNewest'
  <2>1. outcome = "none" /\ array \in {"none", "open"}
    BY <1>2 DEF Counted
  <2> QED BY <1>2, <1>4, <2>1 DEF ListsNewest
<1>19. PageSize' = PageSize /\ nextPage[s] \in Nat /\ PageSize \in Nat
  BY <1>2, <1>4, SizesOfPages DEF PageSize, Size, ListTypes
<1>20. ~Started(s) => atStart'[s] = M
  BY <1>4, <1>6, ListingAssumption DEF M, Matching, ListTypes
<1>21. Kept'
  <2> SUFFICES ASSUME ~deleted, NEW u \in Read, Started(u)', NEW o \in atStart'[u]
               PROVE  LET N == Matching(u, until[u])' IN
                      /\ o \in N
                      /\ ~more'[u] \/ PlaceIn(N, o) < nextPage'[u] * PageSize =>
                           o \in ToSet(listed) \cup ToSet(rest'[u])
    <3>1. newestFirst' = newestFirst
      BY <1>2 DEF serverVars
    <3> QED BY <1>2, <1>4, <1>19, <3>1 DEF Kept, PlaceIn
  <2>1. CASE u # s
    BY <1>4, <1>7, <1>8, <2>1 DEF Kept
  <2>2. CASE u = s
    <3>1. o \in M
      BY <1>6, <1>20, <2>2 DEF Kept, M
    <3>2. Matching(u, until[u])' = M /\ nextPage'[u] = nextPage[s] + 1
      BY <1>3, <1>6, <2>2
    <3>3. Started(s) /\ PlaceIn(M, o) < nextPage[s] * PageSize => o \in ToSet(listed)
      <4>1. ToSet(rest[s]) = {}
        BY <1>3 DEF ToSet
      <4> QED BY <1>6, <2>2, <4>1 DEF Kept, M
    <3>4. ~Started(s) => ~(PlaceIn(M, o) < nextPage[s] * PageSize)
      <4>1. ~Started(s) => nextPage[s] * PageSize = 0
        BY <1>19 DEF Started
      <4>2. PlaceIn(M, o) \in Nat
        <5>1. M \in SUBSET Int /\ IsFiniteSet(M)
          <6>1. end \in Nat
            BY <1>4, <1>5, ListingAssumption DEF ListTypes
          <6> QED BY <1>4, <6>1, MatchingTypes DEF M
        <5> QED BY <3>1, <5>1, AtItsPlace
      <4> QED BY <4>1, <4>2
    <3>5. ~more'[s] \/ PlaceIn(M, o) < (nextPage[s] + 1) * PageSize =>
            PlaceIn(M, o) < nextPage[s] * PageSize \/ o \in ToSet(rest'[s])
      BY <1>3, <3>1
    <3> QED BY <2>2, <3>1, <3>2, <3>3, <3>4, <3>5
  <2> QED BY <2>1, <2>2
<1>22. OnePage'
  <2> SUFFICES ASSUME ~merged, limit # Unlimited, total' <= limit
               PROVE  ~more'[1] /\ Len(listed) + Len(rest'[1]) = total'
    BY <1>2 DEF OnePage
  <2>1. s = 1
    BY <1>1 DEF Read
  <2>2. CASE Started(s)
    <3>1. total = Cardinality(atStart[1]) /\ total # Unknown
      <4>1. atStart[s] \in SUBSET (1..time) /\ IsFiniteSet(1..time)
        BY <1>4, ListingAssumption, FS_Interval DEF ListTypes
      <4>2. Cardinality(atStart[s]) \in Nat
        <5>1. IsFiniteSet(atStart[s])
          BY <4>1, FS_Subset
        <5> QED BY <5>1, FS_CardinalityType
      <4> QED BY <2>1, <2>2, <4>2 DEF Counted, Unknown
    <3>2. ~more[1]
      BY <1>3, <2>1, <2>2, <3>1 DEF OnePage
    <3> QED BY <1>1, <2>1, <3>2 DEF Advanced
  <2>3. CASE ~Started(s)
    <3>1. total = Unknown /\ total' = Cardinality(M)
      BY <1>3, <2>1, <2>3 DEF Counted
    <3>2. PageSize = limit
      BY DEF PageSize, Size
    <3>3. ~more'[s] /\ Len(rest'[s]) = Cardinality(M)
      BY <1>3, <2>3, <3>1, <3>2
    <3>4. listed = <<>> /\ Len(listed) = 0
      BY <1>12, <2>3
    <3> QED BY <1>3, <2>1, <3>1, <3>3, <3>4
  <2> QED BY <2>2, <2>3
<1> QED BY <1>10, <1>11, <1>14, <1>15, <1>16, <1>17, <1>18, <1>21, <1>22

(* Of numbers that are not too many one is the greatest. *)
LEMMA Greatest ==
  ASSUME NEW S \in SUBSET Int, IsFiniteSet(S), S # {}
  PROVE  \E o \in S : \A p \in S : p <= o
<1>1. Cardinality(S) \in Nat /\ Cardinality(S) # 0
  BY FS_CardinalityType, FS_EmptySet
<1>2. 0 \in 0..(Cardinality(S) - 1)
  BY <1>1
<1>3. PICK o \in S : Position(S, o) = 0
  BY <1>2, EachPosition
<1> DEFINE N == {p \in S : p > o}
<1>4. IsFiniteSet(N) /\ Cardinality(N) = 0
  BY <1>3, FS_Subset DEF Position
<1>5. N = {}
  BY <1>4, FS_EmptySet
<1>6. \A p \in S : ~(p > o) /\ p \in Int /\ o \in Int
  BY <1>5
<1> QED BY <1>6

(* Of the objects that come next of each source one is the newest. *)
LEMMA NewestHead ==
  ASSUME ListInv, Heads # {}
  PROVE  /\ Newest \in Heads /\ \A u \in Heads : rest[u][1] <= rest[Newest][1]
         /\ \A u \in Heads : u \in Sources /\ Len(rest[u]) >= 1 /\ rest[u][1] \in ToSet(rest[u])
<1>1. ASSUME NEW u \in Heads
      PROVE  /\ u \in Sources /\ rest[u] \in Seq(1..MaxTime) /\ rest[u] # <<>>
             /\ Len(rest[u]) >= 1 /\ rest[u][1] \in ToSet(rest[u]) /\ rest[u][1] \in 1..time
  <2>1. u \in Sources /\ rest[u] \in Seq(1..MaxTime) /\ rest[u] # <<>>
    BY ReadSources DEF ListInv, ListTypes, Heads
  <2>2. Len(rest[u]) >= 1 /\ 1 \in DOMAIN rest[u]
    BY <2>1
  <2>3. rest[u][1] \in ToSet(rest[u])
    BY <2>2 DEF ToSet
  <2> QED BY <2>1, <2>2, <2>3 DEF ListInv, ListTypes
<1> DEFINE V == {rest[u][1] : u \in Heads}
<1>2. V \in SUBSET (1..time) /\ V # {} /\ time \in Nat
  <2>1. V \in SUBSET (1..time) /\ V # {}
    BY <1>1
  <2>2. time \in Nat
    BY ListingAssumption DEF ListInv, ListTypes
  <2> QED BY <2>1, <2>2
<1>3. V \in SUBSET Int /\ IsFiniteSet(V)
  <2>1. IsFiniteSet(1..time) /\ 1..time \in SUBSET Int
    BY <1>2, FS_Interval
  <2> HIDE DEF V
  <2>2. IsFiniteSet(V)
    BY <1>2, <2>1, FS_Subset
  <2> QED BY <1>2, <2>1, <2>2
<1>4. PICK o \in V : \A p \in V : p <= o
  <2> HIDE DEF V
  <2> QED BY <1>2, <1>3, Greatest
<1>5. PICK s \in Heads : o = rest[s][1]
  OBVIOUS
<1>6. \A u \in Heads : rest[u][1] <= rest[s][1]
  BY <1>4, <1>5
<1>7. Newest \in Heads /\ \A u \in Heads : rest[u][1] <= rest[Newest][1]
  BY <1>6 DEF Newest
<1> QED BY <1>1, <1>7

(* What a sequence is made of: its head and its tail. *)
LEMMA TailOf ==
  ASSUME NEW S \in SUBSET Int, NEW s \in Seq(S), NEW t, t = Tail(s), s # <<>>
  PROVE  /\ t \in Seq(S) /\ Len(t) = Len(s) - 1 /\ s[1] \in S
         /\ \A x : x \in ToSet(s) <=> x = s[1] \/ x \in ToSet(t)
         /\ Descending(s) => Descending(t) /\ \A x \in ToSet(t) : s[1] > x
<1>1. /\ t \in Seq(S) /\ Len(s) \in Nat /\ Len(s) >= 1 /\ Len(t) = Len(s) - 1
      /\ \A i \in 1..Len(t) : t[i] = s[i + 1]
      /\ DOMAIN s = 1..Len(s) /\ DOMAIN t = 1..Len(t) /\ s[1] \in S
  BY HeadTailProperties
<1>2. ASSUME Descending(s) PROVE Descending(t)
  <2> SUFFICES ASSUME NEW i \in 1..Len(t), NEW j \in 1..Len(t), i < j PROVE t[i] > t[j]
    BY <1>1 DEF Descending
  <2>1. Len(t) \in Int /\ Len(s) = Len(t) + 1
    BY <1>1
  <2>2. i + 1 \in 1..Len(s) /\ j + 1 \in 1..Len(s) /\ i + 1 < j + 1
    BY <2>1
  <2>3. s[i + 1] > s[j + 1]
    BY <1>1, <1>2, <2>2 DEF Descending
  <2> QED BY <1>1, <2>3
<1>3. ASSUME NEW x \in ToSet(s), x # s[1] PROVE x \in ToSet(t)
  <2>1. PICK i \in 1..Len(s) : x = s[i]
    BY <1>1, <1>3 DEF ToSet
  <2>2. i # 1
    BY <1>3, <2>1
  <2>3. Len(t) \in Int /\ Len(s) = Len(t) + 1
    BY <1>1
  <2>4. i - 1 \in 1..Len(t) /\ i = (i - 1) + 1
    BY <2>2, <2>3
  <2>5. t[i - 1] = x
    BY <1>1, <2>1, <2>4
  <2> QED BY <1>1, <2>4, <2>5 DEF ToSet
<1>4. ASSUME NEW x \in ToSet(t) PROVE x \in ToSet(s) /\ (Descending(s) => s[1] > x)
  <2>1. PICK i \in 1..Len(t) : x = t[i]
    BY <1>1, <1>4 DEF ToSet
  <2>2. i + 1 \in 1..Len(s) /\ 1 \in 1..Len(s) /\ 1 < i + 1 /\ x = s[i + 1]
    BY <1>1, <2>1
  <2> QED BY <1>1, <2>2 DEF ToSet, Descending
<1>5. s[1] \in ToSet(s)
  BY <1>1 DEF ToSet
<1> QED BY <1>1, <1>2, <1>3, <1>4, <1>5

(* What is listed newest first, and is newer than what of each source is left, is the      *)
(* newest of all, which is what the third part of ListsNewest says.                        *)
LEMMA ListedIsNewest ==
  ASSUME NEW t \in Nat, NEW A \in SUBSET (1..t), NEW s \in Seq(Int), Descending(s),
         ToSet(s) \subseteq A, \A x \in ToSet(s), o \in A \ ToSet(s) : x > o
  PROVE  /\ Cardinality(A) \in Nat /\ Len(s) \in Nat /\ Len(s) <= Cardinality(A)
         /\ s = SubSeq(NewestFirst(A), 1, Len(s))
         /\ A \subseteq ToSet(s) => Len(s) = Cardinality(A)
<1>1. IsFiniteSet(1..t)
  BY FS_Interval
<1>2. A \in SUBSET Int /\ IsFiniteSet(A)
  <2>1. IsFiniteSet(A)
    BY <1>1, FS_Subset
  <2> QED BY <2>1
<1>3. s \in Seq(A)
  <2>1. Len(s) \in Nat /\ DOMAIN s = 1..Len(s) /\ s \in [1..Len(s) -> Int]
    OBVIOUS
  <2>2. \A i \in 1..Len(s) : s[i] \in A
    BY <2>1 DEF ToSet
  <2>3. s \in [1..Len(s) -> A]
    BY <2>1, <2>2
  <2> QED BY <2>1, <2>3
<1> QED BY <1>2, <1>3, ListedFirst

(* What a step keeps that lists the newest object of all that is left. *)
LEMMA OneMoreListed ==
  ASSUME ListInv, NEW s \in Heads, s = Newest, listPc = "yield",
         listPc' \in {"page", "done"}, listed' = Append(listed, rest[s][1]),
         rest' = [rest EXCEPT ![s] = Tail(rest[s])],
         UNCHANGED <<serverVars, limit, merged, until, nextPage, more, total, atStart, created, deleted>>
  PROVE  /\ ListTypes' /\ Apart' /\ InOrder' /\ PagesInv' /\ Present' /\ Kept' /\ OnePage'
         /\ listed' \in Seq(Int) /\ Len(listed) \in Nat /\ Len(listed') = Len(listed) + 1
         /\ Read' = Read /\ (\A u \in Read : Started(u)) /\ (Steady' <=> Steady)
         /\ Steady /\ ~deleted => \A u \in Read : atStart[u] \subseteq ToSet(listed') \cup Left(u)'
<1> USE DEF ListInv, serverVars
<1> DEFINE x == rest[s][1]
<1>1. /\ s \in Sources /\ s \in Read /\ Read \subseteq Sources /\ Read' = Read
      /\ rest[s] \in Seq(1..MaxTime) /\ rest[s] # <<>> /\ time \in Nat /\ time <= MaxTime
  BY ReadSources, ListingAssumption DEF Heads, ListTypes, Read
<1>2. /\ rest'[s] \in Seq(1..MaxTime) /\ x \in 1..MaxTime /\ Len(rest'[s]) = Len(rest[s]) - 1
      /\ \A y : y \in ToSet(rest[s]) <=> y = x \/ y \in ToSet(rest'[s])
      /\ Steady => Descending(rest'[s]) /\ \A y \in ToSet(rest'[s]) : x > y
  <2>1. /\ rest'[s] = Tail(rest[s]) /\ 1..MaxTime \in SUBSET Int
        /\ Steady => Descending(rest[s])
    BY <1>1 DEF ListTypes, InOrder
  <2> QED BY <1>1, <2>1, TailOf
<1>3. \A u \in Sources : u # s => rest'[u] = rest[u]
  BY <1>1 DEF ListTypes
<1>4. /\ listed' \in Seq(1..MaxTime) /\ HasOneMore(listed', listed, x)
      /\ listed \in Seq(1..MaxTime)
  BY <1>2, OneMoreIn DEF ListTypes
<1> HIDE DEF x
<1>5. /\ Len(listed) \in Nat /\ Len(listed') = Len(listed) + 1
      /\ DOMAIN listed = 1..Len(listed) /\ DOMAIN listed' = 1..(Len(listed) + 1)
      /\ listed'[Len(listed) + 1] = x /\ \A i \in 1..Len(listed) : listed'[i] = listed[i]
      /\ ToSet(listed') = ToSet(listed) \cup {x}
  BY <1>4 DEF HasOneMore
<1>6. \A u \in Sources : /\ ToCome(u)' = ToCome(u) /\ (Started(u)' <=> Started(u))
                         /\ Matching(u, until[u])' = Matching(u, until[u])
  <2>1. PageSize' = PageSize
    BY DEF PageSize, Size
  <2> QED BY <2>1 DEF ToCome, Started, Matching
<1>7. PageSize' = PageSize /\ (Steady' <=> Steady)
  BY DEF PageSize, Size, Steady
<1>8. \A u \in Sources : /\ Left(u)' \subseteq Left(u) /\ (u # s => Left(u)' = Left(u))
                         /\ Left(s) = Left(s)' \cup {x}
  BY <1>1, <1>2, <1>3, <1>6 DEF Left
<1>9. \A u \in Sources : ToSet(rest'[u]) \subseteq ToSet(rest[u])
  BY <1>2, <1>3
<1>10. x \in Left(s) /\ (Steady => \A y \in ToSet(listed) : y > x)
  BY <1>1, <1>8 DEF InOrder
<1>11. ASSUME Steady, NEW u \in Read, NEW o \in Left(u)' PROVE x > o
  <2>1. CASE u = s
    BY <1>1, <1>2, <1>6, <1>11, <2>1 DEF Left, InOrder
  <2>2. CASE u # s /\ rest[u] # <<>>
    <3>1. u \in Heads /\ u \in Sources
      BY <1>1, <2>2 DEF Heads
    <3> DEFINE y == rest[u][1]
    <3>2. y <= x /\ y \in ToSet(rest[u])
      BY <3>1, NewestHead DEF x
    <3>3. y # x
      BY <1>1, <1>2, <2>2, <3>1, <3>2 DEF Apart
    <3>4. /\ rest[u] \in Seq(1..MaxTime) /\ Descending(rest[u]) /\ rest[u] # <<>>
          /\ 1..MaxTime \in SUBSET Int
      BY <1>1, <1>11, <2>2, <3>1 DEF ListTypes, InOrder
    <3>5. /\ y \in 1..MaxTime
          /\ \A z : z \in ToSet(rest[u]) <=> z = y \/ z \in ToSet(Tail(rest[u]))
          /\ \A z \in ToSet(Tail(rest[u])) : y > z /\ z \in ToSet(rest[u])
      BY <3>4, TailOf
    <3> HIDE DEF y
    <3>6. o \in Left(u)
      BY <1>8, <1>11, <3>1
    <3>7. o = y \/ y > o
      BY <1>11, <3>1, <3>2, <3>5, <3>6 DEF Left, InOrder
    <3>8. o \in Int
      <4>1. o \in ToSet(rest[u]) \/ o \in objects[u]
        BY <3>6 DEF Left, ToCome, Matching
      <4> QED BY <3>1, <4>1 DEF ListTypes
    <3> QED BY <1>2, <3>2, <3>3, <3>5, <3>7, <3>8
  <2>3. CASE u # s /\ rest[u] = <<>>
    <3>1. ~more[u]
      BY <2>3 DEF PagesInv, Advanced
    <3>2. ToCome(u) = {} /\ ToSet(rest[u]) = {}
      BY <1>1, <1>11, <2>3, <3>1 DEF PagesInv, ToSet
    <3>3. Left(u) = {}
      BY <3>2 DEF Left
    <3> QED BY <1>1, <1>8, <1>11, <3>3
  <2> QED BY <2>1, <2>2, <2>3
<1>12. \A u \in Read : Started(u)
  BY <1>1 DEF PagesInv, Advanced
<1>13. ListTypes'
  <2>1. rest' \in [Sources -> Seq(1..MaxTime)]
    BY <1>1, <1>2 DEF ListTypes
  <2>2. \A u \in Sources : ToSet(rest'[u]) \subseteq 1..time
    BY <1>9 DEF ListTypes
  <2> QED BY <1>4, <2>1, <2>2 DEF ListTypes
<1>14. Apart'
  BY <1>9 DEF Apart
<1>15. ASSUME Steady PROVE Descending(listed')
  <2>1. \A i \in 1..Len(listed) : listed[i] > x
    BY <1>5, <1>10, <1>15 DEF ToSet
  <2> SUFFICES ASSUME NEW i \in 1..(Len(listed) + 1), NEW j \in 1..(Len(listed) + 1), i < j
               PROVE  listed'[i] > listed'[j]
    BY <1>5 DEF Descending
  <2>2. CASE j = Len(listed) + 1
    <3>1. i \in 1..Len(listed)
      BY <1>5, <2>2
    <3> QED BY <1>5, <2>1, <2>2, <3>1
  <2>3. CASE j # Len(listed) + 1
    <3> DEFINE n == Len(listed)
    <3>1. n \in Nat
      BY <1>5
    <3> HIDE DEF n
    <3>2. i \in 1..(n + 1) /\ j \in 1..(n + 1) /\ j # n + 1
      BY <2>3 DEF n
    <3>3. i \in 1..n /\ j \in 1..n
      BY <3>1, <3>2
    <3>4. i \in 1..Len(listed) /\ j \in 1..Len(listed)
      BY <3>3 DEF n
    <3> QED BY <1>5, <1>15, <3>4 DEF InOrder, Descending
  <2> QED BY <2>2, <2>3
<1>16. InOrder'
  <2> SUFFICES ASSUME Steady PROVE InOrder'
    BY <1>7 DEF InOrder
  <2>1. ASSUME NEW u \in Sources
        PROVE  Descending(rest[u])' /\ \A y \in ToSet(rest[u])', o \in ToCome(u)' : y > o
    BY <1>2, <1>3, <1>6, <1>9 DEF InOrder
  <2>2. ASSUME NEW y \in ToSet(listed'), NEW u \in Read, NEW o \in Left(u)' PROVE y > o
    <3>1. CASE y = x
      BY <1>11, <3>1
    <3>2. CASE y # x
      BY <1>1, <1>5, <1>8, <2>2, <3>2 DEF InOrder
    <3> QED BY <3>1, <3>2
  <2> QED BY <1>1, <1>15, <2>1, <2>2 DEF InOrder
<1>17. PagesInv'
  <2>1. \A u \in Sources : ~Started(u) => rest'[u] = <<>>
    BY <1>1, <1>3, <1>12 DEF PagesInv
  <2> QED BY <1>1, <1>6, <1>12, <1>7, <2>1 DEF PagesInv
<1>18. Present'
  <2> SUFFICES ASSUME Steady, ~deleted
               PROVE  /\ \A u \in Sources :
                           /\ Left(u)' \subseteq atStart[u]
                           /\ Started(u) => atStart[u] = Matching(u, until[u])
                      /\ \A u \in Read : atStart[u] \subseteq ToSet(listed') \cup Left(u)'
                      /\ ToSet(listed') \subseteq UNION {atStart[u] : u \in Read}
    BY <1>1, <1>6, <1>7 DEF Present
  <2>1. \A u \in Sources : Left(u)' \subseteq atStart[u]
    BY <1>8 DEF Present
  <2>2. \A u \in Read : atStart[u] \subseteq ToSet(listed') \cup Left(u)'
    BY <1>1, <1>5, <1>8 DEF Present
  <2>3. x \in atStart[s]
    BY <1>1, <1>10 DEF Present
  <2>4. ToSet(listed') \subseteq UNION {atStart[u] : u \in Read}
    BY <1>1, <1>5, <2>3 DEF Present
  <2> QED BY <2>1, <2>2, <2>4 DEF Present
<1>19. listed' \in Seq(Int)
  <2>1. 1..MaxTime \subseteq Int
    OBVIOUS
  <2> QED BY <1>4, <2>1, SeqMonotonic
<1>20. Steady /\ ~deleted => \A u \in Read : atStart[u] \subseteq ToSet(listed') \cup Left(u)'
  BY <1>1, <1>18, <1>7 DEF Present
<1>21. Kept'
  <2>1. \A u \in Sources : ToSet(listed) \cup ToSet(rest[u]) \subseteq ToSet(listed') \cup ToSet(rest'[u])
    BY <1>2, <1>3, <1>5
  <2>2. newestFirst' = newestFirst /\ UNCHANGED <<more, nextPage, atStart, deleted>>
    OBVIOUS
  <2> SUFFICES ASSUME ~deleted, NEW u \in Read, Started(u), NEW o \in atStart[u]
               PROVE  /\ o \in Matching(u, until[u])
                      /\ ~more[u] \/ PlaceIn(Matching(u, until[u]), o) < nextPage[u] * PageSize =>
                           o \in ToSet(listed') \cup ToSet(rest'[u])
    BY <1>1, <1>6, <1>7, <2>2 DEF Kept, PlaceIn
  <2> QED BY <1>1, <2>1 DEF Kept
<1>22. OnePage'
  <2> SUFFICES ASSUME ~merged, limit # Unlimited, Started(1), total <= limit
               PROVE  ~more[1] /\ Len(listed') + Len(rest'[1]) = total
    BY DEF OnePage, Started
  <2>1. s = 1 /\ ~more[1] /\ Len(listed) + Len(rest[1]) = total
    BY <1>1 DEF Read, OnePage
  <2>2. Len(rest[1]) \in Nat
    BY <1>1, <2>1
  <2>3. Len(rest'[1]) = Len(rest[1]) - 1
    BY <1>2, <2>1
  <2>4. Len(listed) \in Nat /\ Len(listed') = Len(listed) + 1
    BY <1>5
  <2>5. \A a, b \in Nat : (a + 1) + (b - 1) = a + b
    OBVIOUS
  <2>6. Len(listed') + Len(rest'[1]) = (Len(listed) + 1) + (Len(rest[1]) - 1)
    BY <2>3, <2>4
  <2> QED BY <2>1, <2>2, <2>4, <2>5, <2>6
<1> QED BY <1>1, <1>5, <1>12, <1>13, <1>14, <1>16, <1>17, <1>18, <1>19, <1>20, <1>7, <1>21, <1>22

(* The objects that are there are as many as a number. *)
LEMMA HowMany ==
  ASSUME ListTypes, ListTypes', UNCHANGED <<atStart, time>>
  PROVE  /\ time \in Nat
         /\ \A R \in SUBSET Sources : UNION {atStart[u] : u \in R} \in SUBSET (1..time)
BY ListingAssumption DEF ListTypes

(* Listing an object keeps the invariant, also where it is the last for the limit. *)
LEMMA YieldNext ==
  ASSUME ListInv, Yield
  PROVE  ListInv'
<1>1. /\ listPc = "yield" /\ Heads # {} /\ Newest \in Heads
      /\ listPc' \in {"page", "done"} /\ listed' = Append(listed, rest[Newest][1])
      /\ rest' = [rest EXCEPT ![Newest] = Tail(rest[Newest])]
      /\ UNCHANGED <<serverVars, limit, merged, until, nextPage, more, total, atStart, created, deleted>>
  BY NewestHead DEF Yield, Complete, EndList
<1>2. /\ ListTypes' /\ Apart' /\ InOrder' /\ PagesInv' /\ Present' /\ Kept' /\ OnePage'
      /\ listed' \in Seq(Int) /\ Len(listed) \in Nat /\ Len(listed') = Len(listed) + 1
      /\ Read' = Read /\ (\A u \in Read : Started(u)) /\ (Steady' <=> Steady)
      /\ Steady /\ ~deleted => \A u \in Read : atStart[u] \subseteq ToSet(listed') \cup Left(u)'
  BY <1>1, OneMoreListed
<1> DEFINE m == Len(listed')
           A == UNION {atStart[u] : u \in Read}
<1>3. m \in Nat /\ m = Len(listed) + 1 /\ limit \in Nat /\ (limit # Unlimited => m <= limit)
  BY <1>1, <1>2 DEF ListInv, ListTypes, Counted
<1>4. \/ /\ First(m) /\ listPc' = "done" /\ array' = "closed"
         /\ outcome' = IF CutShort(m) THEN "cutShort" ELSE "complete"
      \/ /\ listPc' = "done" /\ array' \in {"none", "open"} /\ outcome' = "error"
      \/ /\ ~First(m) /\ listPc' = "page" /\ array' = "open" /\ outcome' = outcome
  BY DEF Yield, Complete, EndList
<1>5. outcome = "none"
  BY <1>1 DEF ListInv, Counted
<1>6. Counted'
  <2>1. listPc' # "done" =>
          outcome' = "none" /\ array' = "open" /\ (limit = Unlimited \/ m < limit)
    BY <1>3, <1>4, <1>5 DEF First
  <2> QED BY <1>1, <2>1 DEF ListInv, Counted, Started
<1>7. ASSUME NEW n, n = outcome', n \in {"complete", "cutShort"}
      PROVE  /\ array' = "closed" /\ limit # Unlimited /\ m = limit
             /\ n = "complete" => total # Unknown /\ ~(total > limit)
  BY <1>3, <1>4, <1>5, <1>7 DEF First, CutShort
<1>8. array' = "closed" => outcome' \in {"complete", "cutShort"}
  BY <1>4
<1>9. /\ DOMAIN listed' = 1..m
      /\ Steady => Descending(listed')
                   /\ \A x \in ToSet(listed'), u \in Read : \A o \in Left(u)' : x > o
  BY <1>2 DEF InOrder
<1>10. Steady => \A i \in 1..m - 1 : listed'[i] > listed'[i + 1]
  <2> SUFFICES ASSUME Steady, NEW i \in 1..m - 1 PROVE listed'[i] > listed'[i + 1]
    OBVIOUS
  <2>1. i \in 1..m /\ i + 1 \in 1..m /\ i < i + 1
    BY <1>3
  <2> QED BY <1>9, <2>1 DEF Descending
<1>11. ASSUME Steady, outcome' \in {"complete", "cutShort"}, ~deleted
       PROVE  /\ listed' = SubSeq(NewestFirst(A), 1, Len(listed'))
              /\ Len(listed') = IF limit # Unlimited THEN Least(limit, Cardinality(A)) ELSE Cardinality(A)
              /\ outcome' = "complete" => Len(listed') = Cardinality(A)
  <2>1. /\ time \in Nat /\ A \in SUBSET (1..time)
    <3>1. ListTypes /\ Read \in SUBSET Sources /\ UNCHANGED <<atStart, time>>
      BY <1>1, ReadSources DEF ListInv, serverVars
    <3> QED BY <1>2, <3>1, HowMany
  <2>2. ToSet(listed') \subseteq A
    BY <1>1, <1>2, <1>11 DEF Present
  <2>3. ASSUME NEW x \in ToSet(listed'), NEW o \in A \ ToSet(listed') PROVE x > o
    <3>1. PICK u \in Read : o \in atStart[u]
      OBVIOUS
    <3> QED BY <1>2, <1>9, <1>11, <3>1
  <2> HIDE DEF A
  <2>4. /\ Cardinality(A) \in Nat /\ m <= Cardinality(A)
        /\ listed' = SubSeq(NewestFirst(A), 1, m)
    BY <1>2, <1>9, <1>11, <2>1, <2>2, <2>3, ListedIsNewest
  <2>5. limit # Unlimited /\ m = limit
    BY <1>7, <1>11
  <2>6. Least(limit, Cardinality(A)) = m
    BY <1>3, <2>4, <2>5 DEF Least
  <2>7. ASSUME outcome' = "complete" PROVE m = Cardinality(A)
    <3>1. total # Unknown /\ ~(total > limit)
      BY <1>7, <2>7
    <3>2. ~merged /\ total = Cardinality(atStart[1])
      BY <3>1 DEF ListInv, Counted
    <3>3. A = atStart[1]
      BY <3>2 DEF A, Read
    <3> QED BY <1>3, <2>4, <2>5, <3>1, <3>2, <3>3
  <2> QED BY <2>4, <2>5, <2>6, <2>7
<1>12. ASSUME outcome' = "complete", ~deleted, NEW u \in Read PROVE atStart[u] \subseteq ToSet(listed')
  <2>1. limit # Unlimited /\ m = limit /\ total # Unknown /\ ~(total > limit)
    BY <1>7, <1>12
  <2>2. ~merged /\ u = 1 /\ Started(1) /\ total = Cardinality(atStart[1]) /\ total \in Int
    BY <2>1 DEF ListInv, Counted, Read, ListTypes
  <2>3. ~more[1] /\ m + Len(rest'[1]) = total
    <3>1. total <= limit
      BY <1>3, <2>1, <2>2
    <3>2. UNCHANGED <<merged, limit, nextPage, more, total>>
      BY <1>1
    <3> QED BY <1>2, <2>1, <2>2, <3>1, <3>2 DEF OnePage, Started
  <2>4. 1 \in Sources /\ rest'[1] \in Seq(1..MaxTime)
    BY <1>2, <2>2, ReadSources DEF ListInv, ListTypes
  <2>5. ToSet(rest'[1]) = {}
    <3>1. Len(rest'[1]) \in Nat
      BY <2>4
    <3> DEFINE k == Len(rest'[1])
    <3> HIDE DEF k, m
    <3>2. m \in Nat /\ m = limit /\ total \in Int /\ ~(total > limit) /\ m + k = total /\ k \in Nat
      BY <1>3, <2>1, <2>2, <2>3, <3>1 DEF k
    <3>3. k = 0
      BY <3>2
    <3>4. Len(rest'[1]) = 0
      BY <3>3 DEF k
    <3>5. rest'[1] = <<>>
      BY <2>4, <3>4
    <3> QED BY <3>5 DEF ToSet
  <2>6. \A o \in atStart[1] : o \in ToSet(listed') \cup ToSet(rest'[1])
    <3>1. ~deleted' /\ 1 \in Read' /\ Started(1)' /\ ~more'[1] /\ atStart' = atStart
      BY <1>1, <1>2, <1>12, <2>2, <2>3 DEF Started
    <3> QED BY <1>2, <3>1 DEF Kept
  <2> QED BY <2>2, <2>5, <2>6
<1>13. ListsNewest'
  <2> HIDE DEF A
  <2>1. A = (UNION {atStart[u] : u \in Read})'
    BY <1>1, <1>2 DEF A
  <2>2. (array' = "closed") <=> outcome' \in {"complete", "cutShort"}
    BY <1>7, <1>8
  <2> QED BY <1>1, <1>2, <1>10, <1>11, <1>12, <2>1, <2>2 DEF ListsNewest
<1> QED BY <1>2, <1>6, <1>13 DEF ListInv

(* With nothing left everything is listed. *)
LEMMA ListEndsNext ==
  ASSUME ListInv, ListEnds
  PROVE  ListInv'
<1>1. /\ listPc = "yield" /\ Heads = {} /\ listPc' = "done"
      /\ UNCHANGED <<serverVars, limit, merged, until, nextPage, rest, more, total, listed, atStart,
                     created, deleted>>
      /\ \/ outcome' = "complete" /\ array' = "closed"
         \/ outcome' = "error" /\ array' \in {"none", "open"}
  BY DEF ListEnds, Complete, EndList
<1>2. /\ ListTypes' /\ Apart' /\ InOrder' /\ PagesInv' /\ Present' /\ Kept' /\ OnePage'
      /\ Read' = Read /\ (Steady' <=> Steady)
  BY <1>1, SameListing DEF Read, Steady, serverVars
<1>3. Counted'
  BY <1>1 DEF ListInv, Counted, Started
<1> DEFINE m == Len(listed)
           A == UNION {atStart[u] : u \in Read}
<1>4. m \in Nat /\ DOMAIN listed = 1..m /\ listed \in Seq(Int) /\ limit \in Nat
      /\ (limit = Unlimited \/ m < limit)
  <2>1. listed \in Seq(1..MaxTime) /\ 1..MaxTime \subseteq Int
    BY DEF ListInv, ListTypes
  <2>2. listed \in Seq(Int)
    BY <2>1, SeqMonotonic
  <2> QED BY <1>1, <2>1, <2>2 DEF ListInv, ListTypes, Counted
<1>5. Steady => Descending(listed)
  BY DEF ListInv, InOrder
<1>6. Steady => \A i \in 1..m - 1 : listed[i] > listed[i + 1]
  <2> SUFFICES ASSUME Steady, NEW i \in 1..m - 1 PROVE listed[i] > listed[i + 1]
    OBVIOUS
  <2>1. i \in 1..m /\ i + 1 \in 1..m /\ i < i + 1
    BY <1>4
  <2> QED BY <1>4, <1>5, <2>1 DEF Descending
<1>7. \A u \in Read : /\ u \in Sources /\ (Steady => Left(u) = {})
                      /\ rest[u] = <<>> /\ ~more[u] /\ Started(u)
  <2> SUFFICES ASSUME NEW u \in Read
               PROVE  /\ u \in Sources /\ (Steady => Left(u) = {})
                      /\ rest[u] = <<>> /\ ~more[u] /\ Started(u)
    OBVIOUS
  <2>1. u \in Sources /\ rest[u] = <<>> /\ Advanced(u)
    BY <1>1, ReadSources DEF ListInv, PagesInv, Heads
  <2>2. Steady => ToCome(u) = {}
    BY <2>1 DEF ListInv, PagesInv, Advanced
  <2>3. ~more[u] /\ Started(u)
    BY <2>1 DEF ListInv, PagesInv, Advanced
  <2> QED BY <2>1, <2>2, <2>3 DEF Left, ToSet
<1>8. ASSUME ~deleted, NEW u \in Read PROVE atStart[u] \subseteq ToSet(listed)
  <2>1. rest[u] = <<>> /\ ~more[u] /\ Started(u)
    BY <1>7
  <2>2. ToSet(rest[u]) = {}
    BY <2>1 DEF ToSet
  <2> QED BY <1>8, <2>1, <2>2 DEF ListInv, Kept
<1>9. ASSUME Steady, ~deleted
      PROVE  /\ listed = SubSeq(NewestFirst(A), 1, m) /\ m = Cardinality(A)
             /\ m = IF limit # Unlimited THEN Least(limit, Cardinality(A)) ELSE Cardinality(A)
  <2>1. time \in Nat /\ A \in SUBSET (1..time)
    <3>1. ListTypes /\ Read \in SUBSET Sources /\ UNCHANGED <<atStart, time>>
      BY <1>1, ReadSources DEF ListInv, serverVars
    <3> QED BY <1>2, <3>1, HowMany
  <2>2. ToSet(listed) = A
    BY <1>7, <1>9 DEF ListInv, Present
  <2> HIDE DEF A
  <2>3. /\ Cardinality(A) \in Nat /\ listed = SubSeq(NewestFirst(A), 1, m) /\ m = Cardinality(A)
    BY <1>4, <1>5, <1>9, <2>1, <2>2, ListedIsNewest
  <2> QED BY <1>4, <2>3 DEF Least
<1>10. ListsNewest'
  <2> HIDE DEF A, m
  <2>1. A = (UNION {atStart[u] : u \in Read})' /\ m = Len(listed')
    BY <1>1, <1>2 DEF A, m
  <2>2. (array' = "closed") <=> outcome' \in {"complete", "cutShort"}
    BY <1>1
  <2> QED BY <1>1, <1>2, <1>6, <1>9, <1>8, <2>1, <2>2 DEF ListsNewest
<1> QED BY <1>2, <1>3, <1>10 DEF ListInv

(* Every step of a listing keeps the invariant. *)
LEMMA ListNext == ListInv /\ (ListStep \/ UNCHANGED listVars) => ListInv'
<1> SUFFICES ASSUME ListInv, ListStep \/ UNCHANGED listVars PROVE ListInv'
  OBVIOUS
<1>1. CASE \E s \in Sources : Create(s) \/ Delete(s)
  BY <1>1, ServerNext
<1>2. CASE Start \/ HeadsRead
  <2>1. /\ ListTypes' /\ Apart' /\ InOrder' /\ PagesInv' /\ Present' /\ Kept' /\ OnePage'
    BY <1>2, SameListing DEF Start, HeadsRead
  <2>2. /\ UNCHANGED <<array, outcome, listed, total, limit, merged, nextPage, atStart, deleted>>
        /\ listPc # "done" /\ Read' = Read /\ (Steady' <=> Steady)
    BY <1>2 DEF Start, HeadsRead, Read, Steady, serverVars
  <2>3. Counted'
    BY <2>2 DEF ListInv, Counted, Started
  <2>4. ListsNewest'
    BY <2>2 DEF ListInv, ListsNewest
  <2> QED BY <2>1, <2>3, <2>4 DEF ListInv
<1>3. CASE ReadHead
  BY <1>3, ReadHeadNext
<1>4. CASE FailPage \/ FailYield
  BY <1>4, ListEndsInError DEF FailPage, FailYield
<1>5. CASE Yield
  BY <1>5, YieldNext
<1>6. CASE ListEnds
  BY <1>6, ListEndsNext
<1>7. CASE UNCHANGED listVars
  <2>1. /\ ListTypes' /\ Apart' /\ InOrder' /\ PagesInv' /\ Present' /\ Kept' /\ OnePage'
        /\ Read' = Read /\ (Steady' <=> Steady)
    <3>1. listPc = "yield" => \A s \in Read : Advanced(s)
      BY DEF ListInv, PagesInv
    <3>2. listPc \in {"idle", "heads", "yield", "page", "done"}
      BY DEF ListInv, ListTypes
    <3> QED BY <1>7, <3>1, <3>2, SameListing DEF listVars, serverVars, Read, Steady
  <2>2. Counted'
    BY <1>7 DEF listVars, ListInv, Counted, Started
  <2>3. ListsNewest'
    BY <1>7, <2>1 DEF listVars, ListInv, ListsNewest
  <2> QED BY <2>1, <2>2, <2>3 DEF ListInv
<1> QED BY <1>1, <1>2, <1>3, <1>4, <1>5, <1>6, <1>7 DEF ListStep

(* What is listed is newer than what is to come, at any time.                             *)
LEMMA ListAlways == Spec => []ListInv
<1>1. Init => ListInv
  <2> SUFFICES ASSUME ListInit PROVE ListInv
    BY DEF Init, RequestsInit
  <2>1. /\ time \in 0..MaxTime /\ objects \in [Sources -> SUBSET (1..time)]
        /\ time \in Nat /\ 1..time \subseteq 1..MaxTime
    BY ListingAssumption DEF ListInit
  <2>2. ToSet(<<>>) = {} /\ Len(<<>>) = 0 /\ DOMAIN <<>> = {}
    BY DEF ToSet
  <2>3. \A s \in Sources : ~Started(s) /\ ToCome(s) = {} /\ Left(s) = {}
    BY <2>2 DEF ListInit, Started, ToCome, Left
  <2>4. ListTypes
    BY <2>1, <2>2, ListingAssumption DEF ListInit, ListTypes, Unknown
  <2>5. Read \subseteq Sources
    BY <2>4, ReadSources
  <2>6. Apart
    BY <2>2 DEF ListInit, Apart
  <2>7. InOrder
    BY <2>2, <2>3, <2>5 DEF ListInit, InOrder, Descending
  <2>8. PagesInv
    BY <2>3 DEF ListInit, PagesInv
  <2>9. Present
    BY <2>2, <2>3, <2>5 DEF ListInit, Present
  <2>10. Kept /\ OnePage
    BY <2>3, <2>5, ListingAssumption DEF ListInit, Kept, OnePage
  <2>11. Counted
    <3>1. limit = Unlimited \/ Len(listed) < limit
      BY <2>2, ListingAssumption DEF ListInit, Unlimited
    <3>2. ~merged => ~Started(1)
      BY <2>3 DEF ListInit
    <3> QED BY <3>1, <3>2 DEF ListInit, Counted
  <2>12. ListsNewest
    BY <2>2 DEF ListInit, ListsNewest
  <2> QED BY <2>4, <2>6, <2>7, <2>8, <2>9, <2>11, <2>12, <2>10 DEF ListInv
<1>2. ListInv /\ [Next]_vars => ListInv'
  BY PartSteps, ListNext
<1> QED BY <1>1, <1>2, PTL DEF Spec

(* A list whose order is newest first, and whose endpoint heeds until or gets no object    *)
(* meanwhile, has no object twice and is in order, however many building blocks are merged *)
(* and whatever is deleted; where nothing is deleted it is the newest of all objects that  *)
(* were there, as many as the limit allows.  No complete list of any order, heeding until  *)
(* or not, leaves out an object that was there at first and was not deleted.               *)
THEOREM NewestAreListed == Spec => []ListsNewest
<1>1. ListInv => ListsNewest
  BY DEF ListInv
<1> QED BY <1>1, ListAlways, PTL
-----------------------------------------------------------------------------
(* The types of HttpCall. *)

(* A power of two is a positive number: it counts the subsets of a set. *)
LEMMA Powers == \A n \in Nat : 2 ^ n \in Nat /\ 2 ^ n > 0
<1> SUFFICES ASSUME NEW n \in Nat PROVE 2 ^ n \in Nat /\ 2 ^ n > 0
  OBVIOUS
<1>1. IsFiniteSet(1..n) /\ Cardinality(1..n) = n
  BY FS_Interval
<1>2. IsFiniteSet(SUBSET (1..n)) /\ Cardinality(SUBSET (1..n)) = 2 ^ n
  BY <1>1, FS_SUBSET
<1>3. SUBSET (1..n) # {}
  OBVIOUS
<1>4. 2 ^ n \in Nat /\ 2 ^ n # 0
  BY <1>2, <1>3, FS_CardinalityType, FS_EmptySet
<1> QED BY <1>4

(* What a call has to do, and how often meshStack has run it. *)
CallInv ==
  /\ CallTypeOK
  /\ ran <= IF callPc \in {"idle", "sent"} THEN attempt - 1 ELSE attempt
  /\ callPc = "waiting" => attempt <= MaxRetries

(* A wait is within what is allowed for one, whatever meshStack asks for and however that *)
(* wraps.                                                                                 *)
LEMMA WaitsWithin ==
  ASSUME NEW a \in Answer, NEW n \in 1..MaxRetries
  PROVE  Backoff(a, n) \in 0..MaxRetryAfterWait
<1>1. Exponential(n) \in 0..MaxRetryAfterWait
  <2> DEFINE p == 2 ^ (n - 1)
  <2>1. p \in Nat
    BY Powers, HttpAssumption
  <2> HIDE DEF p
  <2>2. p * MinWait \in Nat
    BY <2>1, HttpAssumption
  <2>3. Exponential(n) = IF p * MinWait > MaxWait THEN MaxWait ELSE p * MinWait
    BY HttpAssumption DEF Exponential, p
  <2>4. CASE p * MinWait > MaxWait
    BY <2>2, <2>3, <2>4, HttpAssumption
  <2>5. CASE ~(p * MinWait > MaxWait)
    BY <2>2, <2>3, <2>5, HttpAssumption
  <2> QED BY <2>4, <2>5
<1>2. CASE ~IsError(a) /\ a.status \in {429, 503}
  <2>1. a.retryAfter \in {NoRetryAfter} \cup {<<s>> : s \in RetryAfter}
    BY <1>2 DEF Answer, IsError
  <2>2. AskedWait(a) \in Int
    <3>1. CASE a.retryAfter = NoRetryAfter
      BY <3>1 DEF AskedWait
    <3>2. CASE a.retryAfter # NoRetryAfter
      <4>1. PICK s \in RetryAfter : a.retryAfter = <<s>>
        BY <2>1, <3>2
      <4>2. a.retryAfter[1] = s /\ s \in Int
        BY <4>1, HttpAssumption
      <4>3. s * Second \in Int
        BY <4>2, HttpAssumption
      <4>4. 2 ^ Width \in Nat /\ 2 ^ Width > 0 /\ 2 ^ (Width - 1) \in Nat
        BY Powers, HttpAssumption
      <4>5. Wrapped(s * Second) \in Int
        BY <4>3, <4>4 DEF Wrapped
      <4> QED BY <3>2, <4>2, <4>5 DEF AskedWait
    <3> QED BY <3>1, <3>2
  <2>3. RetryAfterWait(a, n) \in 0..MaxRetryAfterWait
    BY <1>1, <2>2, HttpAssumption DEF RetryAfterWait
  <2> QED BY <1>2, <2>3 DEF Backoff
<1>3. CASE ~(~IsError(a) /\ a.status \in {429, 503})
  BY <1>1, <1>3 DEF Backoff
<1> QED BY <1>2, <1>3

(* A step of a call, or beside it.                                                        *)
LEMMA CallNext == CallInv /\ (CallStep \/ UNCHANGED callVars) => CallInv'
<1> SUFFICES ASSUME CallInv, CallStep \/ UNCHANGED callVars PROVE CallInv'
  OBVIOUS
<1> USE HttpAssumption DEF CallInv, CallTypeOK
<1>1. CASE Send
  BY <1>1 DEF Send
<1>2. CASE RoundTrip
  <2>1. PICK a \in Answer, runs \in {0, 1} :
          /\ answered' = a /\ ran' = ran + runs
          /\ \/ /\ callPc' = "waiting" /\ attempt <= MaxRetries /\ waitTime' = Backoff(a, attempt)
                /\ UNCHANGED <<attempt, result>>
             \/ callPc' = "done" /\ result' = "error" /\ UNCHANGED <<attempt, waitTime>>
             \/ callPc' = "body" /\ UNCHANGED <<attempt, waitTime, result>>
    BY <1>2 DEF RoundTrip, Return
  <2>2. attempt <= MaxRetries => Backoff(a, attempt) \in 0..MaxRetryAfterWait
    BY WaitsWithin
  <2>3. callPc = "sent" /\ call' = call
    BY <1>2 DEF RoundTrip
  <2> QED BY <2>1, <2>2, <2>3
<1>3. CASE WaitOver
  BY <1>3 DEF WaitOver
<1>4. CASE ReadBody \/ LoseBody
  BY <1>4 DEF ReadBody, LoseBody, Return, Content
<1>5. CASE Interrupt
  BY <1>5 DEF Interrupt, Return
<1>6. CASE UNCHANGED callVars
  BY <1>6 DEF callVars
<1> QED BY <1>1, <1>2, <1>3, <1>4, <1>5, <1>6 DEF CallStep

(* A call begins with nothing to wait for.                                                *)
LEMMA CallBegins == Init => CallInv
  BY HttpAssumption DEF Init, RequestsInit, CallInit, CallInv, CallTypeOK
-----------------------------------------------------------------------------
(* The types of Listing. *)

(* No page comes after the last object. *)
ListBounds ==
  /\ limit \in Limits /\ merged \in BOOLEAN /\ created \in BOOLEAN /\ deleted \in BOOLEAN
  /\ takesUntil \in BOOLEAN /\ newestFirst \in BOOLEAN
  /\ array \in {"none", "open", "closed"}
  /\ outcome \in {"none", "complete", "cutShort", "error"}
  /\ \A s \in Sources : nextPage[s] <= MaxTime /\ (more[s] => nextPage[s] < MaxTime)

(* There are no more pages than objects. *)
LEMMA PagesOfCount ==
  ASSUME NEW count \in Nat, NEW size \in Nat \ {0}
  PROVE  (count + size - 1) \div size \in Int /\ (count + size - 1) \div size <= count
<1> DEFINE pages == (count + size - 1) \div size
<1>1. pages \in Int /\ pages * size <= count + size - 1
  OBVIOUS
<1> HIDE DEF pages
<1> SUFFICES pages <= count
  BY <1>1 DEF pages
<1> SUFFICES ASSUME pages >= count + 1 PROVE FALSE
  BY <1>1
<1>2. pages * size >= (count + 1) * size
  BY <1>1
<1>3. (count + 1) * size = count * size + size
  OBVIOUS
<1>4. count * size >= count
  OBVIOUS
<1> QED BY <1>1, <1>2, <1>3, <1>4

(* A page that is read is one of a source, and so is the one after it.                    *)
LEMMA ReadsWithinBounds ==
  ASSUME ListInv, ListBounds, NEW s \in Read, ~Advanced(s), ReadPage(s)
  PROVE  \A u \in Sources : nextPage'[u] <= MaxTime /\ (more'[u] => nextPage'[u] < MaxTime)
<1> DEFINE end == IF Started(s) THEN until[s] ELSE time
           M == Matching(s, end)
           n == nextPage[s]
           pages == Pages(Len(Ordered(M)))
<1>1. /\ ListTypes /\ s \in Sources /\ PageSize \in Nat \ {0}
      /\ n \in Nat /\ time \in Nat /\ time <= MaxTime /\ end \in Nat /\ MaxTime \in Nat
  <2>1. ListTypes /\ s \in Sources /\ PageSize \in Nat \ {0}
    BY ReadSources, SizesOfPages DEF ListInv
  <2> QED BY <2>1, ListingAssumption DEF ListTypes
<1>2. M \in SUBSET Int /\ IsFiniteSet(M) /\ M \subseteq 1..MaxTime
  <2>1. M \in SUBSET Int /\ IsFiniteSet(M) /\ M \subseteq objects[s]
    BY <1>1, MatchingTypes
  <2>2. objects[s] \subseteq 1..time /\ 1..time \subseteq 1..MaxTime
    BY <1>1 DEF ListTypes
  <2> QED BY <2>1, <2>2
<1>3. Len(Ordered(M)) = Cardinality(M) /\ Cardinality(M) \in Nat
  BY <1>2, AtItsPlace
<1>4. Cardinality(M) <= MaxTime
  <2>1. IsFiniteSet(1..MaxTime) /\ Cardinality(1..MaxTime) = MaxTime
    BY <1>1, FS_Interval
  <2> HIDE DEF M
  <2>2. M \in SUBSET (1..MaxTime)
    BY <1>2
  <2>3. Cardinality(M) <= Cardinality(1..MaxTime)
    BY <2>1, <2>2, FS_Subset
  <2> QED BY <2>1, <2>3
<1>5. pages \in Int /\ pages <= MaxTime
  <2>1. pages \in Int /\ pages <= Cardinality(M)
    BY <1>1, <1>3, PagesOfCount DEF Pages
  <2> HIDE DEF pages, M
  <2> QED BY <1>1, <1>3, <1>4, <2>1
<1>6. more[s]
  BY DEF Advanced
<1>7. n < MaxTime
  BY <1>1, <1>6 DEF ListBounds
<1>8. /\ more' = [more EXCEPT ![s] = ~IsLast(n, pages)]
      /\ nextPage' = [nextPage EXCEPT ![s] = n + 1]
  BY DEF ReadPage
<1>9. ~IsLast(n, pages) => n + 1 < MaxTime
  <2> HIDE DEF pages, n
  <2> QED BY <1>1, <1>5 DEF IsLast
<1>10. n + 1 <= MaxTime
  <2> HIDE DEF n
  <2> QED BY <1>1, <1>7
<1> HIDE DEF n, pages
<1>11. nextPage'[s] = n + 1 /\ more'[s] = ~IsLast(n, pages)
  BY <1>1, <1>8 DEF ListTypes
<1>12. \A u \in Sources \ {s} : nextPage'[u] = nextPage[u] /\ more'[u] = more[u]
  BY <1>1, <1>8 DEF ListTypes
<1> QED BY <1>9, <1>10, <1>11, <1>12 DEF ListBounds

(* A step of a listing, or beside it.                                                     *)
LEMMA ListBoundsNext == ListInv /\ ListBounds /\ (ListStep \/ UNCHANGED listVars) => ListBounds'
<1> SUFFICES ASSUME ListInv, ListBounds, ListStep \/ UNCHANGED listVars PROVE ListBounds'
  OBVIOUS
<1>1. ASSUME UNCHANGED <<limit, merged, takesUntil, newestFirst, nextPage, more>>,
             created' \in BOOLEAN, deleted' \in BOOLEAN,
             array' \in {"none", "open", "closed"}, outcome' \in {"none", "complete", "cutShort", "error"}
      PROVE  ListBounds'
  BY <1>1 DEF ListBounds
<1>2. CASE \E s \in Sources : Create(s) \/ Delete(s)
  <2>1. /\ UNCHANGED <<limit, merged, takesUntil, newestFirst, nextPage, more, array, outcome>>
        /\ created' \in BOOLEAN /\ deleted' \in {deleted, TRUE}
    <3>1. CASE \E s \in Sources : Create(s)
      BY <3>1 DEF Create
    <3>2. CASE \E s \in Sources : Delete(s)
      BY <3>2 DEF Delete, ListBounds
    <3> QED BY <1>2, <3>1, <3>2
  <2> QED BY <1>1, <2>1 DEF ListBounds
<1>3. CASE Start \/ HeadsRead
  BY <1>1, <1>3 DEF Start, HeadsRead, ListBounds, serverVars
<1>4. CASE ReadHead
  <2>1. PICK s \in Read : ~Advanced(s) /\ ReadPage(s)
    BY <1>4 DEF ReadHead
  <2>2. \A u \in Sources : nextPage'[u] <= MaxTime /\ (more'[u] => nextPage'[u] < MaxTime)
    BY <2>1, ReadsWithinBounds
  <2>3. UNCHANGED <<limit, merged, takesUntil, newestFirst, array, outcome, created, deleted>>
    BY <1>4 DEF ReadHead, serverVars
  <2> QED BY <2>2, <2>3 DEF ListBounds
<1>5. CASE FailPage \/ FailYield
  BY <1>1, <1>5 DEF FailPage, FailYield, EndList, ListBounds, serverVars
<1>6. CASE Yield
  BY <1>1, <1>6 DEF Yield, Complete, EndList, ListBounds, serverVars
<1>7. CASE ListEnds
  BY <1>1, <1>7 DEF ListEnds, Complete, EndList, ListBounds, serverVars
<1>8. CASE UNCHANGED listVars
  BY <1>1, <1>8 DEF listVars, ListBounds, serverVars
<1> QED BY <1>2, <1>3, <1>4, <1>5, <1>6, <1>7, <1>8 DEF ListStep

(* A listing begins before the first page.                                                *)
LEMMA ListBoundsBegin == Init => ListBounds
<1> SUFFICES ASSUME ListInit PROVE ListBounds
  BY DEF Init, RequestsInit
<1>1. \A s \in Sources : nextPage[s] = 0
  BY DEF ListInit
<1>2. 0 <= MaxTime /\ 0 < MaxTime
  BY ListingAssumption
<1> QED BY <1>1, <1>2 DEF ListInit, ListBounds

(* So every variable of a listing keeps its type.                                         *)
LEMMA ListTyped == ListInv /\ ListBounds => ListTypeOK
<1> SUFFICES ASSUME ListInv, ListBounds PROVE ListTypeOK
  OBVIOUS
<1>1. ListTypes /\ time \in Nat /\ time <= MaxTime /\ MaxTime \in Nat
  BY ListingAssumption DEF ListInv, ListTypes
<1>2. 1..time \subseteq 1..MaxTime /\ 0..time \subseteq 0..MaxTime
  BY <1>1
<1>3. \A s \in Sources : atStart[s] \subseteq 1..MaxTime
  BY <1>1, <1>2 DEF ListTypes
<1>4. total \in {Unknown} \cup 0..MaxTime
  <2>1. CASE merged \/ ~Started(1)
    BY <2>1 DEF ListInv, Counted
  <2>2. CASE ~merged /\ Started(1)
    <3>1. total = Cardinality(atStart[1]) /\ 1 \in Sources
      BY <1>1, <2>2 DEF ListInv, Counted, ListTypes
    <3>2. IsFiniteSet(1..MaxTime) /\ Cardinality(1..MaxTime) = MaxTime
      BY <1>1, FS_Interval
    <3>3. IsFiniteSet(atStart[1]) /\ Cardinality(atStart[1]) <= MaxTime
      BY <1>3, <3>1, <3>2, FS_Subset
    <3>4. Cardinality(atStart[1]) \in Nat
      BY <3>3, FS_CardinalityType
    <3> QED BY <1>1, <3>1, <3>3, <3>4
  <2> QED BY <2>1, <2>2
<1>5. nextPage \in [Sources -> 0..MaxTime]
  <2>1. \A s \in Sources : nextPage[s] \in Nat /\ nextPage[s] <= MaxTime
    BY <1>1 DEF ListTypes, ListBounds
  <2>2. \A s \in Sources : nextPage[s] \in 0..MaxTime
    BY <1>1, <2>1
  <2> QED BY <1>1, <2>2 DEF ListTypes
<1>6. /\ objects \in [Sources -> SUBSET (1..MaxTime)] /\ atStart \in [Sources -> SUBSET (1..MaxTime)]
      /\ until \in [Sources -> 0..MaxTime]
  BY <1>1, <1>2 DEF ListTypes
<1> QED BY <1>1, <1>4, <1>5, <1>6 DEF ListTypes, ListBounds, ListTypeOK
-----------------------------------------------------------------------------
(* The types of BrowserLogin and Prompts. *)

(* A login that exchanges a code has it from a tab. *)
BrowserTypes == BrowserTypeOK /\ (loginPc = "exchange" => arrived \in Tab)

(* A login in the browser begins with a level of the tab.                                 *)
LEMMA BrowserTypesBegin == Init => BrowserTypes
<1> SUFFICES ASSUME BrowserInit PROVE BrowserTypes
  BY DEF Init, PersonInit
<1>1. offline \in Levels
  BY LevelAssumption DEF BrowserInit, LevelOf, Levels
<1>2. replaced.refreshToken \in BOOLEAN
  BY DEF BrowserInit
<1> QED BY <1>1, <1>2 DEF BrowserInit, BrowserTypes, BrowserTypeOK, Levels

(* A step of it, or beside it.                                                            *)
LEMMA BrowserTypesNext == BrowserTypes /\ (BrowserStep \/ UNCHANGED browserVars) => BrowserTypes'
<1> SUFFICES ASSUME BrowserTypes, BrowserStep \/ UNCHANGED browserVars PROVE BrowserTypes'
  OBVIOUS
<1> USE DEF BrowserTypes, BrowserTypeOK, loginVars, tabVars, idpVars, Shows
<1>1. AccessLevels \subseteq Levels /\ NoLevel \in Levels
  BY DEF Levels
<1>2. ASSUME NEW t \in Tab, AskForAccessLevel(t) \/ RedirectToIdentityProvider(t) PROVE BrowserTypes'
  BY <1>2 DEF AskForAccessLevel, RedirectToIdentityProvider
<1>3. ASSUME NEW t \in Tab, NEW l \in AccessLevels, Submit(t, l) PROVE BrowserTypes'
  BY <1>1, <1>3 DEF Submit
<1>4. ASSUME NEW t \in Tab, Revoke(t) \/ RevokeFails(t) PROVE BrowserTypes'
  <2>1. offline' \in Levels /\ previousLives' \in BOOLEAN /\ code' \in [Tab -> BOOLEAN]
    <3>1. \/ offline' = NoLevel /\ previousLives' = FALSE /\ code' = [u \in Tab |-> FALSE]
          \/ UNCHANGED <<offline, previousLives, code>>
      BY <1>4, Zenon DEF Revoke, RevokeFails, EndSession
    <3>2. [u \in Tab |-> FALSE] \in [Tab -> BOOLEAN]
      OBVIOUS
    <3> QED BY <1>1, <3>1, <3>2
  <2>2. tab' \in [Tab -> {"closed", "form", "revoking", "revoked", "authorize", "redirect"}]
    BY <1>4 DEF Revoke, RevokeFails
  <2>3. arrived' \in {arrived, "error"} /\ (arrived' # arrived => arrived = NoTab)
    <3>1. CASE Revoke(t)
      BY <3>1 DEF Revoke
    <3>2. CASE RevokeFails(t)
      <4>1. arrived' = IF arrived = NoTab THEN "error" ELSE arrived
        BY <3>2 DEF RevokeFails, Arrives
      <4> QED BY <4>1
    <3> QED BY <1>4, <3>1, <3>2
  <2>4. UNCHANGED <<loginPc, replaced, chosen, granted, picked, supportsLevels>>
    BY <1>4 DEF Revoke, RevokeFails
  <2> QED BY <2>1, <2>2, <2>3, <2>4, TabAssumption
<1>5. ASSUME NEW t \in Tab, Authorize(t) PROVE BrowserTypes'
  <2>1. code' \in [Tab -> BOOLEAN]
    BY <1>5 DEF Authorize
  <2> QED BY <1>5, <2>1 DEF Authorize
<1>6. ASSUME NEW t \in Tab, ReceiveRedirect(t) PROVE BrowserTypes'
  BY <1>6, TabAssumption DEF ReceiveRedirect, Arrives
<1>7. CASE Await \/ GiveUpLogin \/ ExchangeFails
  BY <1>7 DEF Await, GiveUpLogin, ExchangeFails
<1>8. CASE Exchange
  <2>1. arrived \in Tab
    BY <1>8 DEF Exchange
  <2>2. offline' \in Levels /\ granted' \in Levels /\ loginPc' \in {"done", "failed"}
    BY <1>1, <1>8, <2>1 DEF Exchange, ChosenLevel
  <2>3. code' \in [Tab -> BOOLEAN]
    BY <1>8 DEF Exchange
  <2> QED BY <1>8, <2>2, <2>3 DEF Exchange
<1>9. CASE UNCHANGED browserVars
  BY <1>9 DEF browserVars
<1> QED BY <1>2, <1>3, <1>4, <1>5, <1>6, <1>7, <1>8, <1>9 DEF BrowserStep, PageSteps

(* What the order of the answers does not need. *)
PromptTypes ==
  /\ terminal \in BOOLEAN /\ closed \in BOOLEAN /\ readsLines \in BOOLEAN /\ hasDefault \in BOOLEAN
  /\ Len(entered) <= MaxLines
  /\ asked \in 0..MaxQuestions /\ question \in Kind \cup {"none"}
  /\ promptPc \in {"idle", "waiting", "keys", "failed"}

(* Nothing is entered at the start.                                                       *)
LEMMA PromptTypesBegin == Init => PromptTypes
<1> SUFFICES ASSUME PromptInit PROVE PromptTypes
  BY DEF Init, PersonInit
<1>1. entered = <<>> /\ asked = 0
  BY DEF PromptInit
<1>2. Len(entered) <= MaxLines /\ asked \in 0..MaxQuestions
  BY <1>1, PromptAssumption
<1> QED BY <1>2 DEF PromptInit, PromptTypes

(* A step of the questions, or beside them.                                               *)
LEMMA PromptTypesNext == OrderInv /\ PromptTypes /\ (PromptStep \/ UNCHANGED promptVars) => PromptTypes'
<1> SUFFICES ASSUME OrderInv, PromptTypes, PromptStep \/ UNCHANGED promptVars PROVE PromptTypes'
  OBVIOUS
<1> USE PromptAssumption DEF PromptTypes, inputVars, QuestionEnds, Asks
<1>1. CASE Enter
  <2>1. CASE \E l \in Line : Len(entered) < MaxLines /\ entered' = Append(entered, l) /\ UNCHANGED closed
    <3>1. Len(entered') = Len(entered) + 1 /\ Len(entered) \in Nat
      BY <2>1 DEF OrderInv
    <3> QED BY <1>1, <2>1, <3>1 DEF Enter
  <2>2. CASE closed' = TRUE /\ UNCHANGED entered
    BY <1>1, <2>2 DEF Enter
  <2> QED BY <1>1, <2>1, <2>2 DEF Enter
<1>2. CASE ReadLine \/ NextEndOfInput \/ NextTimesOut
  BY <1>2 DEF ReadLine, NextEndOfInput, NextTimesOut
<1>3. ASSUME NEW k \in Kind, Question(k) PROVE PromptTypes'
  <2>1. hasDefault' \in BOOLEAN
    BY <1>3 DEF Question
  <2>2. readsLines' \in BOOLEAN
    BY <1>3 DEF Question
  <2> QED BY <1>3, <2>1, <2>2 DEF Question
<1>4. CASE NextLine
  <2>1. AnswerWith(entered[read]) /\ UNCHANGED <<inputVars, read, readsLines, dropped, asked>> /\ question \in Kind
    BY <1>4 DEF NextLine, OrderInv
  <2>2. \/ promptPc' \in {"idle", "failed"} /\ question' = "none" /\ hasDefault' = FALSE
        \/ UNCHANGED <<promptPc, question, hasDefault>>
    BY <2>1 DEF AnswerWith, Kind
  <2> QED BY <2>1, <2>2
<1>5. CASE PressInList
  <2>1. \/ promptPc' \in {"idle", "failed"} /\ question' = "none" /\ hasDefault' = FALSE
        \/ UNCHANGED <<promptPc, question, hasDefault>>
    BY <1>5 DEF PressInList, SelectOnEnter, TypeInList, OrderInv
  <2> QED BY <1>5, <2>1 DEF PressInList
<1>6. CASE UNCHANGED promptVars
  BY <1>6 DEF promptVars
<1> QED BY <1>1, <1>2, <1>3, <1>4, <1>5, <1>6 DEF PromptStep

(* So every variable of the questions keeps its type.                                     *)
LEMMA PromptTyped == OrderInv /\ PromptTypes => PromptTypeOK
<1> SUFFICES ASSUME OrderInv, PromptTypes PROVE PromptTypeOK
  OBVIOUS
<1>1. LinesAnswered <= MaxLines /\ LinesAnswered \in Nat
  BY PromptAssumption DEF OrderInv, PromptTypes, LinesAnswered
<1>2. dropped \subseteq 1..MaxLines
  BY <1>1, PromptAssumption DEF OrderInv, InTurn
<1> QED BY <1>2 DEF OrderInv, PromptTypes, PromptTypeOK
-----------------------------------------------------------------------------
(* The types of Resolving. *)

(* What the way to a credential does not need. *)
ResolveTypes ==
  /\ currentProfile \in AnyName /\ edited \in AnyName /\ edits \in 0..MaxEdits
  /\ named \in AnyName /\ explicit \in AnyEndpoint /\ target \in Target \cup {NoUrl}
  /\ supplied \in {0, 1, 2}
  /\ resolvePc \in {"start", "session", "credential", "sent", "failed"}
  /\ matched \in AnyName
  /\ session \in [name : AnyName, endpoint : AnyEndpoint, selects : BOOLEAN]
  /\ session.selects => session.name \in ProfileName
  /\ sent \in [source : {NotGiven, "stored", "environment"}, for : AnyEndpoint]
  /\ editedSince \in BOOLEAN

(* So every variable of the way to a credential keeps its type.                           *)
LEMMA ResolveTyped == ForeignInv /\ ResolveTypes => ResolveTypeOK
  BY DEF ForeignInv, ResolveTypes, ResolveTypeOK

(* A profile is always resolved, since there is a name for the default. *)
LEMMA ResolvedIsName ==
  ASSUME ResolveTypes
  PROVE  ResolvedName \in AnyName
<1> DEFINE sources == <<named, matched, UniqueMatch, currentProfile, DefaultName>>
           given == {i \in 1..Len(sources) : sources[i] # NotGiven}
<1>1. UniqueMatch \in AnyName
  <2>1. CASE explicit # NoUrl /\ Cardinality(MatchingEndpoint(explicit)) = 1
    <3>1. MatchingEndpoint(explicit) # {}
      BY <2>1, FS_EmptySet
    <3>2. MatchingEndpoint(explicit) \subseteq ProfileName
      BY DEF MatchingEndpoint, StoredNames
    <3> QED BY <2>1, <3>1, <3>2 DEF UniqueMatch, AnyName
  <2>2. CASE ~(explicit # NoUrl /\ Cardinality(MatchingEndpoint(explicit)) = 1)
    BY <2>2 DEF UniqueMatch, AnyName
  <2> QED BY <2>1, <2>2
<1>2. \A i \in 1..5 : sources[i] \in AnyName
  BY <1>1, ResolvingAssumption DEF ResolveTypes, AnyName
<1>3. 5 \in given /\ given \subseteq 1..5
  BY ResolvingAssumption
<1>4. \E i \in given : \A j \in given : i <= j
  <2> HIDE DEF given
  <2>1. \A i \in given : i \in {1, 2, 3, 4, 5}
    BY <1>3
  <2> QED BY <1>3, <2>1
<1>5. Min(given) \in given
  <2> HIDE DEF given
  <2> QED BY <1>4 DEF Min
<1>6. sources[Min(given)] \in AnyName
  <2> HIDE DEF given, sources
  <2> QED BY <1>2, <1>3, <1>5
<1> QED BY <1>6 DEF ResolvedName, FirstGiven

(* It begins with nothing resolved.                                                       *)
LEMMA ResolveTypesBegin == Init => ResolveTypes
<1> SUFFICES ASSUME ResolveInit PROVE ResolveTypes
  BY DEF Init, SettingsInit
<1>1. edits \in 0..MaxEdits
  BY ResolvingAssumption DEF ResolveInit
<1>2. sent \in [source : {NotGiven, "stored", "environment"}, for : AnyEndpoint]
  BY DEF ResolveInit, NoCredential, AnyEndpoint
<1>3. resolvePc \in {"start", "session", "credential", "sent", "failed"}
  BY DEF ResolveInit
<1> QED BY <1>1, <1>2, <1>3 DEF ResolveInit, ResolveTypes, AnyName, AnyEndpoint, StoredNames

(* A step of it, or beside it.                                                            *)
LEMMA ResolveTypesNext ==
  ForeignInv /\ ResolveTypes /\ (ResolveStep \/ UNCHANGED resolveVars) => ResolveTypes'
<1> SUFFICES ASSUME ForeignInv, ResolveTypes, ResolveStep \/ UNCHANGED resolveVars PROVE ResolveTypes'
  OBVIOUS
<1> USE DEF dirVars, settingVars
<1>1. ASSUME Fail PROVE ResolveTypes'
  BY <1>1 DEF Fail, ResolveTypes
<1>2. ASSUME NEW names, names \subseteq AnyName, GoOnWith(names) PROVE ResolveTypes'
  BY <1>1, <1>2 DEF GoOnWith, ResolveTypes
<1>3. CASE ProfileFor
  <2>1. {NotGiven} \subseteq AnyName /\ \A e : ForEndpoint(e) \subseteq AnyName
    BY DEF AnyName, ForEndpoint, MatchingEndpoint, StoredNames
  <2>2. UNION {ForEndpoint(e) : e \in EndpointsHolding(target)} \subseteq AnyName
    BY <2>1
  <2>3. \/ Fail \/ GoOnWith({NotGiven}) \/ GoOnWith(ForEndpoint(explicit))
        \/ GoOnWith(UNION {ForEndpoint(e) : e \in EndpointsHolding(target)})
    BY <1>3 DEF ProfileFor
  <2> QED BY <1>1, <1>2, <2>1, <2>2, <2>3
<1>4. CASE NewSession
  <2>1. /\ SessionProfile \in [name : AnyName, endpoint : AnyEndpoint, selects : BOOLEAN]
        /\ SessionProfile.selects => SessionProfile.name \in ProfileName
    <3>1. ResolvedName \in AnyName
      BY ResolvedIsName
    <3>2. CASE ResolvedName \in StoredNames
      BY <3>1, <3>2 DEF SessionProfile, StoredNames, ForeignInv
    <3>3. CASE ResolvedName \notin StoredNames
      BY <3>1, <3>3 DEF SessionProfile, ResolveTypes
    <3> QED BY <3>2, <3>3
  <2>2. Fail \/ /\ session' = SessionProfile /\ editedSince' = (edited = SessionProfile.name)
                /\ resolvePc' = "credential"
                /\ UNCHANGED <<dirVars, settingVars, matched, sent>>
    BY <1>4 DEF NewSession
  <2> QED BY <1>1, <2>1, <2>2 DEF ResolveTypes
<1>5. CASE ResolveCredentials
  <2>1. sent' \in [source : {NotGiven, "stored", "environment"}, for : AnyEndpoint]
    <3>1. CASE sent' = [source |-> "environment", for |-> NoUrl]
      BY <3>1 DEF AnyEndpoint
    <3>2. CASE sent' = [source |-> "stored", for |-> issuedFor[session.name]] /\ session.selects
               /\ issuedFor[session.name] # NoUrl
      <4>1. session.name \in ProfileName
        BY <3>2 DEF ResolveTypes
      <4> QED BY <3>2, <4>1 DEF ForeignInv
    <3> QED BY <1>5, <3>1, <3>2 DEF ResolveCredentials
  <2> QED BY <1>5, <2>1 DEF ResolveCredentials, ResolveTypes
<1>6. CASE CredentialsFail
  BY <1>1, <1>6 DEF CredentialsFail
<1>7. ASSUME NEW n \in ProfileName, EditRemoves(n) \/ LogIn(n) PROVE ResolveTypes'
  <2>1. edits' \in 0..MaxEdits
    BY <1>7, ResolvingAssumption DEF EditRemoves, LogIn, Edit, ResolveTypes
  <2>2. currentProfile' \in AnyName /\ edited' \in AnyName
    BY <1>7 DEF EditRemoves, LogIn, ResolveTypes, AnyName
  <2>3. editedSince' \in BOOLEAN
    BY <1>7 DEF EditRemoves, LogIn, ResolveTypes
  <2> QED BY <1>7, <2>1, <2>2, <2>3 DEF EditRemoves, LogIn, Edit, ResolveTypes
<1>8. ASSUME NEW n \in ProfileName, NEW e \in AnyEndpoint, EditStores(n, e) PROVE ResolveTypes'
  <2>1. ASSUME NEW m \in StoredNames PROVE m \in AnyName
    BY <2>1 DEF StoredNames, AnyName
  <2>2. CurrentAfter(n, e) \in AnyName
    <3>1. n \in AnyName /\ NotGiven \in AnyName /\ currentProfile \in AnyName
      BY DEF AnyName, ResolveTypes
    <3> DEFINE only == {m \in StoredNames \ {n} : StoredNames \ {n} = {m}}
    <3>2. only # {} => (CHOOSE m \in only : TRUE) \in StoredNames
      OBVIOUS
    <3> HIDE DEF only
    <3>3. CASE e # NoUrl
      BY <3>1, <3>3 DEF CurrentAfter
    <3>4. CASE e = NoUrl /\ currentProfile # n
      BY <3>1, <3>4 DEF CurrentAfter
    <3>5. CASE e = NoUrl /\ currentProfile = n
      <4>1. CurrentAfter(n, e) = IF only = {} THEN NotGiven ELSE CHOOSE m \in only : TRUE
        BY <3>5 DEF CurrentAfter, only
      <4> QED BY <2>1, <3>1, <3>2, <4>1
    <3> QED BY <3>3, <3>4, <3>5
  <2>3. UNCHANGED <<issuedFor, edits, settingVars, resolvePc, matched, session, sent, editedSince>>
        /\ edited' = NotGiven /\ stored' = [stored EXCEPT ![n] = [endpoint |-> e, selects |-> FALSE]]
        /\ currentProfile' \in AnyName
    BY <1>8, <2>2 DEF EditStores
  <2> QED BY <2>3 DEF ResolveTypes, AnyName, settingVars
<1>9. CASE UNCHANGED resolveVars
  BY <1>9 DEF resolveVars, ResolveTypes
<1> QED BY <1>3, <1>4, <1>5, <1>6, <1>7, <1>8, <1>9 DEF ResolveStep
-----------------------------------------------------------------------------
(* The types of AuthStatus. *)

(* Sequences of one and of two elements. *)
LEMMA TwoElements ==
  ASSUME NEW S, NEW s \in Seq(S), NEW x, NEW y, Len(s) = 2, s[1] = x, s[2] = y
  PROVE  s = <<x, y>>
OBVIOUS
LEMMA OneElement ==
  ASSUME NEW S, NEW s \in Seq(S), NEW x, Len(s) = 1, s[1] = x
  PROVE  s = <<x>>
OBVIOUS

(* What is left of three elements, the first of which are taken away. *)
LastOf(s, y, z) ==
  /\ SubSeq(s, 1, 3) = s /\ SubSeq(s, 2, 3) = <<y, z>>
  /\ SubSeq(s, 3, 3) = <<z>> /\ SubSeq(s, 4, 3) = <<>>

LEMMA LastOfThree == ASSUME NEW x, NEW y, NEW z, NEW s, s = <<x, y, z>> PROVE LastOf(s, y, z)
<1> DEFINE S == {x, y, z}
<1>1. s \in Seq(S) /\ Len(s) = 3 /\ s[1] = x /\ s[2] = y /\ s[3] = z
  OBVIOUS
<1>2. \A i \in 1..3 : s[i] \in S
  BY <1>1
<1> HIDE DEF S
<1>3. SubSeq(s, 1, 3) \in Seq(S) /\ Len(SubSeq(s, 1, 3)) = 3 /\ \A i \in 1..3 : SubSeq(s, 1, 3)[i] = s[i]
  BY <1>1
<1>4. SubSeq(s, 1, 3) = s
  BY <1>1, <1>3, SeqEqual
<1>5. SubSeq(s, 2, 3) \in Seq(S) /\ Len(SubSeq(s, 2, 3)) = 2
      /\ SubSeq(s, 2, 3)[1] = y /\ SubSeq(s, 2, 3)[2] = z
  BY <1>1
<1>6. SubSeq(s, 2, 3) = <<y, z>>
  <2> DEFINE t == SubSeq(s, 2, 3)
  <2>1. t \in Seq(S) /\ Len(t) = 2 /\ t[1] = y /\ t[2] = z
    BY <1>5
  <2> HIDE DEF t
  <2>2. t = <<y, z>>
    BY <2>1, TwoElements
  <2> QED BY <2>2 DEF t
<1>7. SubSeq(s, 3, 3) \in Seq(S) /\ Len(SubSeq(s, 3, 3)) = 1 /\ SubSeq(s, 3, 3)[1] = z
  BY <1>1
<1>8. SubSeq(s, 3, 3) = <<z>>
  BY <1>7, OneElement
<1>9. SubSeq(s, 4, 3) = <<>>
  BY <1>1
<1> QED BY <1>4, <1>6, <1>8, <1>9 DEF LastOf

(* What the status does not need; the credential in use, and each that it tells, is one.  *)
StatusTypes ==
  /\ loggingOut \in BOOLEAN /\ others \in 0..MaxOthers
  /\ worksIn \in {"none", "own"}
  /\ statusPc \in {"start", "resolve", "load", "stored", "tell", "shown", "failed"}
  /\ shownToken \in SUBSET Mint
  /\ statusPc = "load" => used.identity # NoIdentity
  /\ \A i \in 1..Len(unused) : unused[i].identity # NoIdentity

(* So every variable of a status keeps its type.                                          *)
LEMMA StatusTyped == AuthDirInv /\ ToldInv /\ StatusTypes => StatusTypeOK
<1> SUFFICES ASSUME AuthDirInv, ToldInv, StatusTypes PROVE StatusTypeOK
  OBVIOUS
<1>1. Identities = NoIdentity..LoginIdentity /\ NoIdentity = 0
  BY DEF Identities, NoIdentity
<1>2. toTell \in {SubSeq(CredentialNames, i, 3) : i \in 1..4}
  <2>1. /\ SubSeq(CredentialNames, 1, 3) = CredentialNames
        /\ SubSeq(CredentialNames, 2, 3) = <<"manual", "oidcLogin">>
        /\ SubSeq(CredentialNames, 3, 3) = <<"oidcLogin">>
        /\ SubSeq(CredentialNames, 4, 3) = <<>>
    <3>1. CredentialNames = <<"apiKey", "manual", "oidcLogin">>
      BY DEF CredentialNames
    <3>2. LastOf(CredentialNames, "manual", "oidcLogin")
      BY <3>1, LastOfThree
    <3> QED BY <3>2 DEF LastOf
  <2>2. toTell \in {CredentialNames, <<"manual", "oidcLogin">>, <<"oidcLogin">>, <<>>}
    BY DEF ToldInv
  <2>3. 1 \in 1..4 /\ 2 \in 1..4 /\ 3 \in 1..4 /\ 4 \in 1..4
    OBVIOUS
  <2> QED BY <2>1, <2>2, <2>3
<1>3. unused \in Seq([name : CredentialName, identity : 1..LoginIdentity, token : SUBSET Mint])
  <2> DEFINE R == [name : CredentialName, identity : Identities, token : SUBSET Mint]
             T == [name : CredentialName, identity : 1..LoginIdentity, token : SUBSET Mint]
  <2>1. unused \in Seq(R)
    BY DEF ToldInv
  <2>2. ASSUME NEW r \in R, r.identity # NoIdentity PROVE r \in T
    <3>1. r.identity \in 1..LoginIdentity
      BY <1>1, <2>2 DEF LoginIdentity
    <3> QED BY <3>1
  <2> HIDE DEF R, T
  <2>3. \A i \in 1..Len(unused) : unused[i] \in T
    BY <2>1, <2>2 DEF StatusTypes
  <2>4. unused \in [1..Len(unused) -> T] /\ Len(unused) \in Nat
    BY <2>1, <2>3
  <2>5. unused \in Seq(T)
    BY <2>4
  <2> QED BY <2>5 DEF T
<1>4. /\ tokenFile \in [CredentialName -> [of : 0..LoginIdentity, tokens : SUBSET Mint]]
      /\ loginOf.at \in {"none", "read", "cached"} /\ selects \in CredentialName \cup {"none"}
      /\ keeps \in [CredentialName -> NoIdentity..LoginIdentity]
  BY <1>1 DEF AuthDirInv, Caches
<1>5. /\ used \in [name : CredentialName \cup {"none"}, identity : 0..LoginIdentity, stored : BOOLEAN]
      /\ readKeeps \in [CredentialName -> NoIdentity..LoginIdentity]
      /\ provided \subseteq {"apiKey", "manual"} /\ statusSelected \in CredentialName \cup {"none"}
  BY <1>1 DEF ToldInv
<1> QED BY <1>2, <1>3, <1>4, <1>5 DEF StatusTypes, StatusTypeOK

(* What a credential has of its cache are tokens.                                         *)
LEMMA LoadedTyped ==
  ASSUME AuthDirInv, NEW c \in [name : CredentialName, identity : Identities, stored : BOOLEAN],
         c.identity # NoIdentity
  PROVE  LoadedTokens(c) \in SUBSET Mint /\ OidcTokenFor(LoadedTokens(c)) \in SUBSET Mint
<1>1. tokenFile[c.name].tokens \in SUBSET Mint
  BY DEF AuthDirInv, Caches
<1>2. UnscopedOf(c.identity) \in Mint
  BY DEF UnscopedOf, Mint, Identities, NoIdentity, StoredIdentity, LoginIdentity
<1>3. LoadedTokens(c) \in SUBSET Mint
  BY <1>1, <1>2 DEF LoadedTokens
<1> QED BY <1>3 DEF OidcTokenFor

(* A status begins with no credential in use.                                             *)
LEMMA StatusTypesBegin == Init => StatusTypes
<1> SUFFICES ASSUME StatusInit PROVE StatusTypes
  BY DEF Init, SettingsInit
<1>1. Len(unused) = 0
  BY DEF StatusInit
<1>2. others \in 0..MaxOthers
  BY StatusAssumption DEF StatusInit
<1>3. \A i \in 1..Len(unused) : unused[i].identity # NoIdentity
  BY <1>1
<1>4. loggingOut \in BOOLEAN
  BY DEF StatusInit
<1>5. worksIn \in {"none", "own"} /\ statusPc = "start" /\ shownToken = {}
  BY DEF StatusInit
<1> QED BY <1>2, <1>3, <1>4, <1>5 DEF StatusTypes

(* A step of a status, or beside it.                                                      *)
LEMMA StatusTypesNext ==
  AuthDirInv /\ ToldInv /\ StatusTypes /\ (StatusStep \/ UNCHANGED statusVars) => StatusTypes'
<1> SUFFICES ASSUME AuthDirInv, ToldInv, StatusTypes, StatusStep \/ UNCHANGED statusVars
             PROVE  StatusTypes'
  OBVIOUS
<1> USE DEF authDirVars, toldVars, ToldAs
<1>1. ASSUME UNCHANGED <<loggingOut, others, worksIn, unused, shownToken, used>>,
             statusPc' \in {"resolve", "tell", "shown", "failed"} PROVE StatusTypes'
  BY <1>1 DEF StatusTypes
<1>2. CASE ReadSelection \/ ReadStored \/ Show
  BY <1>1, <1>2 DEF ReadSelection, ReadStored, Show
<1>3. ASSUME NEW n, NEW i, NEW stores, Use(n, i, stores), i # NoIdentity PROVE StatusTypes'
  BY <1>3 DEF Use, StatusTypes
<1>4. ASSUME FailStatus PROVE StatusTypes'
  BY <1>1, <1>4 DEF FailStatus
<1>5. CASE UseProvided
  <2>1. EnvironmentIdentity # NoIdentity
    BY DEF EnvironmentIdentity, NoIdentity
  <2>2. FailStatus \/ \E n \in provided : Use(n, EnvironmentIdentity, FALSE)
    BY <1>5, Zenon DEF UseProvided
  <2>3. CASE FailStatus
    BY <1>4, <2>3
  <2>4. ASSUME NEW n \in provided, Use(n, EnvironmentIdentity, FALSE) PROVE StatusTypes'
    BY <1>3, <2>1, <2>4, Zenon
  <2> QED BY <2>2, <2>3, <2>4
<1>6. CASE UseStored
  BY <1>3, <1>4, <1>6 DEF UseStored
<1>7. CASE LoadUsed
  <2>1. CASE FailStatus
    BY <1>4, <2>1
  <2>2. CASE /\ ToldAs("stored") /\ UNCHANGED <<statusSelected, used, readKeeps, toTell, unused>>
             /\ shownToken' = IF used.name = "oidcLogin" THEN OidcTokenFor(LoadedTokens(used))
                              ELSE LoadedTokens(used)
    <3>1. used \in [name : CredentialName, identity : Identities, stored : BOOLEAN]
      BY <1>7 DEF LoadUsed, ToldInv
    <3>2. used.identity # NoIdentity
      BY <1>7 DEF LoadUsed, StatusTypes
    <3>3. shownToken' \in SUBSET Mint
      BY <2>2, <3>1, <3>2, LoadedTyped
    <3> QED BY <2>2, <3>3 DEF StatusTypes
  <2> QED BY <1>7, <2>1, <2>2 DEF LoadUsed
<1>8. CASE TellUnused
  <2>1. /\ UNCHANGED <<loggingOut, others, worksIn, shownToken, used>> /\ statusPc' = "tell"
        /\ \/ UNCHANGED unused
           \/ \E r : unused' = Append(unused, r) /\ r.identity # NoIdentity
    BY <1>8 DEF TellUnused
  <2>2. CASE UNCHANGED unused
    BY <1>1, <2>1, <2>2
  <2>3. ASSUME NEW r, unused' = Append(unused, r), r.identity # NoIdentity PROVE StatusTypes'
    <3>1. Len(unused) \in Nat /\ Len(unused') = Len(unused) + 1
      BY <2>3 DEF ToldInv
    <3>2. \A i \in 1..(Len(unused) + 1) : unused'[i] = IF i = Len(unused) + 1 THEN r ELSE unused[i]
      BY <2>3 DEF ToldInv
    <3>3. \A i \in 1..Len(unused) : unused[i].identity # NoIdentity
      BY DEF StatusTypes
    <3>4. \A i \in 1..Len(unused') : unused'[i].identity # NoIdentity
      BY <2>3, <3>1, <3>2, <3>3
    <3> QED BY <2>1, <3>4 DEF StatusTypes
  <2> QED BY <2>1, <2>2, <2>3
<1>9. ASSUME UNCHANGED <<worksIn, toldVars>>, loggingOut' \in BOOLEAN,
             others' = others \/ (others < MaxOthers /\ others' = others + 1)
      PROVE  StatusTypes'
  <2>1. others' \in 0..MaxOthers
    BY <1>9, StatusAssumption DEF StatusTypes
  <2> QED BY <1>9, <2>1 DEF StatusTypes
<1>10. ASSUME NEW n \in CredentialName, LoginReads(n) \/ StoredMints(n) PROVE StatusTypes'
  BY <1>9, <1>10 DEF LoginReads, StoredMints, AnotherDoes, Otherwise, StatusTypes
<1>11. CASE LoginCaches \/ LoginMints \/ LoginKeeps \/ OtherLoginEnds \/ ProvidedMints
  BY <1>9, <1>11
  DEF LoginCaches, LoginMints, LoginKeeps, OtherLoginEnds, ProvidedMints, AnotherDoes, Otherwise, StatusTypes
<1>12. CASE LogoutForgets \/ LogoutClears
  BY <1>9, <1>12 DEF LogoutForgets, LogoutClears, AnotherDoes, Otherwise
<1>13. CASE UNCHANGED statusVars
  BY <1>9, <1>13 DEF statusVars, StatusTypes
<1> QED BY <1>2, <1>5, <1>6, <1>7, <1>8, <1>10, <1>11, <1>12, <1>13 DEF StatusStep
-----------------------------------------------------------------------------
(* The types of LoginChoice. *)

(* What the choices of a login do not need. *)
ChoiceTypes ==
  /\ loginAt \in {"profile", "credential", "workspace", "listing", "selecting", "minting",
                  "storing", "unlocking", "loggedIn", "failed"}
  /\ loginTo \in StorableName \cup {Nobody} /\ place \in Place \cup {NoPlace, Failure}
  /\ tokens \in BOOLEAN /\ questions \subseteq {"profile", "workspace"}

(* So every variable of a login keeps its type.                                           *)
LEMMA ChoiceTyped == ChoiceInv /\ ChoiceTypes => LoginTypeOK
  BY DEF ChoiceInv, ChoiceTypes, LoginTypeOK

(* A login begins with nothing chosen.                                                    *)
LEMMA ChoiceTypesBegin == Init => ChoiceTypes
  BY DEF Init, SettingsInit, LoginInit, ChoiceTypes

(* A step of a login, or beside it.                                                       *)
LEMMA ChoiceTypesNext ==
  ChoiceInv /\ ChoiceTypes /\ (LoginSteps \/ UNCHANGED choiceVars) => ChoiceTypes'
<1> SUFFICES ASSUME ChoiceInv, ChoiceTypes, LoginSteps \/ UNCHANGED choiceVars PROVE ChoiceTypes'
  OBVIOUS
<1> USE DEF ChoiceTypes, givenVars
<1>1. /\ candidates \subseteq StorableName /\ offered \subseteq Place
      /\ givenPlace \in Place \cup {NoPlace} /\ givenName \in StorableName \cup {Nobody}
      /\ before.current \in StorableName \cup {Nobody}
  BY DEF ChoiceInv, Keepable
<1>2. loginAt \notin {"profile", "failed"} => DefaultPlace \in Place \cup {NoPlace}
  <2>1. loginAt \notin {"profile", "failed"} => loginTo \in StorableName
    BY <1>1 DEF ChoiceInv, Chosen
  <2> QED BY <2>1 DEF DefaultPlace, ChoiceInv, Keepable
<1>3. CASE RefuseStdin \/ FailToChoose \/ FailCredential
  BY <1>3 DEF RefuseStdin, FailToChoose, FailCredential, Abandon
<1>4. CASE ChooseProfile \/ TakeCurrentProfile
  <2>1. /\ loginAt' = "credential" /\ loginTo' \in StorableName /\ UNCHANGED <<tokens, place>>
        /\ questions' \in {questions, questions \cup {"profile"}}
    BY <1>1, <1>4, LoginAssumption
    DEF ChooseProfile, TakeCurrentProfile, TakeName, LogsInTo, CurrentIsCandidate
  <2> QED BY <2>1
<1>5. CASE ResolveCredential \/ GetBearerToken \/ FailToken \/ RefuseFailure \/ Unlock
  BY <1>5 DEF ResolveCredential, GetBearerToken, FailToken, RefuseFailure, Unlock, GiveBack
<1>6. CASE ResolveWorkspaceForLogin
  <2>1. place' \in {place, givenPlace, DefaultPlace} /\ loginAt' \in {"minting", "listing"}
    BY <1>6 DEF ResolveWorkspaceForLogin, Resolved
  <2>2. DefaultPlace \in Place \cup {NoPlace}
    BY <1>2, <1>6 DEF ResolveWorkspaceForLogin
  <2> QED BY <1>1, <1>6, <2>1, <2>2 DEF ResolveWorkspaceForLogin
<1>7. CASE ListWorkspaces
  <2>1. place' \in {place, DefaultPlace, Failure} /\ loginAt' \in {"minting", "selecting"}
    BY <1>7 DEF ListWorkspaces, Resolved
  <2>2. DefaultPlace \in Place \cup {NoPlace}
    BY <1>2, <1>7 DEF ListWorkspaces
  <2> QED BY <1>7, <2>1, <2>2 DEF ListWorkspaces
<1>8. CASE SelectWorkspace \/ EndOfSelection \/ LeaveSelection
  <2>1. DefaultPlace \in Place \cup {NoPlace}
    BY <1>2, <1>8 DEF SelectWorkspace, EndOfSelection, LeaveSelection
  <2>2. place' \in offered \cup {DefaultPlace, Failure} /\ loginAt' = "minting"
    BY <1>8 DEF SelectWorkspace, EndOfSelection, LeaveSelection, Resolved, ProfileDefault
  <2>3. questions' \in {questions, questions \cup {"workspace"}} /\ UNCHANGED <<loginTo, tokens>>
    BY <1>8 DEF SelectWorkspace, EndOfSelection, LeaveSelection
  <2> QED BY <1>1, <2>1, <2>2, <2>3
<1>9. CASE StoreSession
  <2>1. loginAt' \in {"unlocking", "loggedIn", "failed"}
    BY <1>9, Zenon DEF StoreSession
  <2> QED BY <1>9, <2>1 DEF StoreSession
<1>10. CASE UNCHANGED choiceVars
  BY <1>10 DEF choiceVars
<1> QED BY <1>3, <1>4, <1>5, <1>6, <1>7, <1>8, <1>9, <1>10 DEF LoginSteps
-----------------------------------------------------------------------------
(* The types of HeldLogs. *)

(* What the order of the held records does not need; the UI knows of no more warnings     *)
(* than there are, and of them there are no more than records.                            *)
HoldTypes ==
  /\ default \in {"held", "previous"} /\ handler \in [Logger -> {"held", "previous"}]
  /\ released \in BOOLEAN /\ signal \in BOOLEAN
  /\ forwarding \in {"waiting", "signalled", "notifying", "over"}
  /\ warned <= Len(held) /\ told <= warned
  /\ ui \in {"reading", "updating", "ended"}

(* So every variable of the held logs keeps its type.                                     *)
LEMMA HoldTyped == HeldInv /\ HoldTypes => HoldTypeOK
<1> SUFFICES ASSUME LogTypeOK, HoldTypes PROVE HoldTypeOK
  BY DEF HeldInv
<1>1. warned \in 0..Len(held) /\ told \in 0..warned
  BY DEF LogTypeOK, HoldTypes
<1> QED BY <1>1 DEF LogTypeOK, HoldTypes, HoldTypeOK

(* Nothing is held at the start.                                                          *)
LEMMA HoldTypesBegin == Init => HoldTypes
<1> SUFFICES ASSUME HoldInit PROVE HoldTypes
  BY DEF Init, PersonInit
<1>1. warned <= Len(held) /\ told <= warned
  BY DEF HoldInit
<1>2. released \in BOOLEAN /\ signal \in BOOLEAN
  BY DEF HoldInit
<1> QED BY <1>1, <1>2 DEF HoldInit, HoldTypes

(* A step of the held logs, or beside them.                                               *)
LEMMA HoldTypesNext == HeldInv /\ HoldTypes /\ (HoldStep \/ UNCHANGED holdVars) => HoldTypes'
<1> SUFFICES ASSUME LogTypeOK, HoldTypes, HoldStep \/ UNCHANGED holdVars PROVE HoldTypes'
  BY DEF HeldInv
<1> USE DEF logVars, heldVars, releaseVars, forwardVars
<1>1. /\ default \in {"held", "previous"} /\ handler \in [Logger -> {"held", "previous"}]
      /\ forwarding \in {"waiting", "signalled", "notifying", "over"}
      /\ ui \in {"reading", "updating", "ended"}
  BY DEF HoldTypes
<1>2. warned \in Nat /\ told \in Nat /\ Len(held) \in Nat /\ warned <= Len(held) /\ told <= warned
  BY DEF LogTypeOK, HoldTypes
\* the types of the steps but for the counts
<1>3. released' \in BOOLEAN
  <2>1. released' = released \/ released' = TRUE
    BY DEF HoldStep, Log, Handle, Write, Forward, Notify, NotifyReturns, Loop, CloseReleased,
           WaitForForwarding, Restore, Flush, FlushRecord, Flushed, ReleaseTo, holdVars
  <2> QED BY <2>1 DEF HoldTypes
<1>4. ASSUME UNCHANGED <<heldVars, forwardVars>>, default' \in {"held", "previous"},
             handler' \in [Logger -> {"held", "previous"}], ui' \in {"reading", "updating", "ended"},
             signal' \in BOOLEAN
      PROVE  HoldTypes'
  BY <1>3, <1>4 DEF HoldTypes
<1>5. signal' = signal => signal' \in BOOLEAN
  BY DEF HoldTypes
<1>6. ASSUME NEW w \in Logger, Log(w) PROVE HoldTypes'
  <2>1. PICK h \in {default, handler[w]} : handler' = [handler EXCEPT ![w] = h]
    BY <1>6 DEF Log
  <2>2. handler' \in [Logger -> {"held", "previous"}]
    BY <1>1, <2>1
  <2>3. UNCHANGED <<heldVars, forwardVars, default, ui, signal>>
    BY <1>6 DEF Log
  <2> QED BY <1>1, <1>4, <1>5, <2>2, <2>3
<1>7. ASSUME NEW w \in Logger, Handle(w) PROVE HoldTypes'
  <2>1. UNCHANGED <<handler, default, forwardVars, ui>>
    BY <1>7 DEF Handle
  <2>2. CASE UNCHANGED <<heldVars, signal>>
    BY <1>1, <1>4, <1>5, <2>1, <2>2
  <2>3. CASE /\ held' = Append(held, Rec(w))
             /\ warned' = warned + IF logging[w] = "warn" THEN 1 ELSE 0
             /\ signal' = (signal \/ logging[w] = "warn")
    <3>1. Len(held') = Len(held) + 1
      BY <2>3 DEF LogTypeOK
    <3>2. warned' = warned \/ warned' = warned + 1
      BY <1>2, <2>3
    <3>3. warned' <= Len(held') /\ told' <= warned'
      BY <1>2, <2>1, <3>1, <3>2
    <3>4. signal' \in BOOLEAN
      BY <2>3
    <3> QED BY <1>1, <1>3, <2>1, <3>3, <3>4 DEF HoldTypes
  <2> QED BY <1>7, <2>2, <2>3 DEF Handle
<1>8. ASSUME NEW w \in Logger, Write(w) PROVE HoldTypes'
  BY <1>1, <1>4, <1>5, <1>8 DEF Write
<1>9. CASE Forward
  <2>1. signal' \in BOOLEAN
    BY <1>5, <1>9 DEF Forward
  <2>2. /\ UNCHANGED <<heldVars, default, handler, ui, told>>
        /\ forwarding' \in {"signalled", "over"}
    BY <1>9 DEF Forward
  <2> QED BY <1>1, <1>2, <1>3, <2>1, <2>2 DEF HoldTypes
<1>10. CASE Notify
  <2>1. told' = warned /\ forwarding' = "notifying" /\ UNCHANGED <<heldVars, default, handler, ui, signal>>
    BY <1>10 DEF Notify
  <2>2. warned' <= Len(held') /\ told' <= warned'
    BY <1>2, <2>1
  <2> QED BY <1>1, <1>3, <1>5, <2>1, <2>2 DEF HoldTypes
<1>11. CASE NotifyReturns
  <2>1. forwarding' = "waiting" /\ ui' \in {ui, "updating"} /\ UNCHANGED <<heldVars, default, handler, told, signal>>
    BY <1>11 DEF NotifyReturns
  <2> QED BY <1>1, <1>2, <1>3, <1>5, <2>1 DEF HoldTypes
<1>12. CASE Loop
  BY <1>1, <1>4, <1>5, <1>12 DEF Loop
<1>13. CASE CloseReleased \/ WaitForForwarding \/ Restore \/ Flush \/ FlushRecord \/ Flushed
  <2>1. UNCHANGED <<handler, heldVars, forwardVars, signal, ui>> /\ default' \in {default, "previous"}
    BY <1>13 DEF CloseReleased, WaitForForwarding, Restore, Flush, FlushRecord, Flushed, ReleaseTo
  <2> QED BY <1>1, <1>4, <1>5, <2>1
<1>14. CASE UNCHANGED holdVars
  BY <1>1, <1>4, <1>5, <1>14 DEF holdVars
<1> QED BY <1>6, <1>7, <1>8, <1>9, <1>10, <1>11, <1>12, <1>13, <1>14 DEF HoldStep
-----------------------------------------------------------------------------
(* The types of ProfileMenu. *)

(* What of the menu is about the profiles and the logins. *)
FilesTyped ==
  /\ file \in Profiles /\ memory \in Profiles
  /\ holder \in {"menu", "login", "other", "nobody"} /\ writer \in {"menu", "login", "other"}
  /\ touched \subseteq Entry /\ unguarded \in BOOLEAN
  /\ logins \in Seq(Profile) /\ loginKeys \in 0..MaxLoginKeys
  /\ login \in [of : Profile \cup {NoProfile},
                step : {"none", "started", "locked", "ended", "failed"}]
  /\ login.step # "none" => login.of \in Profile

(* What is under way for a form. *)
UnderWay(f) == {m \in pending : m.form = f}

(* What of it is about the form: what is under way is of one that was opened, and for the *)
(* one that is open there is one.                                                         *)
FormTyped ==
  /\ mode \in {"list", "form", "deletion", "quit"} /\ quitAfterForm \in BOOLEAN
  /\ original \in Profile \cup {NoProfile} /\ typed \in Endpoint \cup {NoProfile}
  /\ workspacesFor \in Endpoint \cup {NoProfile}
  /\ forms \in 0..MaxForms /\ changes \in 0..MaxForms /\ forms + changes <= MaxForms
  /\ form \in 0..forms
  /\ pending \subseteq Message /\ \A m \in pending : m.form <= forms
  /\ mode = "form" => \E m \in pending : UnderWay(form) = {m}

(* So every variable of the menu keeps its type, and an open form has one message under   *)
(* way.                                                                                   *)
LEMMA MenuTyped == FilesTyped /\ FormTyped => MenuTypeOK
<1> SUFFICES ASSUME FilesTyped, FormTyped PROVE MenuTypeOK
  OBVIOUS
<1>1. mode = "form" => Cardinality({m \in pending : m.form = form}) = 1
  <2> SUFFICES ASSUME mode = "form" PROVE Cardinality(UnderWay(form)) = 1
    BY DEF UnderWay
  <2>1. PICK m \in pending : UnderWay(form) = {m}
    BY DEF FormTyped
  <2> QED BY <2>1, FS_Singleton
<1> QED BY <1>1 DEF FilesTyped, FormTyped, MenuTypeOK

(* A profile or the current one set anew. *)
LEMMA ProfilesSet ==
  ASSUME NEW p \in Profiles
  PROVE  /\ \A n \in Profile, e \in Endpoint \cup {NoProfile} : [p EXCEPT ![n] = e] \in Profiles
         /\ \A c \in Profile \cup {NoProfile} : [p EXCEPT ![Current] = c] \in Profiles
<1> DEFINE A == Endpoint \cup Profile \cup {NoProfile}
<1>1. p \in [Entry -> A] /\ Current \notin Profile
  BY MenuAssumption DEF Profiles
<1>2. /\ \A n \in Profile : p[n] \in Endpoint \cup {NoProfile}
      /\ p[Current] \in Profile \cup {NoProfile}
  BY DEF Profiles
<1>3. ASSUME NEW n \in Profile, NEW e \in Endpoint \cup {NoProfile} PROVE [p EXCEPT ![n] = e] \in Profiles
  <2> DEFINE q == [p EXCEPT ![n] = e]
  <2>1. q \in [Entry -> A]
    BY <1>1 DEF Entry
  <2>2. q[Current] = p[Current] /\ \A m \in Profile : q[m] = IF m = n THEN e ELSE p[m]
    BY <1>1 DEF Entry
  <2> HIDE DEF q
  <2> QED BY <1>2, <2>1, <2>2 DEF Profiles, q
<1>4. ASSUME NEW c \in Profile \cup {NoProfile} PROVE [p EXCEPT ![Current] = c] \in Profiles
  <2> DEFINE q == [p EXCEPT ![Current] = c]
  <2>1. q \in [Entry -> A]
    BY <1>1 DEF Entry
  <2>2. q[Current] = c /\ \A m \in Profile : q[m] = p[m]
    BY <1>1 DEF Entry
  <2> HIDE DEF q
  <2> QED BY <1>2, <2>1, <2>2 DEF Profiles, q
<1> QED BY <1>3, <1>4

(* What is put and removed leaves profiles. *)
LEMMA PutTyped ==
  ASSUME NEW p \in Profiles, NEW o \in Profile \cup {NoProfile}, NEW n \in Profile, NEW e \in Endpoint
  PROVE  Put(p, o, n, e) \in Profiles
<1> DEFINE without == IF o = NoProfile THEN p ELSE PutAside(p, o)
           put == [without EXCEPT ![n] = e]
           c == IF put[Current] \in {o, NoProfile} THEN n ELSE put[Current]
<1>1. without \in Profiles
  BY ProfilesSet DEF PutAside
<1> HIDE DEF without
<1>2. put \in Profiles
  BY <1>1, ProfilesSet
<1> HIDE DEF put
<1>3. c \in Profile \cup {NoProfile}
  BY <1>2 DEF Profiles
<1> HIDE DEF c
<1>4. [put EXCEPT ![Current] = c] \in Profiles
  BY <1>2, <1>3, ProfilesSet
<1>5. Put(p, o, n, e) = [put EXCEPT ![Current] = c]
  BY DEF Put, put, c, without
<1> QED BY <1>4, <1>5

(* And so does what is removed.                                                           *)
LEMMA RemoveTyped ==
  ASSUME NEW p \in Profiles, NEW n \in Profile
  PROVE  RemoveProfile(p, n) \in Profiles
<1> DEFINE left == Stored(p) \ {n}
           aside == PutAside(p, n)
           c == IF aside[Current] # n THEN aside[Current]
                ELSE IF Cardinality(left) = 1 THEN CHOOSE m \in left : TRUE ELSE NoProfile
<1>1. aside \in Profiles
  BY ProfilesSet DEF PutAside
<1>2. left \subseteq Profile
  BY DEF Stored
<1> HIDE DEF left, aside
<1>3. Cardinality(left) = 1 => left # {}
  BY FS_EmptySet
<1>4. aside[Current] \in Profile \cup {NoProfile}
  BY <1>1 DEF Profiles
<1>5. c \in Profile \cup {NoProfile}
  BY <1>2, <1>3, <1>4
<1> HIDE DEF c
<1>6. [aside EXCEPT ![Current] = c] \in Profiles
  BY <1>1, <1>5, ProfilesSet
<1>7. RemoveProfile(p, n) = [aside EXCEPT ![Current] = c]
  BY DEF RemoveProfile, aside, left, c
<1> QED BY <1>6, <1>7

(* The menu begins with the profiles that it has loaded.                                  *)
LEMMA FilesTypedBegin == Init => FilesTyped
<1> SUFFICES ASSUME MenuInit PROVE FilesTyped
  BY DEF Init, PersonInit
<1>1. file \in Profiles
  <2>1. file \in [Entry -> Endpoint \cup Profile \cup {NoProfile}]
    BY MenuAssumption DEF MenuInit, Entry
  <2>2. \A n \in Profile : file[n] \in Endpoint \cup {NoProfile}
    BY MenuAssumption DEF MenuInit, Entry
  <2>3. file[Current] \in Profile \cup {NoProfile}
    BY MenuAssumption DEF MenuInit, Entry
  <2> QED BY <2>1, <2>2, <2>3 DEF Profiles
<1>2. memory \in Profiles /\ holder = "menu" /\ writer = "menu" /\ touched \subseteq Entry
  BY <1>1 DEF MenuInit
<1>3. unguarded \in BOOLEAN
  BY DEF MenuInit
<1>4. logins \in Seq(Profile) /\ loginKeys \in 0..MaxLoginKeys
  BY MenuAssumption DEF MenuInit
<1>5. /\ login.step = "none"
      /\ login \in [of : Profile \cup {NoProfile}, step : {"none", "started", "locked", "ended", "failed"}]
  BY DEF MenuInit, NoLogin
<1> QED BY <1>1, <1>2, <1>3, <1>4, <1>5 DEF FilesTyped

(* What a step does with the profiles and the logins.                                     *)
LEMMA FilesTypedNext == FilesTyped /\ FormTyped /\ (MenuStep \/ UNCHANGED menuVars) => FilesTyped'
<1> SUFFICES ASSUME FilesTyped, FormTyped, MenuStep \/ UNCHANGED menuVars PROVE FilesTyped'
  OBVIOUS
<1> USE DEF fileVars, execVars
<1>1. file \in Profiles /\ memory \in Profiles /\ Unlocked \in {"menu", "login", "other", "nobody"}
  BY DEF FilesTyped, Unlocked
\* the steps that leave the profiles and the logins alone
<1>2. ASSUME UNCHANGED <<file, memory, writer, execVars, touched>>,
             holder' \in {holder, "nobody", "menu", "other"}, unguarded' \in BOOLEAN
      PROVE  FilesTyped'
  BY <1>2 DEF FilesTyped
\* the keys that store
<1>3. ASSUME NEW p \in Profiles, Store(p), UNCHANGED execVars,
             holder' \in {holder, "nobody"}, unguarded' \in BOOLEAN
      PROVE  FilesTyped'
  <2>1. memory' \in Profiles /\ file' \in Profiles /\ writer' \in {"menu", "login", "other"}
    BY <1>1, <1>3 DEF Store, FilesTyped
  <2>2. touched' \subseteq Entry
    BY <1>3 DEF Store, FilesTyped, Differs
  <2>3. holder' \in {"menu", "login", "other", "nobody"}
    BY <1>3 DEF FilesTyped
  <2> QED BY <1>3, <2>1, <2>2, <2>3 DEF FilesTyped
<1>4. ASSUME Key PROVE unguarded' \in BOOLEAN
  BY <1>4 DEF Key
<1>5. ASSUME Finish PROVE UNCHANGED execVars /\ holder' \in {holder, "nobody"}
  BY <1>5 DEF Finish, Unlocked
<1>6. CASE PressAdd \/ Quit \/ Cancelled \/ (\E e \in Endpoint \cup {NoProfile} : Type(e))
           \/ \E n \in Profile : PressEdit(n) \/ PressDelete(n)
  <2>1. unguarded' \in BOOLEAN
    BY <1>4, <1>6 DEF PressAdd, Quit, Cancelled, Type, PressEdit, PressDelete
  <2>2. UNCHANGED <<file, memory, writer, execVars, touched>> /\ holder' \in {holder, "nobody"}
    BY <1>5, <1>6 DEF PressAdd, Quit, Cancelled, Type, PressEdit, PressDelete, StaysIn, Unlocked
  <2> QED BY <1>2, <2>1, <2>2
<1>7. ASSUME NEW n \in Profile, PressUse(n) PROVE FilesTyped'
  <2>1. [memory EXCEPT ![Current] = n] \in Profiles
    BY <1>1, ProfilesSet
  <2>2. unguarded' \in BOOLEAN
    BY <1>4, <1>7 DEF PressUse
  <2>3. /\ Store([memory EXCEPT ![Current] = n]) /\ UNCHANGED execVars
        /\ holder' \in {holder, "nobody"}
    BY <1>7 DEF PressUse, StaysIn
  <2> QED BY <1>3, <2>1, <2>2, <2>3
<1>8. ASSUME NEW n \in Profile, PressLogin(n) PROVE FilesTyped'
  <2>1. unguarded' \in BOOLEAN
    BY <1>4, <1>8 DEF PressLogin
  <2>2. /\ UNCHANGED <<file, memory, writer, login, touched>>
        /\ holder' \in {"menu", "login", "other", "nobody"}
    BY <1>1, <1>8 DEF PressLogin
  <2>3. logins' \in Seq(Profile)
    BY <1>8 DEF PressLogin, FilesTyped
  <2>4. loginKeys' \in 0..MaxLoginKeys
    BY <1>8, MenuAssumption DEF PressLogin, FilesTyped
  <2> QED BY <2>1, <2>2, <2>3, <2>4 DEF FilesTyped
<1>9. ASSUME NEW n \in Profile, Submitted(n) PROVE FilesTyped'
  <2>1. typed \in Endpoint /\ original \in Profile \cup {NoProfile}
    BY <1>9 DEF Submitted, FormTyped
  <2>2. Put(memory, original, n, typed) \in Profiles
    BY <1>1, <2>1, PutTyped
  <2>3. unguarded' \in BOOLEAN /\ UNCHANGED execVars /\ holder' \in {holder, "nobody"}
    BY <1>4, <1>5, <1>9 DEF Submitted
  <2>4. Store(Put(memory, original, n, typed)) \/ UNCHANGED <<file, writer, memory, touched>>
    BY <1>9 DEF Submitted
  <2> QED BY <1>2, <1>3, <2>2, <2>3, <2>4
<1>10. CASE Confirmed
  <2>1. unguarded' \in BOOLEAN /\ UNCHANGED execVars /\ holder' \in {holder, "nobody"}
    BY <1>4, <1>5, <1>10 DEF Confirmed
  <2>2. \/ original \in Profile /\ Store(RemoveProfile(memory, original))
        \/ UNCHANGED <<file, writer, memory, touched>>
    BY <1>10 DEF Confirmed, Highlighted, Stored
  <2>3. original \in Profile => RemoveProfile(memory, original) \in Profiles
    BY <1>1, RemoveTyped
  <2> QED BY <1>2, <1>3, <2>1, <2>2, <2>3
<1>11. CASE OtherLocks \/ \E m \in pending : WorkspacesLookedUp(m) \/ WorkspaceLookupDue(m)
  <2>1. /\ UNCHANGED <<file, memory, writer, execVars, touched>>
        /\ holder' \in {holder, "nobody", "menu", "other"}
    BY <1>11 DEF OtherLocks, WorkspacesLookedUp, WorkspaceLookupDue
  <2>2. unguarded' = unguarded
    BY <1>11 DEF OtherLocks, WorkspacesLookedUp, WorkspaceLookupDue
  <2>3. unguarded' \in BOOLEAN
    BY <2>2 DEF FilesTyped
  <2> QED BY <1>2, <2>1, <2>3
\* the logins
<1>12. ASSUME UNCHANGED <<writer, memory, logins, loginKeys, touched, unguarded, file>>,
              holder' \in {"menu", "login", "other", "nobody"},
              login'.of = login.of /\ login'.step \in {"locked", "ended", "failed"},
              login' \in [of : Profile \cup {NoProfile}, step : {"none", "started", "locked", "ended", "failed"}],
              login.step # "none"
       PROVE  FilesTyped'
  BY <1>12 DEF FilesTyped
<1>13. ASSUME NEW from, NEW to \in {"locked", "ended", "failed"}, from # "none", LoginStep(from, to)
       PROVE  /\ UNCHANGED <<memory, logins, loginKeys, touched, unguarded>>
              /\ login'.of = login.of /\ login'.step = to /\ login.step # "none"
              /\ login' \in [of : Profile \cup {NoProfile}, step : {"none", "started", "locked", "ended", "failed"}]
  BY <1>13 DEF LoginStep, FilesTyped
<1>14. CASE LoginLocks
  BY <1>12, <1>13, <1>14 DEF LoginLocks
<1>15. CASE LoginFails
  <2>1. /\ UNCHANGED <<file, writer>> /\ holder' \in {"menu", "login", "other", "nobody"}
        /\ LoginStep("started", "failed") \/ LoginStep("locked", "failed")
    BY <1>15 DEF LoginFails, FilesTyped
  <2> QED BY <1>12, <1>13, <2>1
<1>16. CASE LoginStores
  <2>1. /\ UNCHANGED <<memory, logins, loginKeys, touched, unguarded>>
        /\ login'.of = login.of /\ login'.step = "ended" /\ login.step # "none"
        /\ login' \in [of : Profile \cup {NoProfile}, step : {"none", "started", "locked", "ended", "failed"}]
    BY <1>13, <1>16 DEF LoginStores
  <2>2. login.of \in Profile
    BY <2>1 DEF FilesTyped
  <2>3. PICK e \in Endpoint :
          file' = [file EXCEPT ![Current] = login.of, ![login.of] = IF @ = NoProfile THEN e ELSE @]
    BY <1>16 DEF LoginStores
  <2> DEFINE now == [file EXCEPT ![Current] = login.of]
             v == IF file[login.of] = NoProfile THEN e ELSE file[login.of]
  <2>4. now \in Profiles
    BY <1>1, <2>2, ProfilesSet
  <2>5. Current # login.of
    BY <2>2, MenuAssumption
  <2>6. file' = [now EXCEPT ![login.of] = v]
    BY <2>3, <2>5
  <2> HIDE DEF now
  <2>7. v \in Endpoint \cup {NoProfile}
    BY <1>1, <2>2 DEF Profiles
  <2> HIDE DEF v
  <2>8. file' \in Profiles
    BY <2>2, <2>4, <2>6, <2>7, ProfilesSet
  <2>9. writer' \in {"menu", "login", "other"} /\ holder' \in {"menu", "login", "other", "nobody"}
    BY <1>16 DEF LoginStores
  <2> QED BY <2>1, <2>2, <2>8, <2>9 DEF FilesTyped
<1>17. CASE Exec
  <2>1. /\ UNCHANGED <<file, holder, writer, memory, loginKeys, touched, unguarded>>
        /\ logins # <<>> /\ login' = [of |-> Head(logins), step |-> "started"] /\ logins' = Tail(logins)
    BY <1>17 DEF Exec
  <2>2. Head(logins) \in Profile /\ logins' \in Seq(Profile)
    BY <2>1 DEF FilesTyped
  <2>3. /\ login' \in [of : Profile \cup {NoProfile}, step : {"none", "started", "locked", "ended", "failed"}]
        /\ login'.of \in Profile
    BY <2>1, <2>2
  <2> QED BY <2>1, <2>2, <2>3 DEF FilesTyped
<1>18. CASE LoggedIn \/ LoginEnds
  <2>1. /\ login'.step = "none"
        /\ login' \in [of : Profile \cup {NoProfile}, step : {"none", "started", "locked", "ended", "failed"}]
    BY <1>18 DEF LoggedIn, LoginEnds, NoLogin
  <2>2. /\ UNCHANGED <<file, writer, logins, loginKeys, unguarded>> /\ memory' \in {memory, file}
        /\ touched' \subseteq touched /\ holder' \in {"menu", Unlocked}
    BY <1>18 DEF LoggedIn, LoginEnds
  <2>3. /\ memory' \in Profiles /\ touched' \subseteq Entry
        /\ holder' \in {"menu", "login", "other", "nobody"}
    BY <1>1, <2>2 DEF FilesTyped
  <2> QED BY <2>1, <2>2, <2>3 DEF FilesTyped
<1>19. ASSUME NEW n \in Profile, NEW e \in Endpoint, OtherStores(n, e) PROVE FilesTyped'
  <2>1. file' \in {Put(file, IF file[n] = NoProfile THEN NoProfile ELSE n, n, e),
                   RemoveProfile(file, n), [file EXCEPT ![Current] = n]}
    BY <1>19 DEF OtherStores
  <2>2. /\ Put(file, NoProfile, n, e) \in Profiles /\ Put(file, n, n, e) \in Profiles
        /\ RemoveProfile(file, n) \in Profiles
    BY <1>1, PutTyped, RemoveTyped
  <2>3. [file EXCEPT ![Current] = n] \in Profiles
    BY <1>1, ProfilesSet
  <2>4. file' \in Profiles
    BY <2>1, <2>2, <2>3
  <2>5. /\ UNCHANGED <<memory, execVars, touched, unguarded>>
        /\ writer' = "other" /\ holder' = "nobody"
    BY <1>19 DEF OtherStores
  <2> QED BY <2>4, <2>5 DEF FilesTyped
<1>20. CASE UNCHANGED menuVars
  <2>1. unguarded' \in BOOLEAN
    BY <1>20 DEF menuVars, FilesTyped
  <2> QED BY <1>2, <1>20, <2>1 DEF menuVars
<1> QED BY <1>6, <1>7, <1>8, <1>9, <1>10, <1>11, <1>14, <1>15, <1>16, <1>17, <1>18, <1>19, <1>20
        DEF MenuStep, Pressed

(* A form of its own command is the first.                                                *)
LEMMA FormTypedBegin == Init => FormTyped
<1> SUFFICES ASSUME MenuInit, file \in Profiles PROVE FormTyped
  BY FilesTypedBegin DEF Init, PersonInit, FilesTyped
<1>1. Stored(memory) \subseteq Profile /\ memory \in Profiles
  BY DEF MenuInit, Stored
<1>2. original \in Profile \cup {NoProfile}
  BY <1>1 DEF MenuInit
<1>3. typed \in Endpoint \cup {NoProfile}
  BY <1>1, <1>2 DEF MenuInit, Profiles
<1>4. workspacesFor = NoProfile /\ changes = 0
  BY DEF MenuInit
<1>5. CASE quitAfterForm
  <2>1. form = 1 /\ forms = 1 /\ pending = {LookUp(1, typed, NoProfile)} /\ mode = "form"
    BY <1>5 DEF MenuInit
  <2>2. LookUp(1, typed, NoProfile) \in Message /\ LookUp(1, typed, NoProfile).form = 1
    BY <1>3, MenuAssumption DEF LookUp, Tick, Message
  <2>3. UnderWay(form) = {LookUp(1, typed, NoProfile)}
    BY <2>1, <2>2 DEF UnderWay
  <2>4. forms \in 0..MaxForms /\ changes \in 0..MaxForms /\ forms + changes <= MaxForms /\ form \in 0..forms
    BY <1>4, <2>1, MenuAssumption
  <2>5. quitAfterForm \in BOOLEAN
    BY <1>5
  <2>6. \A m \in pending : m.form <= forms
    BY <2>1, <2>2
  <2>7. pending \subseteq Message /\ mode = "form" /\ \E m \in pending : UnderWay(form) = {m}
    BY <2>1, <2>2, <2>3
  <2> QED BY <1>2, <1>3, <1>4, <2>4, <2>5, <2>6, <2>7 DEF FormTyped
<1>6. CASE ~quitAfterForm
  <2>1. form = 0 /\ forms = 0 /\ pending = {} /\ mode = "list"
    BY <1>6 DEF MenuInit
  <2>2. forms \in 0..MaxForms /\ changes \in 0..MaxForms /\ forms + changes <= MaxForms /\ form \in 0..forms
    BY <1>4, <2>1, MenuAssumption
  <2>3. quitAfterForm \in BOOLEAN
    BY DEF MenuInit
  <2> QED BY <1>2, <1>3, <1>4, <2>1, <2>2, <2>3 DEF FormTyped
<1> QED BY <1>5, <1>6

(* A lookup or tick of a form is a message of it. *)
LEMMA LooksUp ==
  ASSUME NEW f \in 1..MaxForms, NEW e \in Endpoint \cup {NoProfile}, NEW s
  PROVE  /\ LookUp(f, e, s) \in Message /\ LookUp(f, e, s).form = f
         /\ Tick(f) \in Message /\ Tick(f).form = f
<1>1. Tick(f) \in Message /\ Tick(f).form = f
  BY DEF Tick, Message
<1>2. (\E n \in Profile : memory[n] = e) \in BOOLEAN
  OBVIOUS
<1> QED BY <1>1, <1>2 DEF LookUp, Message

(* The steps that leave what is under way alone, and open no form. *)
LEMMA FormStays ==
  ASSUME FormTyped, UNCHANGED <<quitAfterForm, pending, forms>>,
         original' \in Profile \cup {NoProfile}, typed' \in Endpoint \cup {NoProfile},
         workspacesFor' \in Endpoint \cup {NoProfile},
         changes' = changes \/ (forms + changes < MaxForms /\ changes' = changes + 1),
         \/ UNCHANGED <<mode, form>>
         \/ mode' \in {"list", "deletion", "quit"} /\ form' \in {form, 0}
  PROVE  FormTyped'
<1>1. changes' \in 0..MaxForms /\ forms' \in 0..MaxForms /\ forms' + changes' <= MaxForms /\ form' \in 0..forms'
  BY MenuAssumption DEF FormTyped
<1>2. \A m \in pending' : m.form <= forms'
  BY DEF FormTyped
<1>3. mode' = "form" => \E m \in pending : UnderWay(form) = {m}
  BY DEF FormTyped
<1>4. mode' = "form" => UnderWay(form)' = UnderWay(form)
  BY DEF UnderWay
<1>5. quitAfterForm' \in BOOLEAN
  BY DEF FormTyped
<1>6. (mode = "form" => \E m \in pending : UnderWay(form) = {m})'
  BY <1>3, <1>4
<1>7. mode' \in {"list", "form", "deletion", "quit"} /\ pending' \subseteq Message
  BY DEF FormTyped
<1> QED BY <1>1, <1>2, <1>5, <1>6, <1>7 DEF FormTyped

(* The steps that close the form, and leave what is under way or end the program. *)
LEMMA FormCloses ==
  ASSUME FormTyped, UNCHANGED <<quitAfterForm, forms, changes>>, CloseForm,
         mode' \in {"list", "quit"}, pending' \subseteq pending
  PROVE  FormTyped'
<1>1. forms' \in 0..MaxForms /\ changes' \in 0..MaxForms /\ forms' + changes' <= MaxForms /\ form' \in 0..forms'
  BY MenuAssumption DEF FormTyped, CloseForm
<1>2. \A m \in pending' : m.form <= forms'
  BY DEF FormTyped
<1>3. quitAfterForm' \in BOOLEAN
  BY DEF FormTyped
<1> QED BY <1>1, <1>2, <1>3 DEF FormTyped, CloseForm

(* The answer to a lookup, or the tick after it. *)
LEMMA FormAnswered ==
  ASSUME FormTyped, NEW m \in pending, NEW a, Answered(m, a),
         form \in 1..MaxForms => a \in Message /\ a.form = form,
         UNCHANGED <<quitAfterForm, mode, original, typed, form, forms, changes>>,
         workspacesFor' \in Endpoint \cup {NoProfile}
  PROVE  FormTyped'
<1>1. /\ forms \in 0..MaxForms /\ form \in 0..forms /\ pending \subseteq Message
      /\ \A n \in pending : n.form <= forms
  BY DEF FormTyped
<1>2. forms' \in 0..MaxForms /\ changes' \in 0..MaxForms /\ forms' + changes' <= MaxForms /\ form' \in 0..forms'
  BY DEF FormTyped
<1>3. m.form \in 1..MaxForms
  BY <1>1 DEF Message
<1>4. quitAfterForm' \in BOOLEAN
  BY DEF FormTyped
<1>5. CASE m.form = form
  <2>1. a \in Message /\ a.form = form /\ pending' = (pending \ {m}) \cup {a}
    BY <1>3, <1>5 DEF Answered
  <2>2. pending' \subseteq Message /\ \A n \in pending' : n.form <= forms'
    BY <1>1, <2>1, MenuAssumption
  <2>3. ASSUME mode = "form" PROVE UnderWay(form)' = {a}
    <3>1. PICK n \in pending : UnderWay(form) = {n}
      BY <2>3 DEF FormTyped
    <3>2. n = m
      BY <1>5, <3>1 DEF UnderWay
    <3> QED BY <2>1, <3>1, <3>2 DEF UnderWay
  <2>4. (mode = "form" => \E n \in pending : UnderWay(form) = {n})'
    BY <2>1, <2>3
  <2> QED BY <1>2, <1>4, <2>2, <2>4 DEF FormTyped
<1>6. CASE m.form # form
  <2>1. pending' = pending \ {m}
    BY <1>6 DEF Answered
  <2>2. UnderWay(form)' = UnderWay(form)
    BY <1>6, <2>1 DEF UnderWay
  <2>3. UnderWay(form)' \subseteq pending'
    BY DEF UnderWay
  <2>4. (mode = "form" => \E n \in pending : UnderWay(form) = {n})'
    BY <2>2, <2>3 DEF FormTyped
  <2>5. pending' \subseteq Message /\ \A n \in pending' : n.form <= forms'
    BY <1>1, <2>1
  <2> QED BY <1>2, <1>4, <2>4, <2>5 DEF FormTyped
<1> QED BY <1>5, <1>6

(* What a step does with the form and what is under way.                                  *)
LEMMA FormTypedNext == FilesTyped /\ FormTyped /\ (MenuStep \/ UNCHANGED menuVars) => FormTyped'
<1> SUFFICES ASSUME FilesTyped, FormTyped, MenuStep \/ UNCHANGED menuVars PROVE FormTyped'
  OBVIOUS
<1> USE DEF fileVars, execVars, formVars
<1>1. /\ original \in Profile \cup {NoProfile} /\ typed \in Endpoint \cup {NoProfile}
      /\ workspacesFor \in Endpoint \cup {NoProfile} /\ NoProfile \in Endpoint \cup {NoProfile}
      /\ memory \in Profiles
  BY DEF FilesTyped, FormTyped
<1>2. ASSUME NEW o \in Profile \cup {NoProfile}, NEW e \in Endpoint \cup {NoProfile}, OpenForm(o, e),
             mode' = "form", UNCHANGED <<quitAfterForm, changes>>
      PROVE  FormTyped'
  <2>1. /\ forms \in 0..MaxForms /\ changes \in 0..MaxForms /\ forms + changes < MaxForms
        /\ forms' = forms + 1 /\ form' = forms + 1
        /\ pending' = pending \cup {LookUp(forms + 1, e, NoProfile)}
    BY <1>2 DEF OpenForm, FormTyped
  <2>2. forms + 1 \in 1..MaxForms
    BY <2>1, MenuAssumption
  <2> DEFINE l == LookUp(forms + 1, e, NoProfile)
  <2>3. l \in Message /\ l.form = forms + 1
    BY <2>2, LooksUp
  <2> HIDE DEF l
  <2>4. /\ forms' \in 0..MaxForms /\ changes' \in 0..MaxForms /\ forms' + changes' <= MaxForms
        /\ form' \in 0..forms'
    BY <1>2, <2>1, MenuAssumption
  <2>5. \A m \in pending : m.form \in Nat /\ m.form <= forms
    BY DEF FormTyped, Message
  <2>6. pending' = pending \cup {l}
    BY <2>1 DEF l
  <2>7. \A m \in pending' : m.form <= forms'
    BY <2>1, <2>3, <2>5, <2>6
  <2>8. UnderWay(form)' = {l}
    BY <2>1, <2>3, <2>5, <2>6 DEF UnderWay
  <2>9. (mode = "form" => \E m \in pending : UnderWay(form) = {m})'
    BY <2>6, <2>8
  <2>10. quitAfterForm' \in BOOLEAN
    BY <1>2 DEF FormTyped
  <2>11. pending' \subseteq Message
    BY <2>3, <2>6 DEF FormTyped
  <2>12. /\ original' \in Profile \cup {NoProfile} /\ typed' \in Endpoint \cup {NoProfile}
         /\ workspacesFor' \in Endpoint \cup {NoProfile} /\ mode' \in {"list", "form", "deletion", "quit"}
    BY <1>1, <1>2 DEF OpenForm
  <2> QED BY <2>4, <2>7, <2>9, <2>10, <2>11, <2>12 DEF FormTyped
<1>3. CASE PressAdd
  BY <1>1, <1>2, <1>3 DEF PressAdd, StaysIn
<1>4. ASSUME NEW n \in Profile, PressEdit(n) PROVE FormTyped'
  <2>1. memory[n] \in Endpoint \cup {NoProfile}
    BY <1>1 DEF Profiles
  <2> QED BY <1>2, <1>4, <2>1 DEF PressEdit, StaysIn
<1>5. ASSUME NEW n \in Profile, PressDelete(n) \/ PressUse(n) \/ PressLogin(n) PROVE FormTyped'
  BY <1>1, <1>5, FormStays DEF PressDelete, PressUse, PressLogin, StaysIn
<1>6. ASSUME NEW e \in Endpoint \cup {NoProfile}, Type(e) PROVE FormTyped'
  BY <1>1, <1>6, FormStays DEF Type, StaysIn
<1>7. ASSUME Finish PROVE FormTyped'
  <2>1. /\ UNCHANGED <<quitAfterForm, forms, changes>> /\ CloseForm /\ mode' = FinishTo("list")
        /\ pending' = IF mode' = "quit" THEN {} ELSE pending
    BY <1>7 DEF Finish
  <2>2. mode' \in {"list", "quit"} /\ pending' \subseteq pending
    BY <2>1 DEF FinishTo
  <2> QED BY <2>1, <2>2, FormCloses
<1>8. CASE Cancelled \/ Confirmed \/ \E n \in Profile : Submitted(n)
  BY <1>7, <1>8 DEF Cancelled, Confirmed, Submitted
<1>9. CASE Quit \/ LoginEnds
  BY <1>9, FormCloses DEF Quit, LoginEnds
<1>10. ASSUME NEW m \in pending, WorkspacesLookedUp(m) PROVE FormTyped'
  <2>1. /\ Answered(m, Tick(form)) /\ workspacesFor' \in {typed, workspacesFor}
        /\ UNCHANGED <<quitAfterForm, mode, original, typed, form, forms, changes>>
    BY <1>10 DEF WorkspacesLookedUp
  <2>2. form \in 1..MaxForms => Tick(form) \in Message /\ Tick(form).form = form
    BY <1>1, LooksUp
  <2>3. workspacesFor' \in Endpoint \cup {NoProfile}
    BY <1>1, <2>1
  <2> QED BY <2>1, <2>2, <2>3, FormAnswered
<1>11. ASSUME NEW m \in pending, WorkspaceLookupDue(m) PROVE FormTyped'
  <2> DEFINE a == LookUp(form, typed, workspacesFor)
  <2>1. /\ Answered(m, a) /\ UNCHANGED workspacesFor
        /\ UNCHANGED <<quitAfterForm, mode, original, typed, form, forms, changes>>
    BY <1>11 DEF WorkspaceLookupDue
  <2>2. form \in 1..MaxForms => a \in Message /\ a.form = form
    BY <1>1, LooksUp
  <2> HIDE DEF a
  <2> QED BY <1>1, <2>1, <2>2, FormAnswered
<1>12. CASE Exec \/ LoginLocks \/ LoginFails \/ LoginStores \/ \E n \in Profile, e \in Endpoint : OtherStores(n, e)
  BY <1>1, <1>12, FormStays DEF Exec, LoginLocks, LoginFails, LoginStores, LoginStep, OtherStores
<1>13. CASE LoggedIn
  <2>1. /\ UNCHANGED <<quitAfterForm, pending, forms, changes>> /\ form' = 0
        /\ original' \in {original, NoProfile} /\ typed' = NoProfile /\ workspacesFor' = NoProfile
        /\ mode' \in {"list", "deletion"}
    BY <1>13 DEF LoggedIn
  <2> QED BY <1>1, <2>1, FormStays
<1>14. CASE OtherLocks
  BY <1>1, <1>14, FormStays DEF OtherLocks
<1>15. CASE UNCHANGED menuVars
  BY <1>1, <1>15, FormStays DEF menuVars
<1> QED BY <1>3, <1>4, <1>5, <1>6, <1>8, <1>9, <1>10, <1>11, <1>12, <1>13, <1>14, <1>15 DEF MenuStep, Pressed
-----------------------------------------------------------------------------
(* The types of ApiDescription. *)

(* A schema or property that is still to be read. *)
Item == [what : {"schema", "property"}, path : Seq(Nat), schema : Schemas \cup {Scalar}, refs : Seq(Component)]

(* Of what is still to be read the $refs around it lead to no component twice.            *)
WorkInv ==
  /\ describePc \in {"inlining", "inlined", "reading", "described", "failed"}
  /\ work \in Seq(Item)
  /\ describePc = "reading" =>
       /\ components \in [Component -> Schemas]
       /\ \A i \in 1..Len(work) : work[i].schema \in Schemas /\ IsInjective(work[i].refs)

(* So what is still to be read keeps its type.                                            *)
LEMMA DescribeTyped == WorkInv => DescribeTypeOK
<1> SUFFICES ASSUME WorkInv PROVE DescribeTypeOK
  OBVIOUS
<1>1. \A i \in DOMAIN work : work[i] \in Item
  BY DEF WorkInv
<1> QED BY <1>1 DEF WorkInv, DescribeTypeOK, Item

(* A chain of $refs that are followed: components, each once and none of those around it. *)
Chain(chain, refs) ==
  /\ chain \in Seq(Component) /\ IsInjective(chain)
  /\ ToSet(chain) \cap ToSet(refs) = {}

(* The chains that can be followed are of components, and bounded.                        *)
LEMMA ChainsAre == \A value, refs : \A chain \in Chains(value, refs) : Chain(chain, refs) /\ Len(chain) \in 0..Cardinality(Component)
<1> SUFFICES ASSUME NEW value, NEW refs, NEW chain \in Chains(value, refs)
             PROVE  Chain(chain, refs) /\ Len(chain) \in 0..Cardinality(Component)
  OBVIOUS
<1>1. chain \in BoundedSeq(Component, Cardinality(Component))
  BY DEF Chains
<1>2. PICK m \in 0..Cardinality(Component) : chain \in [1..m -> Component]
  BY <1>1, Zenon DEF BoundedSeq, SeqOf
<1>3. Cardinality(Component) \in Nat
  BY ComponentAssumption, FS_CardinalityType
<1>4. chain \in Seq(Component) /\ Len(chain) = m /\ DOMAIN chain = 1..Len(chain)
  BY <1>2, <1>3
<1>5. \A i \in 1..Len(chain) : chain[i] \notin ToSet(refs) /\ chain[i] \notin ToSet(SubSeq(chain, 1, i - 1))
  BY <1>4 DEF Chains
<1>6. ToSet(chain) \cap ToSet(refs) = {}
  BY <1>4, <1>5 DEF ToSet
<1>7. ASSUME NEW i \in 1..Len(chain), NEW j \in 1..(i - 1) PROVE chain[i] # chain[j]
  <2>1. i - 1 \in Nat /\ \A k \in 1..(i - 1) : chain[k] \in Component
    BY <1>4
  <2>2. SubSeq(chain, 1, i - 1) \in Seq(Component) /\ Len(SubSeq(chain, 1, i - 1)) = i - 1
        /\ SubSeq(chain, 1, i - 1)[j] = chain[j]
    BY <1>4, <2>1
  <2>3. DOMAIN SubSeq(chain, 1, i - 1) = 1..(i - 1)
    BY <2>2
  <2>4. chain[j] \in ToSet(SubSeq(chain, 1, i - 1))
    BY <2>2, <2>3, Zenon DEF ToSet
  <2> QED BY <1>5, <2>4
<1>8. IsInjective(chain)
  <2> SUFFICES ASSUME NEW i \in 1..Len(chain), NEW j \in 1..Len(chain), chain[i] = chain[j] PROVE i = j
    BY <1>4 DEF IsInjective
  <2>1. ~(j < i) /\ ~(i < j)
    BY <1>4, <1>7
  <2> QED BY <1>4, <2>1
<1> QED BY <1>2, <1>3, <1>4, <1>6, <1>8 DEF Chain

(* There is a longest one. *)
LEMMA LongestChain ==
  ASSUME NEW value, NEW refs
  PROVE  \E c \in Chains(value, refs) : \A d \in Chains(value, refs) : Len(d) <= Len(c)
<1> DEFINE N == Cardinality(Component)
           C == Chains(value, refs)
           L == {Len(c) : c \in C}
<1>1. N \in Nat
  BY ComponentAssumption, FS_CardinalityType
<1>2. <<>> \in C
  <2>1. <<>> \in [1..0 -> Component] /\ 0 \in 0..N
    BY <1>1
  <2>2. <<>> \in BoundedSeq(Component, N)
    BY <2>1, Zenon DEF BoundedSeq, SeqOf
  <2>3. DOMAIN <<>> = {}
    OBVIOUS
  <2> QED BY <2>2, <2>3, Zenon DEF Chains
<1>3. \A c \in C : Len(c) \in 0..N
  BY ChainsAre
<1> HIDE DEF C
<1>4. L \subseteq 0..N /\ Len(<<>>) \in L
  BY <1>2, <1>3
<1>5. IsFiniteSet(0..N)
  BY <1>1, FS_Interval
<1>6. L \in SUBSET Int
  BY <1>1, <1>4
<1> HIDE DEF N
<1>7. IsFiniteSet(L) /\ L # {}
  BY <1>4, <1>5, FS_Subset
<1> HIDE DEF L
<1>8. PICK l \in L : \A m \in L : m <= l
  BY <1>6, <1>7, Greatest
<1>9. PICK c \in C : l = Len(c)
  BY <1>8 DEF L
<1>10. \A d \in C : Len(d) \in L
  BY DEF L
<1>11. \A d \in C : Len(d) <= Len(c)
  BY <1>8, <1>9, <1>10
<1> QED BY <1>9, <1>11 DEF C

(* Two sequences without a common element, and without one twice, one after the other.    *)
LEMMA Joined ==
  ASSUME NEW S, NEW s \in Seq(S), NEW t \in Seq(S), IsInjective(s), IsInjective(t),
         ToSet(t) \cap ToSet(s) = {}
  PROVE  s \o t \in Seq(S) /\ IsInjective(s \o t)
<1>1. /\ s \o t \in Seq(S) /\ Len(s \o t) = Len(s) + Len(t) /\ Len(s) \in Nat /\ Len(t) \in Nat
      /\ \A i \in 1..(Len(s) + Len(t)) : (s \o t)[i] = IF i <= Len(s) THEN s[i] ELSE t[i - Len(s)]
  OBVIOUS
<1>2. DOMAIN (s \o t) = 1..(Len(s) + Len(t)) /\ DOMAIN s = 1..Len(s) /\ DOMAIN t = 1..Len(t)
  BY <1>1
<1> DEFINE u == s \o t
<1>3. \A i \in 1..(Len(s) + Len(t)) : /\ i <= Len(s) => u[i] = s[i] /\ i \in DOMAIN s
                                      /\ ~(i <= Len(s)) => u[i] = t[i - Len(s)] /\ i - Len(s) \in DOMAIN t
  BY <1>1, <1>2
<1> HIDE DEF u
<1>4. \A i \in DOMAIN s, j \in DOMAIN t : s[i] # t[j]
  BY DEF ToSet
<1>5. /\ \A i, j \in DOMAIN s : s[i] = s[j] => i = j
      /\ \A i, j \in DOMAIN t : t[i] = t[j] => i = j
  BY DEF IsInjective
<1>6. ASSUME NEW i \in 1..(Len(s) + Len(t)), NEW j \in 1..(Len(s) + Len(t)), u[i] = u[j] PROVE i = j
  <2>1. CASE i <= Len(s) /\ j <= Len(s)
    BY <1>3, <1>5, <1>6, <2>1
  <2>2. CASE i <= Len(s) /\ ~(j <= Len(s))
    BY <1>3, <1>4, <1>6, <2>2
  <2>3. CASE ~(i <= Len(s)) /\ j <= Len(s)
    BY <1>3, <1>4, <1>6, <2>3
  <2>4. CASE ~(i <= Len(s)) /\ ~(j <= Len(s))
    <3>1. i - Len(s) = j - Len(s)
      BY <1>3, <1>5, <1>6, <2>4
    <3> QED BY <1>1, <3>1
  <2> QED BY <2>1, <2>2, <2>3, <2>4
<1>7. IsInjective(u)
  BY <1>2, <1>6 DEF IsInjective, u
<1> QED BY <1>1, <1>7 DEF u

(* What a $ref is followed to is a schema, and inside of no component twice. *)
LEMMA FollowedIs ==
  ASSUME components \in [Component -> Schemas], NEW value \in Schemas,
         NEW refs \in Seq(Component), IsInjective(refs)
  PROVE  /\ Followed(value, refs).value \in Schemas
         /\ Followed(value, refs).refs \in Seq(Component) /\ IsInjective(Followed(value, refs).refs)
<1> DEFINE C == Chains(value, refs)
           chain == CHOOSE c \in C : \A d \in C : Len(d) <= Len(c)
<1>1. chain \in C
  BY LongestChain
<1>2. Chain(chain, refs)
  BY <1>1, ChainsAre
<1>3. Followed(value, refs) = [value |-> Behind(value, chain), refs |-> refs \o chain]
  BY DEF Followed
<1> HIDE DEF chain, C
<1>4. refs \o chain \in Seq(Component) /\ IsInjective(refs \o chain)
  BY <1>2, Joined DEF Chain
<1>5. Behind(value, chain) \in Schemas
  <2>1. CASE chain = <<>>
    BY <2>1 DEF Behind
  <2>2. CASE chain # <<>>
    <3>1. Last(chain) \in Component
      BY <1>2, <2>2 DEF Chain, Last
    <3> QED BY <2>2, <3>1 DEF Behind
  <2> QED BY <2>1, <2>2
<1> QED BY <1>3, <1>4, <1>5

(* Items in front of what is left to read. *)
LEMMA ThenReads ==
  ASSUME WorkInv, describePc = "reading", work # <<>>, NEW items \in Seq(Item), Then(items),
         \A i \in 1..Len(items) : items[i].schema \in Schemas /\ IsInjective(items[i].refs),
         UNCHANGED <<describePc, components>>
  PROVE  WorkInv'
<1> DEFINE t == Tail(work)
<1>1. /\ t \in Seq(Item) /\ Len(t) \in Nat /\ \A i \in 1..Len(t) : t[i] = work[i + 1] /\ i + 1 \in 1..Len(work)
  BY DEF WorkInv
<1>2. \A i \in 1..Len(t) : t[i].schema \in Schemas /\ IsInjective(t[i].refs)
  BY <1>1 DEF WorkInv
<1>3. work' = items \o t
  BY DEF Then
<1> HIDE DEF t
<1>4. work' \in Seq(Item) /\ Len(work') = Len(items) + Len(t) /\ Len(items) \in Nat
      /\ \A i \in 1..(Len(items) + Len(t)) : work'[i] = IF i <= Len(items) THEN items[i] ELSE t[i - Len(items)]
  BY <1>1, <1>3
<1>5. ASSUME NEW i \in 1..Len(work') PROVE work'[i].schema \in Schemas /\ IsInjective(work'[i].refs)
  <2>1. CASE i <= Len(items)
    BY <1>4, <2>1
  <2>2. CASE ~(i <= Len(items))
    <3>1. work'[i] = t[i - Len(items)] /\ i - Len(items) \in 1..Len(t)
      BY <1>1, <1>4, <2>2
    <3> QED BY <1>2, <3>1
  <2> QED BY <2>1, <2>2
<1>6. components' \in [Component -> Schemas]
  BY DEF WorkInv
<1> QED BY <1>4, <1>5, <1>6 DEF WorkInv

(* A description begins with the body.                                                    *)
LEMMA WorkBegins == Init => WorkInv
<1> SUFFICES ASSUME DescribeInit PROVE WorkInv
  BY DEF Init, DocsInit
<1> DEFINE first == [what |-> "schema", path |-> <<>>, schema |-> root, refs |-> <<>>]
<1>1. work = <<first>> /\ root \in Schemas \cup {Scalar}
  BY DEF DescribeInit
<1>2. <<>> \in Seq(Nat) /\ <<>> \in Seq(Component)
  OBVIOUS
<1>3. first \in Item
  BY <1>1, <1>2 DEF Item
<1>4. IsInjective(first.refs)
  BY DEF IsInjective
<1>5. first.schema = root
  OBVIOUS
<1> HIDE DEF first
<1>6. work \in Seq(Item) /\ Len(work) = 1 /\ work[1] = first
  BY <1>1, <1>3
<1>7. describePc = "reading" => root \in Schemas /\ components \in [Component -> Schemas]
  BY DEF DescribeInit
<1>8. \A i \in 1..Len(work) : i = 1
  BY <1>6
<1>9. describePc \in {"inlining", "reading"}
  BY DEF DescribeInit
<1> QED BY <1>4, <1>5, <1>6, <1>7, <1>8, <1>9 DEF WorkInv

(* What is read next. *)
LEMMA HeadReads ==
  ASSUME WorkInv, Reading("property") \/ Reading("schema")
  PROVE  /\ describePc = "reading" /\ work # <<>> /\ components \in [Component -> Schemas]
         /\ Head(work) = work[1] /\ 1 \in 1..Len(work)
         /\ Head(work) \in Item /\ Head(work).schema \in Schemas /\ IsInjective(Head(work).refs)
<1>1. describePc = "reading" /\ work # <<>>
  BY DEF Reading
<1>2. Head(work) = work[1] /\ 1 \in 1..Len(work) /\ work[1] \in Item
  BY <1>1 DEF WorkInv
<1> QED BY <1>1, <1>2 DEF WorkInv

(* What takes its place. *)
ReadsInto(items) ==
  /\ items \in Seq(Item) /\ Then(items) /\ UNCHANGED <<describePc, components>>
  /\ \A i \in 1..Len(items) : items[i].schema \in Schemas /\ IsInjective(items[i].refs)

(* A property is read into its schema. *)
LEMMA PropertyReads ==
  ASSUME WorkInv, ReadProperty
  PROVE  \E q : /\ ReadsInto(<<q>>) /\ q.what = "schema" /\ q.path = Head(work).path
                /\ q.schema = Head(work).schema /\ q.refs = Head(work).refs
<1> USE DEF describedVars
<1> DEFINE p == Head(work)
           q == [p EXCEPT !.what = "schema"]
<1>1. /\ describePc = "reading" /\ work # <<>> /\ p \in Item /\ p.schema \in Schemas /\ IsInjective(p.refs)
  BY HeadReads DEF ReadProperty
<1>2. Then(<<q>>) /\ UNCHANGED <<describePc, components>>
  BY DEF ReadProperty
<1> HIDE DEF p
<1>3. q \in Item /\ q.schema = p.schema /\ q.refs = p.refs /\ q.what = "schema" /\ q.path = p.path
  BY <1>1 DEF Item
<1> HIDE DEF q
<1>4. <<q>> \in Seq(Item) /\ \A i \in 1..Len(<<q>>) : <<q>>[i] = q
  BY <1>3
<1>5. \A i \in 1..Len(<<q>>) : <<q>>[i].schema \in Schemas /\ IsInjective(<<q>>[i].refs)
  BY <1>1, <1>3, <1>4, Zenon
<1>6. ReadsInto(<<q>>)
  BY <1>2, <1>4, <1>5 DEF ReadsInto
<1> QED BY <1>3, <1>6 DEF p

(* Of a schema that is followed to f: its item, at place 0, or its properties from 1 on.  *)
ReadAs(items, s, f) ==
  /\ \A i \in 1..Len(items) : items[i].refs = f.refs
  /\ \/ /\ f.value.items # <<>> /\ Len(items) = 1
        /\ items[1].what = "schema" /\ items[1].schema = f.value.items[1] /\ items[1].path = Append(s.path, 0)
     \/ /\ f.value.items = <<>> /\ Len(items) = Len(f.value.properties)
        /\ \A i \in 1..Len(items) : /\ items[i].what = "property" /\ items[i].schema = f.value.properties[i]
                                    /\ items[i].path = Append(s.path, i)

(* So a schema is read. *)
LEMMA SchemaReads ==
  ASSUME WorkInv, ReadSchema
  PROVE  \E items : ReadsInto(items) /\ ReadAs(items, Head(work), Followed(Head(work).schema, Head(work).refs))
<1> USE DEF describedVars
<1> DEFINE s == Head(work)
           followed == Followed(s.schema, s.refs)
           of == followed.value
           below(what, n, schema) ==
             [what |-> what, path |-> Append(s.path, n), schema |-> schema, refs |-> followed.refs]
           item == <<below("schema", 0, of.items[1])>>
           properties == [i \in DOMAIN of.properties |-> below("property", i, of.properties[i])]
<1>1. /\ describePc = "reading" /\ work # <<>> /\ components \in [Component -> Schemas]
      /\ s \in Item /\ s.schema \in Schemas /\ IsInjective(s.refs)
  BY HeadReads DEF ReadSchema
<1>2. Then(IF of.items # <<>> THEN item ELSE properties) /\ UNCHANGED <<describePc, components>>
  BY DEF ReadSchema
<1> HIDE DEF s
<1>3. s.path \in Seq(Nat) /\ s.refs \in Seq(Component)
  BY <1>1 DEF Item
<1>4. of \in Schemas /\ followed.refs \in Seq(Component) /\ IsInjective(followed.refs)
  BY <1>1, <1>3, FollowedIs
<1> HIDE DEF followed
<1>5. of.items \in Seq(Schemas) /\ of.properties \in Seq(Schemas)
  BY <1>4, SchemaAssumption
<1>6. ASSUME NEW what \in {"schema", "property"}, NEW n \in Nat, NEW schema \in Schemas
      PROVE  /\ below(what, n, schema) \in Item /\ below(what, n, schema).schema = schema
             /\ below(what, n, schema).refs = followed.refs /\ below(what, n, schema).path = Append(s.path, n)
             /\ below(what, n, schema).what = what
  <2>1. Append(s.path, n) \in Seq(Nat)
    BY <1>3
  <2> QED BY <1>4, <2>1 DEF Item
<1>7. CASE of.items # <<>>
  <2> DEFINE b == below("schema", 0, of.items[1])
  <2>1. of.items[1] \in Schemas
    BY <1>5, <1>7
  <2>2. b \in Item /\ b.schema \in Schemas /\ b.refs = followed.refs /\ b.path = Append(s.path, 0)
        /\ b.what = "schema" /\ b.schema = of.items[1]
    BY <1>6, <2>1
  <2>3. Then(<<b>>)
    BY <1>2, <1>7
  <2> HIDE DEF b
  <2>4. <<b>> \in Seq(Item) /\ \A i \in 1..Len(<<b>>) : <<b>>[i] = b
    BY <2>2
  <2>5. \A i \in 1..Len(<<b>>) : <<b>>[i].schema \in Schemas /\ IsInjective(<<b>>[i].refs)
    BY <1>4, <2>2, <2>4, Zenon
  <2>6. ReadsInto(<<b>>)
    BY <1>2, <2>3, <2>4, <2>5 DEF ReadsInto
  <2>7. Len(<<b>>) = 1 /\ <<b>>[1] = b /\ \A i \in 1..Len(<<b>>) : <<b>>[i].refs = followed.refs
    BY <2>2, <2>4
  <2>8. ReadAs(<<b>>, s, followed)
    BY <1>7, <2>2, <2>7 DEF ReadAs
  <2> QED BY <2>6, <2>8 DEF s, followed
<1>8. CASE of.items = <<>>
  <2>1. DOMAIN of.properties = 1..Len(of.properties) /\ Len(of.properties) \in Nat
    BY <1>5
  <2>2. ASSUME NEW i \in 1..Len(of.properties)
        PROVE  /\ properties[i] \in Item /\ properties[i].schema \in Schemas
               /\ properties[i].refs = followed.refs /\ properties[i].path = Append(s.path, i)
               /\ properties[i].what = "property" /\ properties[i].schema = of.properties[i]
    <3>1. of.properties[i] \in Schemas /\ i \in Nat
      BY <1>5
    <3>2. properties[i] = below("property", i, of.properties[i])
      BY <2>1
    <3> QED BY <1>6, <3>1, <3>2
  <2>3. DOMAIN properties = 1..Len(of.properties)
    BY <2>1
  <2>4. Then(properties)
    BY <1>2, <1>8
  <2>5. properties = [i \in 1..Len(of.properties) |-> properties[i]]
    BY <2>3
  <2> HIDE DEF properties
  <2>6. properties \in Seq(Item) /\ Len(properties) = Len(of.properties)
    <3>1. properties \in [1..Len(of.properties) -> Item]
      BY <2>2, <2>5
    <3> QED BY <2>1, <3>1
  <2>7. \A i \in 1..Len(properties) : properties[i].schema \in Schemas /\ IsInjective(properties[i].refs)
    BY <1>4, <2>2, <2>6
  <2>8. ReadsInto(properties)
    BY <1>2, <2>4, <2>6, <2>7 DEF ReadsInto
  <2>9. ReadAs(properties, s, followed)
    BY <1>8, <2>2, <2>6 DEF ReadAs
  <2> QED BY <2>8, <2>9 DEF s, followed
<1> QED BY <1>7, <1>8

(* A step of a description, or beside it.                                                 *)
LEMMA WorkNext == WorkInv /\ (DescribeStep \/ UNCHANGED describeVars) => WorkInv'
<1> SUFFICES ASSUME WorkInv, DescribeStep \/ UNCHANGED describeVars PROVE WorkInv'
  OBVIOUS
<1> USE DEF describedVars
<1>1. CASE InlineOperation \/ FailInline \/ AllRead \/ FailRead
  <2>1. UNCHANGED work /\ describePc' \in {"inlined", "failed", "described"}
    BY <1>1 DEF InlineOperation, FailInline, AllRead, FailRead
  <2> QED BY <2>1 DEF WorkInv
<1>2. CASE UNCHANGED describeVars
  BY <1>2 DEF describeVars, WorkInv
<1>3. ASSUME NEW items, ReadsInto(items), Reading("property") \/ Reading("schema") PROVE WorkInv'
  BY <1>3, HeadReads, ThenReads DEF ReadsInto
<1>4. CASE ReadProperty
  BY <1>3, <1>4, PropertyReads DEF ReadProperty
<1>5. CASE ReadSchema
  BY <1>3, <1>5, SchemaReads DEF ReadSchema
<1> QED BY <1>1, <1>2, <1>4, <1>5 DEF DescribeStep
-----------------------------------------------------------------------------
(* The types of TofuExec. *)

(* How many signals there were at most.  An interrupt at a terminal may come to the       *)
(* command twice.                                                                         *)
ExecCounts ==
  /\ served \in 0..MaxServed
  /\ signals \in 0..MaxSignals /\ interrupts \in 0..signals /\ childInterrupts \in Nat
  /\ childInterrupts + (IF toForward = "interrupt" THEN 1 ELSE 0) <= 2 * interrupts

(* The rest: where exec is, what it has found and what went wrong.                        *)
ExecTypes ==
  /\ access \in {"read", "readwrite", "force"}
  /\ overrides \in BOOLEAN /\ stdinTerminal \in BOOLEAN /\ foreground \in BOOLEAN
  /\ execPc \in {"opening", "checking", "overriding", "listening", "starting", "running",
                 "closing", "removing", "ended", "killed"}
  /\ override \in {"none", "theirs", "ours"} /\ found \in {"none", "theirs", "ours"}
  /\ leftOver \in BOOLEAN
  /\ child \in {"none", "running", "ended", "notStarted"} /\ childCode \in {-1, 0, 2}
  /\ toForward \in {"none", "interrupt", "terminate"}
  /\ inHand \subseteq ServedKind
  /\ lockTimer \in BOOLEAN /\ refusals \in BOOLEAN /\ changed \in BOOLEAN
  /\ problems \subseteq Problem /\ exitCode \in {-1, 0, 1, 2}

(* So every variable of exec keeps its type.                                              *)
LEMMA ExecTyped == ExecTypes /\ ExecCounts => ExecTypeOK
<1> SUFFICES ASSUME ExecTypes, ExecCounts PROVE ExecTypeOK
  OBVIOUS
<1>1. signals \in 0..MaxSignals /\ interrupts \in 0..MaxSignals
  BY TofuExecAssumption DEF ExecCounts
<1>2. childInterrupts \in 0..(2 * MaxSignals)
  <2>1. childInterrupts \in Nat /\ childInterrupts <= 2 * interrupts /\ interrupts <= MaxSignals /\ interrupts \in Nat
    <3>1. CASE toForward = "interrupt"
      BY <1>1, <3>1, TofuExecAssumption DEF ExecCounts
    <3>2. CASE toForward # "interrupt"
      BY <1>1, <3>2, TofuExecAssumption DEF ExecCounts
    <3> QED BY <3>1, <3>2
  <2> QED BY <2>1, TofuExecAssumption
<1>3. exitCode \in -1..2
  BY DEF ExecTypes
<1> QED BY <1>1, <1>2, <1>3 DEF ExecTypes, ExecCounts, ExecTypeOK

(* A signal is counted once by exec, and at most twice by the command.                    *)
LEMMA ExecCountsNext ==
  ExecTypes /\ ExecCounts /\ (ExecStep \/ UNCHANGED tofuVars) => ExecCounts'
<1> SUFFICES ASSUME ExecTypes, ExecCounts, ExecStep \/ UNCHANGED tofuVars PROVE ExecCounts'
  OBVIOUS
<1> USE TofuExecAssumption
<1>1. ASSUME UNCHANGED <<served, signals, interrupts, childInterrupts>>, toForward' \in {toForward, "none"}
      PROVE  ExecCounts'
  <2>1. childInterrupts + 0 <= 2 * interrupts
    <3>1. CASE toForward = "interrupt"
      BY <3>1 DEF ExecCounts
    <3>2. CASE toForward # "interrupt"
      BY <3>2 DEF ExecCounts
    <3> QED BY <3>1, <3>2
  <2>2. CASE toForward' = toForward
    BY <1>1, <2>2 DEF ExecCounts
  <2>3. CASE toForward' = "none"
    BY <1>1, <2>1, <2>3 DEF ExecCounts
  <2> QED BY <1>1, <2>2, <2>3
<1>2. CASE OpenStore \/ CheckRuns \/ WriteBackendOverride \/ Listen \/ StartCommand
  BY <1>1, <1>2
  DEF OpenStore, CheckRuns, WriteBackendOverride, Listen, StartCommand, signalVars, serveVars
<1>3. ASSUME NEW atTerminal \in BOOLEAN, SendInterrupt(atTerminal) PROVE ExecCounts'
  <2>1. /\ signals < MaxSignals /\ signals' = signals + 1 /\ interrupts' = interrupts + 1
        /\ childInterrupts' \in {childInterrupts, childInterrupts + 1}
        /\ toForward' \in {toForward, "interrupt"} /\ served' = served
        /\ toForward' # toForward => toForward = "none"
    BY <1>3 DEF SendInterrupt, Catch, serveVars
  <2>2. childInterrupts + (IF toForward = "interrupt" THEN 1 ELSE 0) <= 2 * interrupts
    BY DEF ExecCounts
  <2>3. interrupts \in Nat /\ childInterrupts \in Nat /\ signals \in Nat /\ interrupts <= signals
    BY DEF ExecCounts
  <2>4. /\ childInterrupts' \in Nat /\ childInterrupts' <= childInterrupts + 1
        /\ 2 * interrupts' = 2 * interrupts + 2
    BY <2>1, <2>3
  <2>5. childInterrupts' + (IF toForward' = "interrupt" THEN 1 ELSE 0) <= 2 * interrupts'
    <3>1. CASE toForward' = "interrupt" /\ toForward = "interrupt"
      <4>1. childInterrupts + 1 <= 2 * interrupts
        BY <2>2, <3>1
      <4>2. childInterrupts' + 1 <= 2 * interrupts'
        BY <2>3, <2>4, <4>1
      <4> QED BY <3>1, <4>2
    <3>2. CASE toForward # "interrupt"
      <4>1. childInterrupts + 0 <= 2 * interrupts
        BY <2>2, <3>2
      <4>2. childInterrupts' + 1 <= 2 * interrupts' /\ childInterrupts' + 0 <= 2 * interrupts'
        BY <2>3, <2>4, <4>1
      <4>3. CASE toForward' = "interrupt"
        BY <4>2, <4>3
      <4>4. CASE toForward' # "interrupt"
        BY <4>2, <4>4
      <4> QED BY <4>3, <4>4
    <3> QED BY <2>1, <3>1, <3>2
  <2>6. signals' \in 0..MaxSignals /\ interrupts' \in 0..signals'
    BY <2>1, <2>3
  <2>7. served' \in 0..MaxServed
    BY <2>1 DEF ExecCounts
  <2> QED BY <2>4, <2>5, <2>6, <2>7 DEF ExecCounts
<1>4. CASE SendTerminate
  <2>1. /\ signals < MaxSignals /\ signals' = signals + 1 /\ UNCHANGED <<interrupts, childInterrupts, served>>
        /\ toForward' \in {toForward, "terminate"}
    BY <1>4 DEF SendTerminate, Catch
  <2>2. childInterrupts + (IF toForward = "interrupt" THEN 1 ELSE 0) <= 2 * interrupts
    BY DEF ExecCounts
  <2>3. childInterrupts' + (IF toForward' = "interrupt" THEN 1 ELSE 0) <= 2 * interrupts'
    <3>1. CASE toForward' = toForward
      BY <2>1, <2>2, <3>1
    <3>2. CASE toForward' = "terminate" /\ toForward = "interrupt"
      BY <2>1, <2>2, <3>2 DEF ExecCounts
    <3>3. CASE toForward' = "terminate" /\ toForward # "interrupt"
      BY <2>1, <2>2, <3>3 DEF ExecCounts
    <3> QED BY <2>1, <3>1, <3>2, <3>3
  <2> QED BY <2>1, <2>3 DEF ExecCounts
<1>5. CASE ForwardSignal
  <2>1. /\ toForward' = "none" /\ UNCHANGED <<signals, interrupts, served>>
        /\ \/ childInterrupts' = childInterrupts
           \/ toForward = "interrupt" /\ childInterrupts' = childInterrupts + 1
    BY <1>5 DEF ForwardSignal, serveVars
  <2>2. CASE childInterrupts' = childInterrupts
    BY <1>1, <2>1, <2>2
  <2>3. CASE toForward = "interrupt" /\ childInterrupts' = childInterrupts + 1
    BY <2>1, <2>3 DEF ExecCounts
  <2> QED BY <2>1, <2>2, <2>3
<1>6. CASE CommandEnds \/ Shutdown \/ ServeEnds \/ RemoveOverride
  BY <1>1, <1>6 DEF CommandEnds, Shutdown, ServeEnds, RemoveOverride, signalVars, serveVars
<1>7. CASE Request
  BY <1>7 DEF Request, signalVars, ExecCounts
<1>8. ASSUME NEW k \in inHand, Succeed(k) \/ FailOrPassLock(k) \/ Refuse(k) PROVE ExecCounts'
  BY <1>1, <1>8 DEF Succeed, FailOrPassLock, Refuse, Replied, signalVars
<1>9. CASE UNCHANGED tofuVars
  BY <1>1, <1>9 DEF tofuVars, signalVars, serveVars
<1> QED BY <1>2, <1>3, <1>4, <1>5, <1>6, <1>7, <1>8, <1>9 DEF ExecStep

(* A step of exec, or beside it.                                                          *)
LEMMA ExecTypesNext == ExecTypes /\ (ExecStep \/ UNCHANGED tofuVars) => ExecTypes'
<1> SUFFICES ASSUME ExecTypes, ExecStep \/ UNCHANGED tofuVars PROVE ExecTypes'
  OBVIOUS
<1> USE DEF ExecTypes, execFlags, signalVars, serveVars, ExecEnds
<1>1. CASE OpenStore \/ CheckRuns
  BY <1>1 DEF OpenStore, CheckRuns
<1>2. CASE WriteBackendOverride
  <2>1. /\ override' \in {override, "ours"} /\ execPc' \in {"listening", "ended"}
        /\ exitCode' \in {exitCode, 1}
    BY <1>2 DEF WriteBackendOverride
  <2>2. leftOver' \in BOOLEAN
    BY <1>2 DEF WriteBackendOverride
  <2> QED BY <1>2, <2>1, <2>2 DEF WriteBackendOverride
<1>3. CASE Listen \/ StartCommand
  <2>1. "serve" \in Problem
    BY DEF Problem
  <2>2. problems' \subseteq Problem
    BY <1>3, <2>1 DEF Listen, StartCommand
  <2> QED BY <1>3, <2>2 DEF Listen, StartCommand
<1>4. ASSUME NEW atTerminal \in BOOLEAN, SendInterrupt(atTerminal) PROVE ExecTypes'
  <2>1. toForward' \in {toForward, "interrupt"}
    BY <1>4 DEF SendInterrupt, Catch
  <2> QED BY <1>4, <2>1 DEF SendInterrupt
<1>5. CASE SendTerminate
  <2>1. toForward' \in {toForward, "terminate"}
    BY <1>5 DEF SendTerminate, Catch
  <2>2. execPc' \in {execPc, "killed"} /\ inHand' \in {inHand, {}}
    BY <1>5 DEF SendTerminate
  <2> QED BY <1>5, <2>1, <2>2 DEF SendTerminate
<1>6. CASE ForwardSignal \/ CommandEnds \/ Shutdown
  BY <1>6 DEF ForwardSignal, CommandEnds, Shutdown
<1>7. CASE Request
  BY <1>7 DEF Request
<1>8. ASSUME NEW k \in inHand, Succeed(k) \/ FailOrPassLock(k) \/ Refuse(k) PROVE ExecTypes'
  <2>1. /\ inHand' = inHand \ {k}
        /\ UNCHANGED <<execFlags, execPc, override, leftOver, child, childCode, signalVars, served, exitCode>>
    BY <1>8 DEF Succeed, FailOrPassLock, Refuse, Replied
  <2>2. problems' \subseteq Problem
    BY <1>8 DEF Succeed, FailOrPassLock, Refuse, Reason, Problem
  <2>3. lockTimer' \in BOOLEAN
    BY <1>8 DEF Succeed, FailOrPassLock, Refuse, Writable
  <2>4. refusals' \in BOOLEAN
    BY <1>8 DEF Succeed, FailOrPassLock, Refuse
  <2>5. changed' \in BOOLEAN
    BY <1>8 DEF Succeed, FailOrPassLock, Refuse
  <2> QED BY <2>1, <2>2, <2>3, <2>4, <2>5
<1>9. CASE ServeEnds
  <2>1. "serve" \in Problem
    BY DEF Problem
  <2>2. problems' \subseteq Problem
    BY <1>9, <2>1 DEF ServeEnds
  <2>3. lockTimer' \in BOOLEAN
    BY <1>9 DEF ServeEnds
  <2>4. /\ execPc' = "removing"
        /\ UNCHANGED <<execFlags, override, leftOver, child, childCode, toForward, inHand,
                       refusals, changed, exitCode>>
    BY <1>9 DEF ServeEnds
  <2> QED BY <2>2, <2>3, <2>4
<1>10. CASE RemoveOverride
  <2>1. exitCode' \in {0, 1, 2}
    BY <1>10 DEF RemoveOverride, ExitCode
  <2>2. leftOver' \in BOOLEAN
    BY <1>10 DEF RemoveOverride
  <2>3. override' \in {override, "none"}
    BY <1>10 DEF RemoveOverride
  <2> QED BY <1>10, <2>1, <2>2, <2>3 DEF RemoveOverride
<1>11. CASE UNCHANGED tofuVars
  BY <1>11 DEF tofuVars
<1> QED BY <1>1, <1>2, <1>3, <1>4, <1>5, <1>6, <1>7, <1>8, <1>9, <1>10, <1>11 DEF ExecStep

(* Exec begins before any signal.                                                         *)
LEMMA ExecTypesBegin == Init => ExecTypes /\ ExecCounts
<1> SUFFICES ASSUME ExecInit PROVE ExecTypes /\ ExecCounts
  BY DEF Init, TofuInit
<1>1. ExecTypes
  BY DEF ExecInit, ExecTypes
<1>2. served = 0 /\ signals = 0 /\ interrupts = 0 /\ childInterrupts = 0 /\ toForward = "none"
  BY DEF ExecInit
<1>3. ExecCounts
  BY <1>2, TofuExecAssumption DEF ExecCounts
<1> QED BY <1>1, <1>3

(* No body is described inside of a component that it is inside of already, whatever the  *)
(* schemas refer to: each $ref that is followed leads to one that is not yet around it.   *)
THEOREM BodiesAreReadToTheirEnd == Spec => []InsideOfNoneTwice
<1>1. WorkInv /\ [Next]_vars => WorkInv'
  BY PartSteps, WorkNext
<1>2. WorkInv => InsideOfNoneTwice
  <2>1. work \in Seq(Item) => DOMAIN work = 1..Len(work)
    OBVIOUS
  <2> QED BY <2>1 DEF WorkInv, InsideOfNoneTwice
<1> QED BY WorkBegins, <1>1, <1>2, PTL DEF Spec
-----------------------------------------------------------------------------
(* What the parts keep is inductive, of itself or with what was proved of them above.     *)
LEMMA RequestTypes == Spec => [](CallTypeOK /\ ListTypeOK /\ DownloadTypeOK)
<1>1. CallInv /\ [Next]_vars => CallInv'
  BY PartSteps, CallNext
<1>2. ListInv /\ ListBounds /\ [Next]_vars => ListBounds'
  BY PartSteps, ListBoundsNext
<1>3. CallInv => CallTypeOK
  BY DEF CallInv
<1>4. WholeInv => DownloadTypeOK
  BY DEF WholeInv
<1> QED
  BY <1>1, <1>2, <1>3, <1>4, CallBegins, ListBoundsBegin, ListTyped, ListAlways, WholeAlways, PTL DEF Spec

(* The parts that a person sees. *)
LEMMA PersonTypes == Spec => [](BrowserTypeOK /\ MenuTypeOK /\ HoldTypeOK /\ PromptTypeOK)
<1>1. BrowserTypes /\ [Next]_vars => BrowserTypes'
  BY PartSteps, BrowserTypesNext
<1>2. FilesTyped /\ FormTyped /\ [Next]_vars => FilesTyped' /\ FormTyped'
  BY PartSteps, FilesTypedNext, FormTypedNext
<1>3. HeldInv /\ HoldTypes /\ [Next]_vars => HoldTypes'
  BY PartSteps, HoldTypesNext
<1>4. OrderInv /\ PromptTypes /\ [Next]_vars => PromptTypes'
  BY PartSteps, PromptTypesNext
<1>5. BrowserTypes => BrowserTypeOK
  BY DEF BrowserTypes
<1> QED
  BY <1>1, <1>2, <1>3, <1>4, <1>5, BrowserTypesBegin, FilesTypedBegin, FormTypedBegin, HoldTypesBegin,
     PromptTypesBegin, MenuTyped, HoldTyped, PromptTyped, HeldAlways, OrderAlways, PTL DEF Spec

(* The parts from the settings to a credential. *)
LEMMA SettingsTypes == Spec => [](ResolveTypeOK /\ StatusTypeOK /\ LoginTypeOK)
<1>1. ForeignInv /\ ResolveTypes /\ [Next]_vars => ResolveTypes'
  BY PartSteps, ResolveTypesNext
<1>2. AuthDirInv /\ ToldInv /\ StatusTypes /\ [Next]_vars => StatusTypes'
  BY PartSteps, StatusTypesNext
<1>3. ChoiceInv /\ ChoiceTypes /\ [Next]_vars => ChoiceTypes'
  BY PartSteps, ChoiceTypesNext
<1> QED
  BY <1>1, <1>2, <1>3, ResolveTypesBegin, StatusTypesBegin, ChoiceTypesBegin, ResolveTyped, StatusTyped,
     ChoiceTyped, ForeignAlways, StatusAlways, ChoiceAlways, PTL DEF Spec

(* The description, and tfstate exec. *)
LEMMA DescribeAndExecTypes == Spec => [](DescribeTypeOK /\ ExecTypeOK)
<1>1. WorkInv /\ [Next]_vars => WorkInv'
  BY PartSteps, WorkNext
<1>2. ExecTypes /\ ExecCounts /\ [Next]_vars => ExecTypes' /\ ExecCounts'
  BY PartSteps, ExecTypesNext, ExecCountsNext
<1> QED
  BY <1>1, <1>2, WorkBegins, ExecTypesBegin, DescribeTyped, ExecTyped, PTL DEF Spec

(* Every variable of every part keeps its type, for any bounds: a wait is within the      *)
(* limits for one whatever the answer asks for and however it wraps, a listing reads no    *)
(* page past the last object, an open form has one lookup or tick under way whichever      *)
(* forms closed while theirs ran, no more warnings are told than are held, and no signal   *)
(* comes to the command of exec more than twice.                                           *)
THEOREM TypesAreKept == Spec => []PartsTypeOK
<1>1. Init => part \in Parts
  BY DEF Init
<1>2. part \in Parts /\ [Next]_vars => (part \in Parts)'
  BY DEF Next, vars
<1>3. /\ part \in Parts /\ CallTypeOK /\ ListTypeOK /\ DownloadTypeOK
      /\ BrowserTypeOK /\ MenuTypeOK /\ HoldTypeOK /\ PromptTypeOK
      /\ ResolveTypeOK /\ StatusTypeOK /\ LoginTypeOK /\ DescribeTypeOK /\ ExecTypeOK
      => PartsTypeOK
  BY DEF PartsTypeOK
<1> QED
  BY <1>1, <1>2, <1>3, RequestTypes, PersonTypes, SettingsTypes, DescribeAndExecTypes, PTL DEF Spec
=============================================================================
