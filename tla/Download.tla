------------------------------- MODULE Download -------------------------------
(***************************************************************************)
(* The API docs in the config directory: commands that download the        *)
(* document, or ask for a newer one once a day, and read the stored one    *)
(* when that takes too long.  The commands run beside each other, and each *)
(* may be interrupted or killed at any step.                               *)
(***************************************************************************)
EXTENDS Integers

CONSTANTS
  Reader,        \* commands that read the API docs
  MaxVersion,    \* a bound on the documents
  MaxDay,        \* a bound on the time
  MaxStops       \* a bound on the commands that are interrupted

ASSUME DownloadAssumption == MaxVersion \in Nat \ {0} /\ MaxDay \in Nat /\ MaxStops \in Nat

VARIABLES
  newest,       \* the document that the server has
  day,
  \* the config directory:
  document,     \* the stored document
  lastCheck,    \* the day in api-docs.lastcheck.json
  \* the commands:
  always,       \* whether they ask for a newer document every time
  reading,      \* where a command is
  download,     \* where its download is
  since,        \* the time of the document that the download is to replace
  got,          \* the document that it got
  holds,        \* the document that the command has read
  stops         \* how many were interrupted

downloadVars == <<newest, day, document, lastCheck, always, reading, download, since,
                  got, holds, stops>>
outside == <<newest, day, always>>

Contents == {"absent", "half", "page", "docs"}
Document == [content : Contents, time : 0..MaxVersion]
Absent == [content |-> "absent", time |-> 0]
Never == -1

DownloadTypeOK ==
  /\ newest \in 1..MaxVersion /\ day \in 0..MaxDay
  /\ document \in Document /\ lastCheck \in {Never} \cup 0..MaxDay
  /\ always \in BOOLEAN
  /\ reading \in [Reader -> {"idle", "first", "await", "read", "parse", "wait"}]
  /\ download \in [Reader -> {"none", "ask", "rename", "record", "ended"}]
  /\ since \in [Reader -> 0..MaxVersion]
  /\ got \in [Reader -> Document] /\ holds \in [Reader -> Contents] /\ stops \in 0..MaxStops

DownloadInit ==
  /\ newest = 1 /\ day = 0
  /\ document = Absent /\ lastCheck = Never
  /\ always \in BOOLEAN
  /\ reading = [r \in Reader |-> "idle"] /\ download = [r \in Reader |-> "none"]
  /\ since = [r \in Reader |-> 0]
  /\ got = [r \in Reader |-> Absent] /\ holds = [r \in Reader |-> "absent"] /\ stops = 0

(* Only a check that is due by the day sees the day.                       *)
Outside ==
  /\ \/ newest < MaxVersion /\ newest' = newest + 1 /\ UNCHANGED day
     \/ ~always /\ day < MaxDay /\ day' = day + 1 /\ UNCHANGED newest
  /\ UNCHANGED <<document, lastCheck, always, reading, download, since, got, holds, stops>>

Due == always \/ lastCheck < day

At(r, where) == reading' = [reading EXCEPT ![r] = where]
Goes(r, where) == download' = [download EXCEPT ![r] = where]

(* Nothing stored: the command waits for the document.  Else it waits for 200 ms, where a *)
(* newer one is due.                                                                       *)
Stat(r) ==
  /\ reading[r] = "idle"
  /\ IF document.content = "absent" THEN At(r, "first") /\ Goes(r, "ask")
     ELSE IF Due THEN At(r, "await") /\ Goes(r, "ask")
     ELSE At(r, "read") /\ UNCHANGED download
  /\ since' = [since EXCEPT ![r] = IF document.content # "absent" /\ Due THEN document.time ELSE 0]
  /\ UNCHANGED <<outside, document, lastCheck, got, holds, stops>>

-----------------------------------------------------------------------------
(* The download.                                                           *)

(* The server has something newer than the stored document, or a captive portal answers   *)
(* in its place, whose page has the time of its download.                                 *)
Modified(r) == newest > since[r]
Served(r) == [content : {"page"} \cup (IF Modified(r) THEN {"docs"} ELSE {}), time : {newest}]

(* Mutation: the body is written to where the document is read.            *)
ReceiveInPlace(r) ==
  /\ download[r] = "ask"
  /\ \E body \in Served(r) : got' = [got EXCEPT ![r] = body]
  /\ since' = [since EXCEPT ![r] = 0]
  /\ document' = [content |-> "half", time |-> newest]
  /\ Goes(r, "rename")
  /\ UNCHANGED <<outside, lastCheck, reading, holds, stops>>

(* The body goes to a temporary file.                                      *)
Receive(r) ==
  /\ download[r] = "ask"
  /\ \E body \in Served(r) : got' = [got EXCEPT ![r] = body]
  /\ since' = [since EXCEPT ![r] = 0]
  /\ Goes(r, "rename")
  /\ UNCHANGED <<outside, document, lastCheck, reading, holds, stops>>

NotModified(r) ==
  /\ download[r] = "ask"
  /\ ~Modified(r)
  /\ Goes(r, "record") /\ since' = [since EXCEPT ![r] = 0]
  /\ UNCHANGED <<outside, document, lastCheck, reading, got, holds, stops>>

(* A check that failed is one: the next comes after a day.  A first download that failed  *)
(* ends the command.                                                                       *)
DownloadFails(r) ==
  /\ download[r] \in {"ask", "rename"}
  /\ IF reading[r] = "first" THEN At(r, "idle") /\ Goes(r, "none")
                             ELSE Goes(r, "record") /\ UNCHANGED reading
  /\ since' = [since EXCEPT ![r] = 0] /\ got' = [got EXCEPT ![r] = Absent]
  /\ UNCHANGED <<outside, document, lastCheck, holds, stops>>

Rename(r) ==
  /\ download[r] = "rename"
  /\ document' = got[r]
  /\ Goes(r, "record") /\ got' = [got EXCEPT ![r] = Absent]
  /\ UNCHANGED <<outside, lastCheck, reading, since, holds, stops>>

RecordCheck(r) ==
  /\ download[r] = "record"
  /\ lastCheck' = IF always THEN lastCheck ELSE day
  /\ Goes(r, "ended")
  /\ UNCHANGED <<outside, document, reading, since, got, holds, stops>>

(* The check is due again for the next command.                            *)
RecordFails(r) ==
  /\ download[r] = "record" /\ ~always
  /\ IF reading[r] = "first" THEN At(r, "idle") /\ Goes(r, "none")
                             ELSE Goes(r, "ended") /\ UNCHANGED reading
  /\ UNCHANGED <<outside, document, lastCheck, since, got, holds, stops>>

-----------------------------------------------------------------------------
(* The command.                                                            *)

(* The download is over, or after 200 ms it goes on beside the command.    *)
GoOn(r) ==
  /\ reading[r] = "await" \/ (reading[r] = "first" /\ download[r] = "ended")
  /\ At(r, "read")
  /\ UNCHANGED <<outside, document, lastCheck, download, since, got, holds, stops>>

(* The document may have been removed since, which ends the command.       *)
ReadDocument(r) ==
  /\ reading[r] = "read"
  /\ At(r, IF document.content = "absent" THEN "wait" ELSE "parse")
  /\ holds' = [holds EXCEPT ![r] = document.content]
  /\ UNCHANGED <<outside, document, lastCheck, download, since, got, stops>>

(* Mutation: the page stays.                                               *)
ParseAndKeep(r) ==
  /\ reading[r] = "parse"
  /\ At(r, "wait") /\ holds' = [holds EXCEPT ![r] = "absent"]
  /\ UNCHANGED <<outside, document, lastCheck, download, since, got, stops>>

(* What does not parse is removed, since no document would be newer.       *)
Parse(r) ==
  /\ reading[r] = "parse"
  /\ document' = IF holds[r] = "docs" THEN document ELSE Absent
  /\ At(r, "wait") /\ holds' = [holds EXCEPT ![r] = "absent"]
  /\ UNCHANGED <<outside, lastCheck, download, since, got, stops>>

(* The command ends once its download has.                                 *)
Wait(r) ==
  /\ reading[r] = "wait" /\ download[r] \in {"none", "ended"}
  /\ At(r, "idle") /\ Goes(r, "none")
  /\ UNCHANGED <<outside, document, lastCheck, since, got, holds, stops>>

(* Ctrl-C or a kill.  A check that was interrupted is not recorded.        *)
Stop(r) ==
  /\ reading[r] # "idle" /\ stops < MaxStops /\ stops' = stops + 1
  /\ At(r, "idle") /\ Goes(r, "none")
  /\ since' = [since EXCEPT ![r] = 0]
  /\ got' = [got EXCEPT ![r] = Absent] /\ holds' = [holds EXCEPT ![r] = "absent"]
  /\ UNCHANGED <<outside, document, lastCheck>>

Downloading(r) ==
  Receive(r) \/ NotModified(r) \/ DownloadFails(r) \/ Rename(r) \/ RecordCheck(r) \/ RecordFails(r)
Works(r) == Stat(r) \/ GoOn(r) \/ ReadDocument(r) \/ Parse(r) \/ Wait(r)
DownloadStep == Outside \/ \E r \in Reader : Downloading(r) \/ Works(r) \/ Stop(r)

-----------------------------------------------------------------------------
(* No command reads a part of a document, whoever downloads it or is killed meanwhile.   *)
ReadsWhole == \A r \in Reader : holds[r] # "half"

(* A page that is none of the docs does not stay, although the server has no document     *)
(* that is newer: a command that goes to its end removes it.                              *)
PageGoes == document.content = "page" ~> document.content # "page"
=============================================================================
