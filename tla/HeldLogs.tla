-------------------------------- MODULE HeldLogs --------------------------------
(***************************************************************************)
(* The log while a terminal UI draws: its records are held, the UI is told *)
(* how many warnings there are, and once the UI has ended the log gets the *)
(* records.  Goroutines log all the while, some with a logger that they    *)
(* have kept.                                                              *)
(***************************************************************************)
EXTENDS Naturals, Sequences, SequencesExt

CONSTANTS
  Logger,      \* the goroutines that log
  UI,          \* the one of them that is the loop of the UI
  MaxRecords   \* a bound on the records of each

ASSUME LoggerAssumption == UI \in Logger /\ MaxRecords \in Nat

VARIABLES
  default,     \* slog's default handler: the one that holds, or the previous one
  handler,     \* the handler of each goroutine's logger
  logging,     \* the record it is logging: none, its level, or "through" to the next handler
  logged,      \* how many it has begun to log
  held,        \* the records that were held, in their order
  flushed,     \* how many of them the log has got
  released,    \* nothing is held any more
  releasePc,   \* where Release is
  journal,     \* what the log has got
  forwarding,  \* the goroutine that tells the UI
  signal,      \* there is a warning to tell of
  warned,      \* how many warnings are held
  told,        \* how many the UI knows of
  ui           \* its loop

holdVars == <<default, handler, logging, logged, held, flushed, released, releasePc, journal,
              forwarding, signal, warned, told, ui>>

Record == Logger \X (1..MaxRecords)

HoldTypeOK ==
  /\ default \in {"held", "previous"} /\ handler \in [Logger -> {"held", "previous"}]
  /\ logging \in [Logger -> {"none", "info", "warn", "through"}]
  /\ logged \in [Logger -> 0..MaxRecords]
  /\ held \in Seq(Record) /\ flushed \in 0..Len(held) /\ journal \in Seq(Record)
  /\ released \in BOOLEAN
  /\ releasePc \in {"running", "closed", "forwarded", "restored", "flushing", "done"}
  /\ forwarding \in {"waiting", "signalled", "notifying", "over"}
  /\ signal \in BOOLEAN /\ warned \in 0..Len(held) /\ told \in 0..warned
  /\ ui \in {"reading", "updating", "ended"}

HoldInit ==
  /\ default = "held" /\ handler \in [Logger -> {"held", "previous"}]
  /\ logging = [w \in Logger |-> "none"] /\ logged = [w \in Logger |-> 0]
  /\ held = <<>> /\ flushed = 0 /\ journal = <<>>
  /\ released = FALSE /\ releasePc = "running"
  /\ forwarding = "waiting" /\ signal = FALSE /\ warned = 0 /\ told = 0
  /\ ui = "reading"

logVars == <<handler, logging, logged>>
heldVars == <<held, warned>>
releaseVars == <<default, flushed, released, releasePc>>
forwardVars == <<forwarding, told>>

-----------------------------------------------------------------------------
(* Logging.                                                                *)

(* With slog's default logger, or the one that it has kept.                *)
Log(w) ==
  /\ logging[w] = "none" /\ logged[w] < MaxRecords
  /\ w = UI => ui = "updating" \/ releasePc = "done"
  /\ \E level \in {"info", "warn"}, h \in {default, handler[w]} :
       /\ logging' = [logging EXCEPT ![w] = level]
       /\ handler' = [handler EXCEPT ![w] = h]
  /\ logged' = [logged EXCEPT ![w] = @ + 1]
  /\ UNCHANGED <<heldVars, releaseVars, journal, forwardVars, signal, ui>>

Rec(w) == <<w, logged[w]>>

(* buffer.hold, for which Release keeps the mutex while it writes.         *)
Handle(w) ==
  /\ logging[w] \in {"info", "warn"} /\ handler[w] = "held" /\ releasePc # "flushing"
  /\ IF released
     THEN logging' = [logging EXCEPT ![w] = "through"] /\ UNCHANGED <<heldVars, signal>>
     ELSE /\ held' = Append(held, Rec(w))
          /\ warned' = warned + IF logging[w] = "warn" THEN 1 ELSE 0
          /\ signal' = (signal \/ logging[w] = "warn")
          /\ logging' = [logging EXCEPT ![w] = "none"]
  /\ UNCHANGED <<handler, logged, releaseVars, journal, forwardVars, ui>>

Write(w) ==
  /\ logging[w] = "through" \/ (logging[w] # "none" /\ handler[w] = "previous")
  /\ journal' = Append(journal, Rec(w))
  /\ logging' = [logging EXCEPT ![w] = "none"]
  /\ UNCHANGED <<handler, logged, heldVars, releaseVars, forwardVars, signal, ui>>

-----------------------------------------------------------------------------
(* The goroutine that tells the UI, and the UI.                            *)

Forward ==
  /\ forwarding = "waiting"
  /\ \/ signal /\ signal' = FALSE /\ forwarding' = "signalled" /\ UNCHANGED told
     \/ releasePc # "running" /\ forwarding' = "over" /\ UNCHANGED <<signal, told>>
  /\ UNCHANGED <<logVars, heldVars, releaseVars, journal, ui>>

(* The count is that of the moment; notify blocks until the UI reads it, or has ended.    *)
Notify ==
  /\ forwarding = "signalled"
  /\ told' = warned /\ forwarding' = "notifying"
  /\ UNCHANGED <<logVars, heldVars, releaseVars, journal, signal, ui>>

NotifyReturns ==
  /\ forwarding = "notifying" /\ ui # "updating"
  /\ forwarding' = "waiting"
  /\ ui' = IF ui = "ended" THEN ui ELSE "updating"
  /\ UNCHANGED <<logVars, heldVars, releaseVars, journal, told, signal>>

(* A key, or the end of an Update, which logs before it returns.           *)
Loop ==
  /\ logging[UI] = "none"
  /\ \/ ui = "reading" /\ ui' = "updating"
     \/ ui = "updating" /\ ui' \in {"reading", "ended"}
  /\ UNCHANGED <<logVars, heldVars, releaseVars, journal, forwardVars, signal>>

-----------------------------------------------------------------------------
(* Release.                                                                *)

ReleaseTo(from, to) ==
  /\ releasePc = from /\ releasePc' = to
  /\ UNCHANGED <<logVars, heldVars, forwardVars, signal, ui>>

CloseReleased ==
  /\ ui = "ended" /\ ReleaseTo("running", "closed")
  /\ UNCHANGED <<default, flushed, released, journal>>

WaitForForwarding ==
  /\ forwarding = "over" /\ ReleaseTo("closed", "forwarded")
  /\ UNCHANGED <<default, flushed, released, journal>>

Restore ==
  /\ ReleaseTo("forwarded", "restored") /\ default' = "previous"
  /\ UNCHANGED <<flushed, released, journal>>

(* Mutation: what is logged later is held as well.                         *)
FlushAndHold ==
  /\ ReleaseTo("restored", "flushing")
  /\ UNCHANGED <<default, flushed, released, journal>>

Flush ==
  /\ ReleaseTo("restored", "flushing") /\ released' = TRUE
  /\ UNCHANGED <<default, flushed, journal>>

FlushRecord ==
  /\ flushed < Len(held) /\ ReleaseTo("flushing", "flushing")
  /\ journal' = Append(journal, held[flushed + 1]) /\ flushed' = flushed + 1
  /\ UNCHANGED <<default, released>>

Flushed ==
  /\ flushed = Len(held) /\ ReleaseTo("flushing", "done")
  /\ UNCHANGED <<default, flushed, released, journal>>

HoldStep ==
  \/ \E w \in Logger : Log(w) \/ Handle(w) \/ Write(w)
  \/ Forward \/ Notify \/ NotifyReturns \/ Loop
  \/ CloseReleased \/ WaitForForwarding \/ Restore \/ Flush \/ FlushRecord \/ Flushed

-----------------------------------------------------------------------------
(* What was logged to its end: the last record of a goroutine may still be on its way.    *)
Logged(w) == {n \in 1..logged[w] : n < logged[w] \/ logging[w] = "none"}

(* The held records come to the log in their order: before each, those held before it.    *)
HeldInOrder ==
  \A i \in DOMAIN journal, b \in DOMAIN held : journal[i] = held[b] =>
    \A a \in 1..(b - 1) : \E k \in 1..(i - 1) : journal[k] = held[a]

(* Every record gets to the log once, the held ones in their order, whichever logger it   *)
(* is logged with, before, while or after the log is released; and no warning is held     *)
(* that the UI was not told of and will not be, as long as it runs.                       *)
WrittenOnce ==
  /\ IsInjective(journal) /\ HeldInOrder
  /\ releasePc = "done" => \A w \in Logger : \A n \in Logged(w) : <<w, n>> \in ToSet(journal)
  /\ releasePc = "running" /\ told < warned => signal \/ forwarding = "signalled"
=============================================================================
