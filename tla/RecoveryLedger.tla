--------------------------- MODULE RecoveryLedger ---------------------------
(***************************************************************************)
(* The bounded recovery ledger of Stage 16 (rl/state_machine.py) and its   *)
(* JSON-lines log.  A session loads the log, records classified failures   *)
(* in memory, appends the new rows and ends; it may be killed, or its      *)
(* append may fail, with any part of the rows in the file.  The next       *)
(* session has nothing but the log to take its counters from.              *)
(*                                                                         *)
(* Rows carry what the counters are restored from.  `log` holds the rows   *)
(* that can be read, up to the first line that is not a JSON object.       *)
(* Sessions of one log follow each other; no lock makes them.              *)
(***************************************************************************)
EXTENDS Naturals, Sequences, FiniteSetsExt

CONSTANTS
  Classes,     \* failure classes
  Dependency,  \* DEPENDENCY_FAILURE, the class of a backend switch
  Phases,
  repairs_per_class, reruns_per_phase, backend_switches, major_repairs,  \* RecoveryBudget
  MaxRows      \* bound: rows a session holds

ASSUME BudgetAssumption ==
  /\ Dependency \in Classes
  /\ {repairs_per_class, reruns_per_phase, backend_switches, major_repairs, MaxRows} \subseteq Nat

VARIABLES
  log,         \* the readable rows of the file
  tail,        \* how the file ends: in a newline, without one, or broken
  open,        \* is there a session?
  transitions, \* its rows, those it loaded included
  written,     \* _written_count
  attempts,    \* _class_attempts
  reruns,      \* _phase_reruns
  switches,    \* backend_switch_count
  major        \* major_repair_count

file     == <<log, tail>>
counters == <<attempts, reruns, switches, major>>
vars     == <<log, tail, open, transitions, written, attempts, reruns, switches, major>>

Repairs == {"repair", "switch"}
Results == {"recorded", "escalated"}
Row == [class : Classes, phase : Phases, repair : Repairs, attempt : Nat, switches : Nat, result : Results]

(* Rows of s, up to the i-th, whose field f is v. *)
Tally(s, i, f, v) == Cardinality({j \in 1 .. i : s[j][f] = v})

NoAttempts == [c \in Classes |-> 0]
NoReruns   == [h \in Phases |-> 0]

Init ==
  /\ log = <<>> /\ tail = "whole"
  /\ open = FALSE
  /\ transitions = <<>> /\ written = 0
  /\ attempts = NoAttempts /\ reruns = NoReruns
  /\ switches = 0 /\ major = 0

-----------------------------------------------------------------------------
(* from_jsonl: the highest attempt of a class, the number of rows of a     *)
(* phase and of all rows, and the highest switch count in the evidence.    *)
(* A broken line raises, and there is no session.                          *)
AttemptsIn(s, c) == {0} \cup {s[i].attempt : i \in {j \in 1 .. Len(s) : s[j].class = c}}
SwitchesIn(s)    == {0} \cup {s[i].switches : i \in 1 .. Len(s)}

Restore ==
  /\ open' = TRUE
  /\ transitions' = log
  /\ attempts' = [c \in Classes |-> Max(AttemptsIn(log, c))]
  /\ reruns' = [h \in Phases |-> Tally(log, Len(log), "phase", h)]
  /\ switches' = Max(SwitchesIn(log))
  /\ major' = Len(log)
  /\ UNCHANGED file

LoadToReplay ==                 \* mutant: the rows of the log are pending again
  /\ ~open /\ tail # "torn"
  /\ Restore
  /\ written' = 0

Load ==
  /\ ~open /\ tail # "torn"
  /\ Restore
  /\ written' = Len(log)

-----------------------------------------------------------------------------
(* record: nothing is rejected, a result beyond a budget is escalated. *)
Enter(c, h, repair, switched) ==
  LET attempt   == attempts[c] + 1
      exhausted == \/ attempt > repairs_per_class
                   \/ reruns[h] + 1 > reruns_per_phase
                   \/ major + 1 > major_repairs
                   \/ repair = "switch" /\ switched > backend_switches
  IN  /\ open /\ Len(transitions) < MaxRows
      /\ attempts' = [attempts EXCEPT ![c] = attempt]
      /\ reruns' = [reruns EXCEPT ![h] = @ + 1]
      /\ major' = major + 1
      /\ transitions' = Append(transitions,
           [class |-> c, phase |-> h, repair |-> repair, attempt |-> attempt, switches |-> switched,
            result |-> IF exhausted THEN "escalated" ELSE "recorded"])
      /\ UNCHANGED <<log, tail, open, written>>

Record(c, h) ==
  /\ Enter(c, h, "repair", 0)
  /\ UNCHANGED switches

SwitchBackend(h) ==
  /\ Enter(Dependency, h, "switch", switches + 1)
  /\ switches' = switches + 1

-----------------------------------------------------------------------------
(* write_jsonl opens the file for appending.  Rows behind a line without   *)
(* its newline are glued to it: that line is broken from then on, and what *)
(* follows a broken line is never read.                                    *)
Put(rows, end) ==
  CASE tail = "whole" -> log' = log \o rows /\ tail' = end
    [] tail = "bare" /\ rows = <<>> /\ end = "whole" -> UNCHANGED file
    [] tail = "bare" /\ ~(rows = <<>> /\ end = "whole") ->
         log' = SubSeq(log, 1, Len(log) - 1) /\ tail' = "torn"
    [] tail = "torn" -> UNCHANGED file

Pending(n) == SubSeq(transitions, written + 1, n)

WriteCounted ==                 \* mutant: the count is increased by the number of rows
  /\ open
  /\ Put(Pending(Len(transitions)), "whole")
  /\ written' = written + Len(transitions)
  /\ UNCHANGED <<open, transitions, counters>>

WriteAnew ==                    \* mutant: the file is opened with "w"
  /\ open
  /\ log' = Pending(Len(transitions)) /\ tail' = "whole"
  /\ written' = Len(transitions)
  /\ UNCHANGED <<open, transitions, counters>>

Write ==
  /\ open
  /\ Put(Pending(Len(transitions)), "whole")
  /\ written' = Len(transitions)
  /\ UNCHANGED <<open, transitions, counters>>

(* The session ends, is killed, or fails in write_jsonl: of the rows not   *)
(* written yet the file has those up to the n-th, the last of them perhaps *)
(* without its newline, or a piece of one more.                            *)
EndAt(n, end) ==
  /\ open /\ open' = FALSE
  /\ end = "bare" => n > written
  /\ end = "torn" => n < Len(transitions)
  /\ Put(Pending(n), end)
  /\ transitions' = <<>> /\ written' = 0
  /\ attempts' = NoAttempts /\ reruns' = NoReruns
  /\ switches' = 0 /\ major' = 0

End == \E n \in written .. Len(transitions), end \in {"whole", "bare", "torn"} : EndAt(n, end)

-----------------------------------------------------------------------------
Next ==
  \/ Load
  \/ \E c \in Classes, h \in Phases : Record(c, h)
  \/ \E h \in Phases : SwitchBackend(h)
  \/ Write
  \/ End

Spec == Init /\ [][Next]_vars

-----------------------------------------------------------------------------
(* Properties *)

TypeOK ==
  /\ log \in Seq(Row)
  /\ tail \in {"whole", "bare", "torn"}
  /\ open \in BOOLEAN
  /\ transitions \in Seq(Row)
  /\ written \in 0 .. Len(transitions)
  /\ attempts \in [Classes -> Nat]
  /\ reruns \in [Phases -> Nat]
  /\ switches \in Nat
  /\ major \in Nat

(* The i-th row of s was counted as what it is: the k-th repair of its     *)
(* class or the k-th switch, and it is recorded without escalation only    *)
(* within every budget.                                                    *)
RowCounted(s, i) ==
  /\ s[i].attempt = Tally(s, i, "class", s[i].class)
  /\ s[i].repair = "switch" => s[i].switches = Tally(s, i, "repair", "switch")
  /\ s[i].result = "recorded" =>
       /\ s[i].attempt <= repairs_per_class
       /\ Tally(s, i, "phase", s[i].phase) <= reruns_per_phase
       /\ s[i].repair = "switch" => s[i].switches <= backend_switches
       /\ i <= major_repairs

(* Over all sessions of a log, and whatever part of its rows each of them  *)
(* left there, every repair on disk is counted once, none is forgotten by  *)
(* a reload, and what goes beyond a budget is escalated.                   *)
EveryRepairCounts == \A i \in 1 .. Len(log) : RowCounted(log, i)

(* "An append-only transition log": a row whose line is complete is there  *)
(* for good, at its place and as it was written, whatever later sessions   *)
(* append and wherever they are cut.                                       *)
RowsStay ==
  [][\A i \in 1 .. Len(log) :
       i < Len(log) \/ tail # "bare" => i \in 1 .. Len(log') /\ log'[i] = log[i]]_vars
=============================================================================
