------------------------ MODULE RecoveryLedgerProofs ------------------------
(***************************************************************************)
(* Type correctness of the recovery ledger, and that over all sessions of  *)
(* a log every repair on disk counts, for any budget.                      *)
(*                                                                         *)
(* The counters of a session are the tallies of its rows (Accounts), and   *)
(* its rows are the log's followed by those not yet written.  A reload     *)
(* takes the highest attempt of a class for the number of its rows: that   *)
(* is right because the attempts of a class on disk have no gap (Sound),   *)
(* which every prefix of a sound sequence keeps, wherever a write stops.   *)
(***************************************************************************)
EXTENDS RecoveryLedger, FiniteSetTheorems, SequenceTheorems, TLAPS

AttemptsTo(s, i, c) == {0} \cup {s[k].attempt : k \in {j \in 1 .. i : s[j].class = c}}
SwitchesTo(s, i)    == {0} \cup {s[k].switches : k \in 1 .. i}

Gapless(s, i) ==
  /\ \A c \in Classes : AttemptsTo(s, i, c) = 0 .. Tally(s, i, "class", c)
  /\ SwitchesTo(s, i) = 0 .. Tally(s, i, "repair", "switch")

Sound(s) ==
  /\ \A i \in 1 .. Len(s) : RowCounted(s, i)
  /\ \A i \in 0 .. Len(s) : Gapless(s, i)

Accounts ==
  /\ \A c \in Classes : attempts[c] = Tally(transitions, Len(transitions), "class", c)
  /\ \A h \in Phases : reruns[h] = Tally(transitions, Len(transitions), "phase", h)
  /\ switches = Tally(transitions, Len(transitions), "repair", "switch")
  /\ major = Len(transitions)

LedgerInv ==
  /\ TypeOK
  /\ Sound(log)
  /\ open => Sound(transitions) /\ Accounts
  /\ open /\ tail # "torn" => log = SubSeq(transitions, 1, written)

-----------------------------------------------------------------------------
(* Tallies *)

(* A tally is a number. *)
LEMMA TallyType ==
  ASSUME NEW s, NEW i \in Nat, NEW f, NEW v
  PROVE  /\ Tally(s, i, f, v) \in Nat
         /\ IsFiniteSet({j \in 1 .. i : s[j][f] = v})
<1>1. IsFiniteSet(1 .. i)
  BY FS_Interval
<1>2. {j \in 1 .. i : s[j][f] = v} \in SUBSET (1 .. i)
  OBVIOUS
<1>3. IsFiniteSet({j \in 1 .. i : s[j][f] = v})
  BY <1>1, <1>2, FS_Subset
<1> QED
  BY <1>3, FS_CardinalityType DEF Tally

(* It depends on the rows it counts only. *)
LEMMA TallyAgrees ==
  ASSUME NEW s, NEW t, NEW i \in Nat, NEW f, NEW v, \A j \in 1 .. i : s[j] = t[j]
  PROVE  Tally(s, i, f, v) = Tally(t, i, f, v)
<1>1. {j \in 1 .. i : s[j][f] = v} = {j \in 1 .. i : t[j][f] = v}
  OBVIOUS
<1> QED
  BY <1>1 DEF Tally

(* One row more adds one if it matches. *)
LEMMA TallyNext ==
  ASSUME NEW s, NEW i \in Nat, NEW f, NEW v
  PROVE  Tally(s, i + 1, f, v) = Tally(s, i, f, v) + (IF s[i + 1][f] = v THEN 1 ELSE 0)
<1> DEFINE P(k) == {j \in 1 .. k : s[j][f] = v}
<1>0. Tally(s, i, f, v) = Cardinality(P(i)) /\ Tally(s, i + 1, f, v) = Cardinality(P(i + 1))
  BY DEF Tally
<1>1. IsFiniteSet(P(i)) /\ Cardinality(P(i)) \in Nat
  <2>1. IsFiniteSet(P(i))
    <3>1. P(i) \in SUBSET (1 .. i) /\ IsFiniteSet(1 .. i)
      BY FS_Interval
    <3> QED
      BY <3>1, FS_Subset
  <2> QED
    BY <2>1, FS_CardinalityType
<1>2. i + 1 \notin P(i)
  OBVIOUS
<1>3. CASE s[i + 1][f] = v
  <2>1. P(i + 1) = P(i) \cup {i + 1}
    BY <1>3
  <2> QED
    BY <2>1, <1>0, <1>1, <1>2, <1>3, FS_AddElement
<1>4. CASE s[i + 1][f] # v
  <2>1. P(i + 1) = P(i)
    BY <1>4
  <2>2. Tally(s, i + 1, f, v) = Tally(s, i, f, v) /\ Tally(s, i, f, v) \in Nat
    BY <2>1, <1>0, <1>1
  <2> QED
    BY <2>2, <1>4
<1> QED
  BY <1>3, <1>4

(* Nothing is counted up to the 0th row. *)
LEMMA TallyNone ==
  ASSUME NEW s, NEW f, NEW v
  PROVE  Tally(s, 0, f, v) = 0
<1>1. {j \in 1 .. 0 : s[j][f] = v} = {}
  OBVIOUS
<1> QED
  BY <1>1, FS_EmptySet DEF Tally

-----------------------------------------------------------------------------
(* Sound sequences *)

(* What is said of the first i rows is said of them in every sequence that *)
(* begins with them.                                                       *)
LEMMA SoundUpTo ==
  ASSUME NEW s, NEW t, NEW i \in Nat, \A j \in 1 .. i : s[j] = t[j]
  PROVE  /\ Gapless(s, i) => Gapless(t, i)
         /\ i > 0 /\ RowCounted(s, i) => RowCounted(t, i)
<1>1. \A f, v : Tally(s, i, f, v) = Tally(t, i, f, v)
  BY TallyAgrees
<1>2. \A c : AttemptsTo(s, i, c) = AttemptsTo(t, i, c)
  BY DEF AttemptsTo
<1>3. SwitchesTo(s, i) = SwitchesTo(t, i)
  BY DEF SwitchesTo
<1>4. i > 0 => s[i] = t[i]
  OBVIOUS
<1>5. Gapless(s, i) => Gapless(t, i)
  BY <1>1, <1>2, <1>3 DEF Gapless
<1>6. i > 0 /\ RowCounted(s, i) => RowCounted(t, i)
  BY <1>1, <1>4 DEF RowCounted
<1> QED
  BY <1>5, <1>6

(* An interval from 0 with its next number. *)
LEMMA IntervalNext == \A n \in Nat : (0 .. n) \cup {n + 1} = 0 .. (n + 1)
  OBVIOUS
(* An interval from 0 holds 0. *)
LEMMA IntervalSame == \A n \in Nat : (0 .. n) \cup {0} = 0 .. n
  OBVIOUS

(* The empty log is sound. *)
LEMMA SoundEmpty == Sound(<<>>)
<1>1. Len(<<>>) = 0
  BY EmptySeq
<1>2. Gapless(<<>>, 0)
  <2>1. \A f, v : Tally(<<>>, 0, f, v) = 0
    BY TallyNone
  <2>2. \A c : AttemptsTo(<<>>, 0, c) = {0}
    BY DEF AttemptsTo
  <2>3. SwitchesTo(<<>>, 0) = {0}
    BY DEF SwitchesTo
  <2>4. 0 .. 0 = {0}
    OBVIOUS
  <2> QED
    BY <2>1, <2>2, <2>3, <2>4 DEF Gapless
<1> QED
  BY <1>1, <1>2 DEF Sound

(* Wherever a write stops, what is on disk is sound. *)
LEMMA SoundPrefix ==
  ASSUME NEW t \in Seq(Row), Sound(t), NEW n \in 0 .. Len(t)
  PROVE  /\ Sound(SubSeq(t, 1, n))
         /\ SubSeq(t, 1, n) \in Seq(Row)
         /\ Len(SubSeq(t, 1, n)) = n
<1> DEFINE s == SubSeq(t, 1, n)
<1>1. \A i \in 1 .. n : t[i] \in Row
  BY ElementOfSeq, LenProperties
<1>2. /\ s \in Seq(Row)
      /\ Len(s) = n
      /\ \A i \in 1 .. n : s[i] = t[i]
  BY <1>1, SubSeqProperties
<1> HIDE DEF s
<1>3. ASSUME NEW i \in 0 .. n
      PROVE  Gapless(s, i) /\ (i > 0 => RowCounted(s, i))
  <2>1. i \in Nat /\ \A j \in 1 .. i : t[j] = s[j]
    BY <1>2
  <2>2. i \in 0 .. Len(t) /\ (i > 0 => i \in 1 .. Len(t)) /\ Len(t) \in Nat
    BY LenProperties
  <2>3. Gapless(t, i) /\ (i > 0 => RowCounted(t, i))
    BY <2>2 DEF Sound
  <2> QED
    BY <2>1, <2>3, SoundUpTo
<1>4. Sound(s)
  BY <1>2, <1>3 DEF Sound
<1> QED
  BY <1>2, <1>4 DEF s

(* A row counted as the next of its class, of its phase and, if it is a    *)
(* switch, of the switches keeps a sequence sound.                         *)
LEMMA SoundAppend ==
  ASSUME NEW s \in Seq(Row), Sound(s), NEW r \in Row,
         r.attempt = Tally(s, Len(s), "class", r.class) + 1,
         r.switches = (IF r.repair = "switch" THEN Tally(s, Len(s), "repair", "switch") + 1 ELSE 0),
         r.result = "recorded" =>
           /\ r.attempt <= repairs_per_class
           /\ Tally(s, Len(s), "phase", r.phase) + 1 <= reruns_per_phase
           /\ r.repair = "switch" => r.switches <= backend_switches
           /\ Len(s) + 1 <= major_repairs
  PROVE  Sound(Append(s, r))
<1> DEFINE t == Append(s, r)
           n == Len(s)
<1>1. /\ n \in Nat
      /\ Len(t) = n + 1
      /\ \A i \in 1 .. n : t[i] = s[i]
      /\ t[n + 1] = r
  BY AppendProperties, LenProperties
<1> HIDE DEF t, n
<1>2. ASSUME NEW f, NEW v
      PROVE  Tally(t, n, f, v) = Tally(s, n, f, v)
  <2>1. \A j \in 1 .. n : t[j] = s[j]
    BY <1>1
  <2> QED
    BY <1>1, <2>1, TallyAgrees
<1>3. ASSUME NEW f, NEW v
      PROVE  /\ Tally(t, n + 1, f, v) = Tally(s, n, f, v) + (IF r[f] = v THEN 1 ELSE 0)
             /\ Tally(s, n, f, v) \in Nat
  <2>1. Tally(t, n + 1, f, v) = Tally(t, n, f, v) + (IF t[n + 1][f] = v THEN 1 ELSE 0)
    BY <1>1, TallyNext
  <2> QED
    BY <1>1, <1>2, <2>1, TallyType
<1>4. RowCounted(t, n + 1)
  <2>1. /\ Tally(t, n + 1, "class", r.class) = Tally(s, n, "class", r.class) + 1
        /\ Tally(t, n + 1, "phase", r.phase) = Tally(s, n, "phase", r.phase) + 1
        /\ r.repair = "switch" =>
             Tally(t, n + 1, "repair", "switch") = Tally(s, n, "repair", "switch") + 1
    BY <1>3
  <2> QED
    BY <1>1, <2>1 DEF RowCounted, n
<1>5. Gapless(t, n + 1)
  <2>1. Gapless(s, n)
    BY <1>1 DEF Sound, n
  <2>2. r.attempt = Tally(s, n, "class", r.class) + 1
    BY DEF n
  <2>3. ASSUME NEW c \in Classes
        PROVE  AttemptsTo(t, n + 1, c) = 0 .. Tally(t, n + 1, "class", c)
    <3>1. AttemptsTo(s, n, c) = 0 .. Tally(s, n, "class", c)
      BY <2>1 DEF Gapless
    <3>2. Tally(s, n, "class", c) \in Nat
      BY <1>3
    <3>3. CASE r.class = c
      <4>1. AttemptsTo(t, n + 1, c) = AttemptsTo(s, n, c) \cup {r.attempt}
        BY <1>1, <3>3 DEF AttemptsTo
      <4>2. Tally(t, n + 1, "class", c) = Tally(s, n, "class", c) + 1
        BY <1>3, <3>3
      <4> QED
        BY <4>1, <4>2, <3>1, <3>2, <3>3, <2>2, IntervalNext
    <3>4. CASE r.class # c
      <4>1. AttemptsTo(t, n + 1, c) = AttemptsTo(s, n, c)
        BY <1>1, <3>4 DEF AttemptsTo
      <4>2. Tally(t, n + 1, "class", c) = Tally(s, n, "class", c)
        BY <1>3, <3>4
      <4> QED
        BY <4>1, <4>2, <3>1
    <3> QED
      BY <3>3, <3>4
  <2>4. SwitchesTo(t, n + 1) = SwitchesTo(s, n) \cup {r.switches}
    BY <1>1 DEF SwitchesTo
  <2>5. SwitchesTo(s, n) = 0 .. Tally(s, n, "repair", "switch") /\ Tally(s, n, "repair", "switch") \in Nat
    BY <2>1, <1>3 DEF Gapless
  <2>6. CASE r.repair = "switch"
    <3>1. r.switches = Tally(s, n, "repair", "switch") + 1
      BY <2>6 DEF n
    <3>2. Tally(t, n + 1, "repair", "switch") = Tally(s, n, "repair", "switch") + 1
      BY <1>3, <2>6
    <3>3. SwitchesTo(t, n + 1) = 0 .. Tally(t, n + 1, "repair", "switch")
      BY <3>1, <3>2, <2>4, <2>5, IntervalNext
    <3> QED
      BY <3>3, <2>3 DEF Gapless
  <2>7. CASE r.repair # "switch"
    <3>1. r.switches = 0
      BY <2>7
    <3>2. Tally(t, n + 1, "repair", "switch") = Tally(s, n, "repair", "switch")
      BY <1>3, <2>7
    <3>3. SwitchesTo(t, n + 1) = 0 .. Tally(t, n + 1, "repair", "switch")
      BY <3>1, <3>2, <2>4, <2>5, IntervalSame
    <3> QED
      BY <3>3, <2>3 DEF Gapless
  <2> QED
    BY <2>6, <2>7
<1>6. ASSUME NEW i \in 0 .. n
      PROVE  Gapless(t, i) /\ (i > 0 => RowCounted(t, i))
  <2>1. i \in Nat /\ \A j \in 1 .. i : s[j] = t[j]
    BY <1>1
  <2>2. Gapless(s, i) /\ (i > 0 => RowCounted(s, i))
    BY <1>1 DEF Sound, n
  <2> QED
    BY <2>1, <2>2, SoundUpTo
<1>7. Sound(t)
  BY <1>1, <1>4, <1>5, <1>6 DEF Sound
<1> QED
  BY <1>7 DEF t

-----------------------------------------------------------------------------
(* The invariant *)

(* The largest number of an interval from 0. *)
LEMMA MaxOfInterval ==
  ASSUME NEW n \in Nat
  PROVE  Max(0 .. n) = n
<1>1. n \in 0 .. n /\ \A y \in 0 .. n : n >= y
  OBVIOUS
<1>2. \A x \in 0 .. n : (\A y \in 0 .. n : x >= y) => x = n
  BY <1>1
<1> QED
  BY <1>1, <1>2 DEF Max

(* What from_jsonl takes from a sound log are its tallies. *)
LEMMA RestoreCounts ==
  ASSUME TypeOK, Sound(log)
  PROVE  /\ \A c \in Classes : Max(AttemptsIn(log, c)) = Tally(log, Len(log), "class", c)
         /\ Max(SwitchesIn(log)) = Tally(log, Len(log), "repair", "switch")
         /\ Len(log) \in Nat
<1>1. Len(log) \in Nat
  BY LenProperties DEF TypeOK
<1>2. Gapless(log, Len(log))
  BY <1>1 DEF Sound
<1>3. ASSUME NEW c \in Classes
      PROVE  Max(AttemptsIn(log, c)) = Tally(log, Len(log), "class", c)
  <2>1. AttemptsIn(log, c) = AttemptsTo(log, Len(log), c)
    BY DEF AttemptsIn, AttemptsTo
  <2>2. AttemptsIn(log, c) = 0 .. Tally(log, Len(log), "class", c)
    BY <1>2, <2>1 DEF Gapless
  <2> QED
    BY <2>2, <1>1, TallyType, MaxOfInterval
<1>4. SwitchesIn(log) = 0 .. Tally(log, Len(log), "repair", "switch")
  BY <1>2 DEF Gapless, SwitchesIn, SwitchesTo
<1>5. Max(SwitchesIn(log)) = Tally(log, Len(log), "repair", "switch")
  BY <1>4, <1>1, TallyType, MaxOfInterval
<1> QED
  BY <1>1, <1>3, <1>5

(* An append of rows of the session, whole or cut, leaves a sound log; and *)
(* one that can be loaded holds the session's rows up to there.            *)
LEMMA PutSound ==
  ASSUME LedgerInv, open, NEW n \in written .. Len(transitions), NEW end \in {"whole", "bare", "torn"},
         Put(Pending(n), end)
  PROVE  /\ log' \in Seq(Row) /\ tail' \in {"whole", "bare", "torn"}
         /\ Sound(log')
         /\ tail' # "torn" => log' = SubSeq(transitions, 1, n)
<1>1. /\ transitions \in Seq(Row) /\ Sound(transitions)
      /\ log \in Seq(Row) /\ Sound(log)
      /\ Len(transitions) \in Nat /\ Len(log) \in Nat
      /\ written \in 0 .. Len(transitions) /\ n \in 0 .. Len(transitions)
      /\ tail \in {"whole", "bare", "torn"}
  BY LenProperties DEF LedgerInv, TypeOK
<1>2. CASE tail = "whole"
  <2>1. log' = log \o Pending(n) /\ tail' = end
    BY <1>2 DEF Put
  <2>2. log = SubSeq(transitions, 1, written)
    BY <1>2 DEF LedgerInv
  <2>3. log' = SubSeq(transitions, 1, n)
    <3>1. 1 \in 1 .. Len(transitions) + 1 /\ written \in 1 - 1 .. Len(transitions)
      BY <1>1
    <3> QED
      BY <1>1, <2>1, <2>2, <3>1, ConcatAdjacentSubSeq DEF Pending
  <2> QED
    BY <1>1, <2>1, <2>3, SoundPrefix
<1>3. CASE tail = "bare" /\ Pending(n) = <<>> /\ end = "whole"
  <2>1. log' = log /\ tail' = tail
    BY <1>3 DEF Put, file
  <2>2. log = SubSeq(transitions, 1, written)
    BY <1>3 DEF LedgerInv
  <2>3. n = written
    <3>1. \A i \in written + 1 .. n : transitions[i] \in Row
      BY <1>1, ElementOfSeq
    <3>2. Len(Pending(n)) = (IF written + 1 <= n THEN n - (written + 1) + 1 ELSE 0)
      BY <1>1, <3>1, SubSeqProperties DEF Pending
    <3>3. Len(Pending(n)) = 0
      BY <1>3, EmptySeq
    <3> QED
      BY <1>1, <3>2, <3>3
  <2> QED
    BY <1>1, <2>1, <2>2, <2>3
<1>4. CASE tail = "bare" /\ ~(Pending(n) = <<>> /\ end = "whole")
  <2>1. log' = SubSeq(log, 1, Len(log) - 1) /\ tail' = "torn"
    BY <1>4 DEF Put
  <2>2. CASE Len(log) = 0
    <3>1. log' = <<>>
      BY <2>1, <2>2, SubSeqEmpty
    <3> QED
      BY <3>1, <2>1, SoundEmpty, EmptySeq
  <2>3. CASE Len(log) > 0
    <3>1. Len(log) - 1 \in 0 .. Len(log)
      BY <1>1, <2>3
    <3> QED
      BY <1>1, <2>1, <3>1, SoundPrefix
  <2> QED
    BY <1>1, <2>2, <2>3
<1>5. CASE tail = "torn"
  BY <1>1, <1>5 DEF Put, file
<1> QED
  BY <1>1, <1>2, <1>3, <1>4, <1>5

(* A row is entered as the next of everything it is counted for. *)
LEMMA EnterSound ==
  ASSUME LedgerInv, NEW c \in Classes, NEW h \in Phases, NEW repair \in Repairs, NEW switched \in Nat,
         switched = (IF repair = "switch" THEN switches + 1 ELSE 0),
         switches' = (IF repair = "switch" THEN switches + 1 ELSE switches),
         Enter(c, h, repair, switched)
  PROVE  LedgerInv'
<1> DEFINE n == Len(transitions)
           exhausted == \/ attempts[c] + 1 > repairs_per_class
                        \/ reruns[h] + 1 > reruns_per_phase
                        \/ major + 1 > major_repairs
                        \/ repair = "switch" /\ switched > backend_switches
           r == [class |-> c, phase |-> h, repair |-> repair, attempt |-> attempts[c] + 1,
                 switches |-> switched, result |-> IF exhausted THEN "escalated" ELSE "recorded"]
<1>1. /\ open /\ open' = open
      /\ transitions' = Append(transitions, r)
      /\ attempts' = [attempts EXCEPT ![c] = attempts[c] + 1]
      /\ reruns' = [reruns EXCEPT ![h] = reruns[h] + 1]
      /\ major' = major + 1
      /\ log' = log /\ tail' = tail /\ written' = written
  BY DEF Enter
<1>2. /\ transitions \in Seq(Row) /\ Sound(transitions) /\ Accounts
      /\ attempts \in [Classes -> Nat] /\ reruns \in [Phases -> Nat] /\ switches \in Nat /\ major \in Nat
      /\ log \in Seq(Row) /\ Sound(log) /\ tail \in {"whole", "bare", "torn"}
      /\ written \in 0 .. n /\ n \in Nat
  BY <1>1, LenProperties DEF LedgerInv, TypeOK
<1>3. {repairs_per_class, reruns_per_phase, backend_switches, major_repairs} \subseteq Nat
  BY BudgetAssumption
<1>4. r \in Row
  BY <1>2 DEF Row, Results
<1>5. /\ attempts[c] = Tally(transitions, n, "class", c)
      /\ reruns[h] = Tally(transitions, n, "phase", h)
      /\ switches = Tally(transitions, n, "repair", "switch")
      /\ major = n
  BY <1>2 DEF Accounts
<1>6. /\ r.attempt = Tally(transitions, n, "class", r.class) + 1
      /\ r.switches = (IF r.repair = "switch" THEN Tally(transitions, n, "repair", "switch") + 1 ELSE 0)
      /\ r.result = "recorded" => ~exhausted
      /\ r.class = c /\ r.phase = h /\ r.repair = repair /\ r.attempt = attempts[c] + 1 /\ r.switches = switched
  BY <1>5
<1> HIDE DEF r
<1>7. r.result = "recorded" =>
        /\ r.attempt <= repairs_per_class
        /\ Tally(transitions, n, "phase", r.phase) + 1 <= reruns_per_phase
        /\ r.repair = "switch" => r.switches <= backend_switches
        /\ n + 1 <= major_repairs
  BY <1>2, <1>3, <1>5, <1>6
<1>8. Sound(transitions')
  BY <1>1, <1>2, <1>4, <1>6, <1>7, SoundAppend
<1>9. /\ transitions' \in Seq(Row)
      /\ Len(transitions') = n + 1
      /\ \A i \in 1 .. n : transitions'[i] = transitions[i]
      /\ transitions'[n + 1] = r
  BY <1>1, <1>2, <1>4, AppendProperties
<1>10. \A f, v : Tally(transitions', n + 1, f, v)
                   = Tally(transitions, n, f, v) + (IF r[f] = v THEN 1 ELSE 0)
  <2> TAKE f, v
  <2>1. \A j \in 1 .. n : transitions'[j] = transitions[j]
    BY <1>9
  <2>2. Tally(transitions', n, f, v) = Tally(transitions, n, f, v)
    BY <1>2, <2>1, TallyAgrees
  <2>3. Tally(transitions', n + 1, f, v)
          = Tally(transitions', n, f, v) + (IF transitions'[n + 1][f] = v THEN 1 ELSE 0)
    BY <1>2, TallyNext
  <2> QED
    BY <1>9, <2>2, <2>3
<1>11. \A f, v : Tally(transitions, n, f, v) \in Nat
  BY <1>2, TallyType
<1>12. Accounts'
  <2>1. ASSUME NEW d \in Classes
        PROVE  attempts'[d] = Tally(transitions', n + 1, "class", d)
    BY <1>1, <1>2, <1>6, <1>10, <1>11 DEF Accounts
  <2>2. ASSUME NEW g \in Phases
        PROVE  reruns'[g] = Tally(transitions', n + 1, "phase", g)
    BY <1>1, <1>2, <1>6, <1>10, <1>11 DEF Accounts
  <2>3. switches' = Tally(transitions', n + 1, "repair", "switch")
    BY <1>5, <1>6, <1>10, <1>11
  <2>4. major' = n + 1
    BY <1>1, <1>5
  <2> QED
    BY <1>9, <2>1, <2>2, <2>3, <2>4 DEF Accounts
<1>13. open /\ tail # "torn" => log = SubSeq(transitions', 1, written)
  <2>1. \A i \in 1 .. written : transitions[i] \in Row /\ transitions'[i] = transitions[i]
    BY <1>2, <1>9, ElementOfSeq
  <2>2. /\ SubSeq(transitions, 1, written) \in Seq(Row)
        /\ Len(SubSeq(transitions, 1, written)) = written
        /\ \A i \in 1 .. written : SubSeq(transitions, 1, written)[i] = transitions[i]
    BY <1>2, <2>1, SubSeqProperties
  <2>3. /\ SubSeq(transitions', 1, written) \in Seq(Row)
        /\ Len(SubSeq(transitions', 1, written)) = written
        /\ \A i \in 1 .. written : SubSeq(transitions', 1, written)[i] = transitions'[i]
    BY <1>2, <2>1, SubSeqProperties
  <2>4. SubSeq(transitions', 1, written) = SubSeq(transitions, 1, written)
    BY <2>1, <2>2, <2>3, SeqEqual
  <2> QED
    BY <2>4 DEF LedgerInv
<1>14. TypeOK'
  <2>1. attempts' \in [Classes -> Nat] /\ reruns' \in [Phases -> Nat] /\ switches' \in Nat /\ major' \in Nat
    BY <1>1, <1>2
  <2>2. written' \in 0 .. Len(transitions')
    BY <1>1, <1>2, <1>9
  <2> QED
    BY <1>1, <1>2, <1>9, <2>1, <2>2 DEF TypeOK
<1> QED
  BY <1>1, <1>2, <1>8, <1>12, <1>13, <1>14 DEF LedgerInv

(* The invariant holds at the start. *)
LEMMA LedgerInit == Init => LedgerInv
<1> SUFFICES ASSUME Init PROVE LedgerInv
  OBVIOUS
<1>1. Len(<<>>) = 0 /\ <<>> \in Seq(Row)
  BY EmptySeq
<1>2. TypeOK
  <2>1. attempts \in [Classes -> Nat] /\ reruns \in [Phases -> Nat]
    BY DEF Init, NoAttempts, NoReruns
  <2>2. written \in 0 .. Len(transitions)
    BY <1>1 DEF Init
  <2> QED
    BY <1>1, <2>1, <2>2 DEF Init, TypeOK
<1> QED
  BY <1>2, SoundEmpty DEF Init, LedgerInv

(* Every step keeps it. *)
LEMMA LedgerStep == LedgerInv /\ [Next]_vars => LedgerInv'
<1> SUFFICES ASSUME LedgerInv, [Next]_vars PROVE LedgerInv'
  OBVIOUS
<1>1. CASE Load
  <2>1. /\ log' = log /\ tail' = tail /\ tail # "torn" /\ open' = TRUE
        /\ transitions' = log /\ written' = Len(log)
        /\ attempts' = [c \in Classes |-> Max(AttemptsIn(log, c))]
        /\ reruns' = [h \in Phases |-> Tally(log, Len(log), "phase", h)]
        /\ switches' = Max(SwitchesIn(log)) /\ major' = Len(log)
    BY <1>1 DEF Load, Restore, file
  <2>2. /\ \A c \in Classes : Max(AttemptsIn(log, c)) = Tally(log, Len(log), "class", c)
        /\ Max(SwitchesIn(log)) = Tally(log, Len(log), "repair", "switch")
        /\ Len(log) \in Nat
    BY RestoreCounts DEF LedgerInv
  <2>3. \A f, v : Tally(log, Len(log), f, v) \in Nat
    BY <2>2, TallyType
  <2>4. log \in Seq(Row) /\ tail \in {"whole", "bare", "torn"} /\ Sound(log)
    BY DEF LedgerInv, TypeOK
  <2>5. Accounts'
    BY <2>1, <2>2 DEF Accounts
  <2>6. TypeOK'
    <3>1. attempts' \in [Classes -> Nat] /\ reruns' \in [Phases -> Nat]
      BY <2>1, <2>2, <2>3
    <3>2. switches' \in Nat /\ major' \in Nat /\ written' \in 0 .. Len(transitions')
      BY <2>1, <2>2, <2>3
    <3> QED
      BY <2>1, <2>4, <3>1, <3>2 DEF TypeOK
  <2>7. SubSeq(log, 1, Len(log)) = log
    BY <2>4, SubSeqFull
  <2> QED
    BY <2>1, <2>4, <2>5, <2>6, <2>7 DEF LedgerInv
<1>2. ASSUME NEW c \in Classes, NEW h \in Phases, Record(c, h)
      PROVE  LedgerInv'
  BY <1>2, EnterSound DEF Record, Repairs
<1>3. ASSUME NEW h \in Phases, SwitchBackend(h)
      PROVE  LedgerInv'
  <2>1. switches + 1 \in Nat /\ Dependency \in Classes
    BY BudgetAssumption DEF LedgerInv, TypeOK
  <2> QED
    BY <1>3, <2>1, EnterSound DEF SwitchBackend, Repairs
<1>4. CASE Write
  <2>1. /\ open /\ open' = open /\ transitions' = transitions
        /\ attempts' = attempts /\ reruns' = reruns /\ switches' = switches /\ major' = major
        /\ Put(Pending(Len(transitions)), "whole")
        /\ written' = Len(transitions)
    BY <1>4 DEF Write, counters
  <2>2. Len(transitions) \in Nat /\ Len(transitions) \in written .. Len(transitions)
    BY LenProperties DEF LedgerInv, TypeOK
  <2>3. /\ log' \in Seq(Row) /\ tail' \in {"whole", "bare", "torn"}
        /\ Sound(log')
        /\ tail' # "torn" => log' = SubSeq(transitions, 1, Len(transitions))
    BY <2>1, <2>2, PutSound
  <2>4. TypeOK'
    BY <2>1, <2>2, <2>3 DEF LedgerInv, TypeOK
  <2>5. Sound(transitions') /\ Accounts'
    BY <2>1 DEF LedgerInv, Accounts
  <2> QED
    BY <2>1, <2>3, <2>4, <2>5 DEF LedgerInv
<1>5. CASE End
  <2>1. PICK n \in written .. Len(transitions), end \in {"whole", "bare", "torn"} : EndAt(n, end)
    BY <1>5 DEF End
  <2>2. /\ open /\ open' = FALSE
        /\ Put(Pending(n), end)
        /\ transitions' = <<>> /\ written' = 0
        /\ attempts' = NoAttempts /\ reruns' = NoReruns /\ switches' = 0 /\ major' = 0
    BY <2>1 DEF EndAt
  <2>3. log' \in Seq(Row) /\ tail' \in {"whole", "bare", "torn"} /\ Sound(log')
    BY <2>2, PutSound
  <2>4. Len(<<>>) = 0 /\ <<>> \in Seq(Row)
    BY EmptySeq
  <2>5. TypeOK'
    <3>1. attempts' \in [Classes -> Nat] /\ reruns' \in [Phases -> Nat]
      BY <2>2 DEF NoAttempts, NoReruns
    <3>2. written' \in 0 .. Len(transitions')
      BY <2>2, <2>4
    <3> QED
      BY <2>2, <2>3, <2>4, <3>1, <3>2 DEF TypeOK
  <2> QED
    BY <2>2, <2>3, <2>5 DEF LedgerInv
<1>6. CASE UNCHANGED vars
  <2>1. Sound(log)' /\ TypeOK' /\ (open => Sound(transitions) /\ Accounts)'
    BY <1>6 DEF vars, LedgerInv, TypeOK, Accounts
  <2> QED
    BY <1>6, <2>1 DEF vars, LedgerInv
<1> QED
  BY <1>1, <1>2, <1>3, <1>4, <1>5, <1>6 DEF Next

(* The log and the counters of a session account for the same repairs, at  *)
(* every step of load, record and write, and at every interruption.        *)
THEOREM LedgerInvariant == Spec => []LedgerInv
  BY LedgerInit, LedgerStep, PTL DEF Spec

(* Types of the ledger. *)
THEOREM TypeCorrect == Spec => []TypeOK
<1>1. LedgerInv => TypeOK
  BY DEF LedgerInv
<1> QED
  BY <1>1, LedgerInvariant, PTL

(* Over all sessions of one log every repair on disk is counted once, and  *)
(* none of them is recorded beyond a budget without being escalated.       *)
THEOREM RepairsCounted == Spec => []EveryRepairCounts
<1>1. LedgerInv => EveryRepairCounts
  BY DEF LedgerInv, Sound, EveryRepairCounts
<1> QED
  BY <1>1, LedgerInvariant, PTL

-----------------------------------------------------------------------------
(* What RowsStay says of a step. *)
Kept ==
  \A i \in 1 .. Len(log) :
    i < Len(log) \/ tail # "bare" => i \in 1 .. Len(log') /\ log'[i] = log[i]

(* What an append may take away is the last row, if its line was not       *)
(* complete.                                                               *)
LEMMA PutKeeps ==
  ASSUME TypeOK, NEW n \in written .. Len(transitions), NEW end \in {"whole", "bare", "torn"},
         Put(Pending(n), end)
  PROVE  Kept
<1>1. log \in Seq(Row) /\ Len(log) \in Nat /\ tail \in {"whole", "bare", "torn"}
  BY LenProperties DEF TypeOK
<1>2. CASE tail = "whole"
  <2>1. Pending(n) \in Seq(Row)
    <3>1. /\ transitions \in Seq(Row) /\ written \in Nat /\ n \in Int
          /\ written + 1 \in 1 .. n + 1 /\ n <= Len(transitions)
      BY LenProperties DEF TypeOK
    <3>2. \A i \in written + 1 .. n : transitions[i] \in Row
      BY <3>1, LenProperties, ElementOfSeq
    <3> QED
      BY <3>1, <3>2, SubSeqProperties DEF Pending
  <2>2. log' = log \o Pending(n)
    BY <1>2 DEF Put
  <2>3. Len(log') = Len(log) + Len(Pending(n)) /\ Len(Pending(n)) \in Nat
    BY <1>1, <2>1, <2>2, ConcatProperties, LenProperties
  <2>4. \A i \in 1 .. Len(log) : log'[i] = log[i]
    BY <1>1, <2>1, <2>2, <2>3, ConcatProperties
  <2> QED
    BY <1>1, <2>3, <2>4 DEF Kept
<1>3. CASE tail = "bare" /\ log' = SubSeq(log, 1, Len(log) - 1)
  <2> SUFFICES ASSUME NEW i \in 1 .. Len(log), i < Len(log)
               PROVE  i \in 1 .. Len(log') /\ log'[i] = log[i]
    BY <1>3 DEF Kept
  <2>1. 1 \in Int /\ Len(log) - 1 \in Int /\ \A j \in 1 .. Len(log) - 1 : log[j] \in Row
    BY <1>1, ElementOfSeq
  <2>2. /\ Len(log') = IF 1 <= Len(log) - 1 THEN Len(log) - 1 - 1 + 1 ELSE 0
        /\ \A j \in 1 .. Len(log) - 1 - 1 + 1 : log'[j] = log[1 + j - 1]
    BY <1>3, <2>1, SubSeqProperties
  <2>3. i \in 1 .. Len(log) - 1 - 1 + 1 /\ 1 + i - 1 = i /\ 1 <= Len(log) - 1
    BY <1>1
  <2> QED
    BY <1>1, <2>2, <2>3
<1>4. CASE log' = log
  BY <1>4 DEF Kept
<1> QED
  BY <1>1, <1>2, <1>3, <1>4 DEF Put, file

(* The log is append-only: a complete row is never lost nor changed.       *)
THEOREM CompleteRowsStay == Spec => RowsStay
<1>1. ASSUME TypeOK, [Next]_vars PROVE Kept
  <2>1. CASE log' = log
    BY <2>1 DEF Kept
  <2>2. CASE Write
    <3>1. Len(transitions) \in written .. Len(transitions)
      BY <1>1, LenProperties DEF TypeOK
    <3>2. Put(Pending(Len(transitions)), "whole")
      BY <2>2 DEF Write
    <3> QED
      BY <1>1, <3>1, <3>2, PutKeeps
  <2>3. CASE End
    BY <1>1, <2>3, PutKeeps DEF End, EndAt
  <2> QED
    BY <1>1, <2>1, <2>2, <2>3
       DEF Next, vars, Load, Restore, file, Record, SwitchBackend, Enter
<1>2. TypeOK /\ [Next]_vars => [Kept]_vars
  BY <1>1
<1>3. [][Kept]_vars => RowsStay
  BY PTL DEF Kept, RowsStay
<1> QED
  BY TypeCorrect, <1>2, <1>3, PTL DEF Spec
=============================================================================
