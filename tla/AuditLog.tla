------------------------------- MODULE AuditLog -------------------------------
(***************************************************************************)
(* The bi-temporal audit log (bitemporal_log: BiTemporalAuditLog): a JSONL  *)
(* file of chained records, appended to by every process that was given its *)
(* path, and the views of the present and of the past that are read from it.*)
(*                                                                          *)
(* record() reads the file twice, for the hash of the last entry and for    *)
(* its number, and appends then; nothing locks the file.  Within a process  *)
(* record() does not await, so a writer is a process.  A process may die    *)
(* while it appends, and a line may be damaged afterwards.                  *)
(*                                                                          *)
(* A hash is the identity of what it was computed from: "id" stands for     *)
(* record_id and record_hash, and "intact" says that the content still has  *)
(* the stored hash (and signature).  Slip_... are plausible slips in the    *)
(* definition that follows.                                                 *)
(***************************************************************************)
EXTENDS Naturals, Sequences, SequencesExt, Listing

CONSTANTS Writers,    \* processes that append to the file
          Jobs,       \* job ids
          Garbage,    \* a line that json.loads() refuses
          MaxRecords, \* bound: calls of record()
          MaxTime     \* bound: the clock

VARIABLES
  log,      \* the lines of the file
  open,     \* the last line has no newline
  call,     \* the record() each writer is in
  now,      \* the clock
  begun,    \* calls of record() so far
  written,  \* history: the records that were written to the end, in order
  faults    \* history: which faults occurred

vars == <<log, open, call, now, begun, written, faults>>

Ids == 1..MaxRecords
Times == 0..MaxTime
Axes == {"valid", "transaction"}
Faults == {"overlap", "torn", "damage", "cut"}

\* prev is previous_hash, fixes is correction_of (0: None).
Record == [id : Ids, seq : Nat, prev : Ids \cup {0}, job : Jobs, valid : Times,
           trans : Times, fixes : Ids \cup {0}, intact : BOOLEAN]

NoCall == [stage |-> "idle"]

Init ==
  /\ log = <<>> /\ open = FALSE
  /\ call = [w \in Writers |-> NoCall]
  /\ now = 0 /\ begun = 0
  /\ written = <<>> /\ faults = {}

-----------------------------------------------------------------------------
(* Reading.                                                                 *)

\* read_all: malformed lines are skipped.
Readable(lines) == At(lines, {i \in DOMAIN lines : lines[i] # Garbage})

\* _last_entry's record_hash: that of the last line that can be read.
LastHash == IF Readable(log) = <<>> THEN 0 ELSE Last(Readable(log)).id

\* Mutant: numbers count the lines of the file.
Slip_CountsLines == Len(log) + 1

NextSequenceNumber ==
  IF Readable(log) = <<>> THEN 1 ELSE Last(Readable(log)).seq + 1

\* verify_chain: numbers from 1, each record after the one whose hash it holds.
Chained(records) ==
  \A i \in DOMAIN records :
    /\ records[i].seq = i
    /\ records[i].prev = IF i = 1 THEN 0 ELSE records[i-1].id
    /\ records[i].intact

VerifyLenient == Chained(Readable(log))

VerifyStrict ==
  /\ \A i \in DOMAIN log : log[i] # Garbage
  /\ Chained(log)

Superseded == {r.fixes : r \in Range(Readable(log))} \ {0}

Key(record, axis) == IF axis = "valid" THEN record.valid ELSE record.trans

\* The positions of a job's records that no correction refers to.
Rows(job) ==
  LET records == Readable(log)
      gone == Superseded
  IN  {i \in DOMAIN records : records[i].job = job /\ records[i].id \notin gone}

KeyAt(i, axis) == Key(Readable(log)[i], axis)

\* sorted() is stable.
History(job, axis) ==
  Listed(Rows(job), {p \in Pairs(Rows(job)) :
    \/ KeyAt(p[1], axis) < KeyAt(p[2], axis)
    \/ KeyAt(p[1], axis) = KeyAt(p[2], axis) /\ p[1] < p[2]})

\* max(): the first of the latest.  The position, or 0 for None.
StateAsOf(job, time, axis) ==
  LET rows == {i \in Rows(job) : KeyAt(i, axis) <= time} IN
  IF rows = {} THEN 0
  ELSE CHOOSE i \in rows : \A k \in rows :
         KeyAt(k, axis) < KeyAt(i, axis) \/ (KeyAt(k, axis) = KeyAt(i, axis) /\ i <= k)

\* Mutant: of two records with one time the first is kept.
Slip_KeepsFirst(job, axis) == StateAsOf(job, now, axis)

\* A record replaces what was found before unless it is earlier.
CurrentState(job, axis) ==
  IF Rows(job) = {} THEN 0
  ELSE CHOOSE i \in Rows(job) : \A k \in Rows(job) :
         KeyAt(k, axis) < KeyAt(i, axis) \/ (KeyAt(k, axis) = KeyAt(i, axis) /\ k <= i)

-----------------------------------------------------------------------------
(* record().                                                                *)

InCall(w) == call[w].stage # "idle"

\* Mutant: the two times are exchanged.
Slip_TimesExchanged(job, valid, fixes) ==
  [id |-> begun + 1, seq |-> 0, prev |-> LastHash, job |-> job,
   valid |-> now, trans |-> valid, fixes |-> fixes, intact |-> TRUE]

\* The entry, which gets its number later.
Entry(job, valid, fixes) ==
  [id |-> begun + 1, seq |-> 0, prev |-> LastHash, job |-> job,
   valid |-> valid, trans |-> now, fixes |-> fixes, intact |-> TRUE]

\* The times are taken, then the file is read for the hash of its last entry.
\* The caller may give an earlier valid_time, and a record it has seen that
\* this one corrects.
Begin(w, job, valid, fixes) ==
  /\ ~InCall(w)
  /\ begun < MaxRecords
  /\ begun' = begun + 1
  /\ call' = [call EXCEPT ![w] =
       [stage |-> "number", since |-> now, record |-> Entry(job, valid, fixes)]]
  /\ faults' = faults \cup IF \E v \in Writers : InCall(v) THEN {"overlap"} ELSE {}
  /\ UNCHANGED <<log, open, now, written>>

\* The file is read again for the number of its last entry.
Number(w) ==
  /\ call[w].stage = "number"
  /\ call' = [call EXCEPT ![w].stage = "append", ![w].record.seq = NextSequenceNumber]
  /\ UNCHANGED <<log, open, now, begun, written, faults>>

\* What an append to the file gives: text that follows an open line makes one
\* line with it, which is not JSON.
Appended(line) ==
  IF open THEN [log EXCEPT ![Len(log)] = Garbage] ELSE Append(log, line)

Returns(w) == call' = [call EXCEPT ![w] = NoCall]

Write(w) ==
  /\ call[w].stage = "append"
  /\ log' = Appended(call[w].record)
  /\ open' = FALSE
  /\ written' = Append(written, call[w].record)
  /\ Returns(w)
  /\ UNCHANGED <<now, begun, faults>>

\* An OSError is printed; the caller gets the entry all the same.
WriteFails(w) ==
  /\ call[w].stage = "append"
  /\ Returns(w)
  /\ UNCHANGED <<log, open, now, begun, written, faults>>

\* The process dies in the write: a part of the line is in the file, or all of
\* it but the newline.
DiesWriting(w, whole) ==
  /\ call[w].stage = "append"
  /\ log' = Appended(IF whole THEN call[w].record ELSE Garbage)
  /\ open' = TRUE
  /\ written' = IF whole THEN Append(written, call[w].record) ELSE written
  /\ faults' = faults \cup {"torn"}
  /\ Returns(w)
  /\ UNCHANGED <<now, begun>>

\* migrate_legacy_log, which refuses a file that exists (unless told to empty
\* it): the rows of the old log, all recorded now.
Migrate(rows) ==
  /\ log = <<>>
  /\ begun + Len(rows) <= MaxRecords
  /\ log' = [i \in DOMAIN rows |->
       [id |-> begun + i, seq |-> i, prev |-> IF i = 1 THEN 0 ELSE begun + i - 1,
        job |-> rows[i][1], valid |-> rows[i][2], trans |-> now, fixes |-> 0,
        intact |-> TRUE]]
  /\ written' = written \o log'
  /\ begun' = begun + Len(rows)
  /\ faults' = faults \cup IF \E v \in Writers : InCall(v) THEN {"overlap"} ELSE {}
  /\ UNCHANGED <<open, call, now>>

Tick ==
  /\ now < MaxTime
  /\ now' = now + 1
  /\ UNCHANGED <<log, open, call, begun, written, faults>>

-----------------------------------------------------------------------------
(* What may happen to a record in the file, once.                           *)

\* Mutant: the hash does not cover the field that was changed.
Slip_NotCovered(record) == [record EXCEPT !.valid = MaxTime - @]

\* _hash_entry covers every field but record_hash and signature.
Altered(record) == [record EXCEPT !.valid = MaxTime - @, !.intact = FALSE]

Damage(i, what) ==
  /\ faults \cap {"damage", "cut"} = {}
  /\ log[i] # Garbage
  /\ \/ what = "alter"  /\ log' = [log EXCEPT ![i] = Altered(@)]
     \/ what = "spoil"  /\ log' = [log EXCEPT ![i] = Garbage]
     \/ what = "lose"   /\ log' = RemoveAt(log, i)
     \/ what = "double" /\ log' = InsertAt(log, i, log[i])
     \/ /\ what = "swap" /\ i < Len(log)
        /\ log' = [log EXCEPT ![i] = log[i+1], ![i+1] = log[i]]
  /\ open' = (open /\ ~(what = "lose" /\ i = Len(log)))
  /\ faults' = faults \cup {IF what = "lose" /\ i = Len(log) THEN "cut" ELSE "damage"}
  /\ UNCHANGED <<call, now, begun, written>>

Kinds == {"alter", "spoil", "lose", "double", "swap"}

Next ==
  \/ \E w \in Writers :
       \/ \E j \in Jobs, t \in 0..now, f \in {r.id : r \in Range(Readable(log))} \cup {0} :
            Begin(w, j, t, f)
       \/ Number(w)
       \/ Write(w)
       \/ WriteFails(w)
       \/ \E whole \in BOOLEAN : DiesWriting(w, whole)
  \/ \E rows \in [1..2 -> Jobs \X (0..now)] : Migrate(rows)
  \/ \E i \in DOMAIN log, what \in Kinds : Damage(i, what)
  \/ Tick

Spec == Init /\ [][Next]_vars

-----------------------------------------------------------------------------
(* Properties.                                                              *)

TypeOK ==
  /\ \A i \in DOMAIN log : log[i] \in Record \cup {Garbage}
  /\ open \in BOOLEAN
  /\ \A w \in Writers : InCall(w) => call[w].record \in Record
  /\ now \in Times /\ begun \in 0..MaxRecords
  /\ \A i \in DOMAIN written : written[i] \in Record
  /\ faults \subseteq Faults

\* What one writer at a time appends verifies: strictly as long as no write was
\* torn, and leniently even then, although a torn line may swallow the record
\* after it (record() continues from the last line that can be read).
ChainVerifies ==
  /\ TypeOK
  /\ faults = {} => VerifyStrict
  /\ faults \subseteq {"torn"} => VerifyLenient

\* A chain that verifies strictly is the whole history: nothing was altered,
\* lost, doubled or reordered, whatever was torn and damaged on the way.  The
\* chain cannot show that its end was cut off, nor which of two records with
\* one predecessor was lost.
StrictMeansComplete ==
  VerifyStrict /\ "cut" \notin faults /\ ~({"overlap", "damage"} \subseteq faults)
    => log = written

\* The readers agree on the present: current_state() is the end of history(),
\* and state_as_of() finds a record of the same time.
ViewsAgree ==
  \A j \in Jobs, a \in Axes :
    LET last == CurrentState(j, a)
        past == StateAsOf(j, MaxTime, a)
    IN  /\ last = (IF History(j, a) = <<>> THEN 0 ELSE Last(History(j, a)))
        /\ (past = 0) = (last = 0)
        /\ last # 0 => KeyAt(past, a) = KeyAt(last, a)

\* What the log says was known at a time that is over changes only when a
\* record is corrected, as long as nothing was torn or damaged and no write
\* was in progress then.
Known(job, time) ==
  LET i == StateAsOf(job, time, "transaction") IN
  IF i = 0 THEN 0 ELSE Readable(log)[i].id

Over(time) ==
  time < now /\ \A w \in Writers : InCall(w) => time < call[w].since

OnlyCorrectionsRewrite ==
  [][\A j \in Jobs, t \in Times :
       Over(t) /\ faults' = {} /\ Known(j, t)' # Known(j, t)
         => Known(j, t) \in Superseded' \ Superseded]_vars

\* state_as_of(axis="transaction") is "what the system knew at that recording
\* time": nothing that happens later changes it.
PastAnswersStand ==
  [][\A j \in Jobs, t \in Times :
       Over(t) /\ faults' = {} => Known(j, t)' = Known(j, t)]_vars
===============================================================================
