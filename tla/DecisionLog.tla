---------------------------- MODULE DecisionLog ----------------------------
(***************************************************************************)
(* The recording half of the selector rollout (chain/decision_log.py): the *)
(* append-only sink to which chains push one record per selection, its     *)
(* failures and crashes, its recovery, and the report that pairs what was  *)
(* done with what the selector would have done.                            *)
(*                                                                         *)
(* One process holds the sink.  A line of the file names the push it came  *)
(* from; what a crash leaves of a line is either cut short or lacks only   *)
(* its newline.                                                            *)
(***************************************************************************)
EXTENDS Integers, FiniteSets, SequencesExt

CONSTANTS
    Requests,       \* logical request ids
    Decisions,      \* what selections decide
    MaxAttempts,    \* bounds: attempts of a request, selections in all
    MaxPushes

VARIABLES
    pushes,     \* how many records were pushed
    acked,      \* pushes whose write returned (history)
    file,       \* lines on disk
    buffer,     \* records the file object still has to write
    synced,     \* lines the last fsync covered
    sink,       \* "open", "closed", or "down" with its process
    fsync,      \* the sink's configuration
    outage      \* the machine, not only the process, has gone down (history)

logVars == <<pushes, acked, file, buffer, synced, sink, fsync, outage>>

Status == {"AGREED", "DISAGREED", "SHADOW_MISSING", "R0_OFF_FALLBACK",
           "EXPLAINED_FAIL_OPEN", "DUPLICATE", "OUT_OF_ORDER",
           "UNRESOLVED_OWNER_SIGNOFF"}
-----------------------------------------------------------------------------
\* What a selection may decide: by which kind of owner ("master" pushes,
\* "turbo" pulls), in which mode, how the host the selector would have chosen
\* compares with the baseline's, and whether it failed open.  A selector that
\* timed out, threw or was refused gave no score, a stale map still gives one,
\* and REQUIRED mode raises on a reason before it records.
AllDecisions ==
    {d \in [owner: {"master", "turbo"},
            mode: {"off", "shadow", "enforce", "required"},
            shadow: {"none", "same", "other"}, fallback: BOOLEAN] :
        /\ d.mode = "off" => d.shadow = "none"
        /\ d.mode \in {"off", "required"} => ~d.fallback}

ASSUME DecisionAssumption ==
    /\ Decisions \subseteq AllDecisions
    /\ MaxAttempts \in Nat
    /\ MaxPushes \in Nat

-----------------------------------------------------------------------------
\* The report.

PairStatus(d) ==
    CASE d.owner = "turbo"                      -> "UNRESOLVED_OWNER_SIGNOFF"
      [] d.owner = "master" /\ d.shadow = "same"  -> "AGREED"
      [] d.owner = "master" /\ d.shadow = "other" -> "DISAGREED"
      [] OTHER -> IF d.mode = "off" THEN "R0_OFF_FALLBACK"
                  ELSE IF d.fallback THEN "EXPLAINED_FAIL_OPEN"
                  ELSE "SHADOW_MISSING"

Key(rec) == <<rec.request, rec.attempt>>

\* Variant: a record that comes late is not remembered.
JudgeForgetting(acc, rec) ==
    LET late == rec.attempt < acc.high[rec.request]
        status == IF Key(rec) \in acc.seen THEN "DUPLICATE"
                  ELSE IF late THEN "OUT_OF_ORDER" ELSE PairStatus(rec.decision)
    IN  [seen   |-> IF late THEN acc.seen ELSE acc.seen \cup {Key(rec)},
         high   |-> IF status \in {"DUPLICATE", "OUT_OF_ORDER"} THEN acc.high
                    ELSE [acc.high EXCEPT ![rec.request] = rec.attempt],
         counts |-> [acc.counts EXCEPT ![status] = @ + 1]]

\* A record seen before is a duplicate, one behind its request's high-water
\* mark is out of order, and any other is judged and moves the mark.
Judge(acc, rec) ==
    LET status == IF Key(rec) \in acc.seen THEN "DUPLICATE"
                  ELSE IF rec.attempt < acc.high[rec.request]
                       THEN "OUT_OF_ORDER" ELSE PairStatus(rec.decision)
    IN  [seen   |-> acc.seen \cup {Key(rec)},
         high   |-> IF status \in {"DUPLICATE", "OUT_OF_ORDER"} THEN acc.high
                    ELSE [acc.high EXCEPT ![rec.request] = rec.attempt],
         counts |-> [acc.counts EXCEPT ![status] = @ + 1]]

Defects == {"DUPLICATE", "OUT_OF_ORDER", "SHADOW_MISSING"}
Unready == {"UNRESOLVED_OWNER_SIGNOFF", "R0_OFF_FALLBACK",
            "EXPLAINED_FAIL_OPEN"}

ReportOf(records) ==
    LET judged[i \in 0..Len(records)] ==
            IF i = 0 THEN [seen   |-> {}, high |-> [r \in Requests |-> -1],
                           counts |-> [s \in Status |-> 0]]
            ELSE Judge(judged[i - 1], records[i])
        end == judged[Len(records)]
        accepted == \A s \in Defects : end.counts[s] = 0
    IN  [counts   |-> end.counts,
         accepted |-> accepted,
         rollout  |-> accepted /\ \A s \in Unready : end.counts[s] = 0]

-----------------------------------------------------------------------------

LogInit ==
    /\ pushes = 0
    /\ acked = {}
    /\ file = <<>>
    /\ buffer = <<>>
    /\ synced = 0
    /\ sink = "open"
    /\ fsync \in BOOLEAN
    /\ outage = FALSE

disk == <<file, buffer, synced>>

Whole(line)      == line.end = "whole"
Cut(p, end)      == [push |-> p.push, record |-> p.record, end |-> end]
Unfinished(lines) ==
    lines # <<>> /\ Last(lines).end \in {"torn", "unterminated"}

\* Writing the rest of a record to a file: it continues the line that was
\* begun for it, garbles one that was begun for another, or is a new line.
Complete(lines, p) ==
    IF ~Unfinished(lines) THEN Append(lines, Cut(p, "whole"))
    ELSE Append(Front(lines),
                Cut(p, IF Last(lines).push = p.push THEN "whole"
                                                    ELSE "garbled"))

\* The file with all that is pending written to it.
Flushed(pending) ==
    LET flushed[i \in 0..Len(pending)] ==
            IF i = 0 THEN file ELSE Complete(flushed[i - 1], pending[i])
    IN  flushed[Len(pending)]

\* Of the next pending record so much may be on disk when a write fails.
Begun(lines, p) ==
    IF ~Unfinished(lines)
    THEN {lines} \cup {Append(lines, Cut(p, end)) :
                          end \in {"torn", "unterminated"}}
    ELSE {lines, Append(Front(lines), Cut(p, "unterminated"))}

\* A write to disk returns, fails somewhere and leaves the rest in the file
\* object, or fails in fsync when everything is written.
Written(pending) ==
    /\ file' = Flushed(pending)
    /\ buffer' = <<>>

WriteFails(pending) ==
    \E n \in 0..(Len(pending) - 1) :
       /\ file' \in Begun(Flushed(SubSeq(pending, 1, n)), pending[n + 1])
       /\ buffer' = SubSeq(pending, n + 1, Len(pending))

\* DecisionSink.write of the record whose push is the last of the pending
\* ones.  The observer swallows an error, so only acked tells.
Write(pending) ==
    \/ /\ Written(pending)
       /\ synced' = IF fsync THEN Len(file') ELSE synced
       /\ acked' = acked \cup {Last(pending).push}
    \/ /\ WriteFails(pending)
       /\ UNCHANGED <<synced, acked>>
    \/ /\ fsync
       /\ Written(pending)
       /\ UNCHANGED <<synced, acked>>

\* A chain places a leg and pushes the decision.  The attempt is the chain's:
\* any, for attempts advance between selections and a new chain for the same
\* request starts over.
Select(record) ==
    /\ sink = "open"
    /\ pushes < MaxPushes
    /\ pushes' = pushes + 1
    /\ Write(Append(buffer, [push |-> pushes', record |-> record]))
    /\ UNCHANGED <<sink, fsync, outage>>

Close ==
    /\ sink = "open"
    /\ Written(buffer)
    /\ sink' = "closed"
    /\ UNCHANGED <<pushes, acked, synced, fsync, outage>>

\* close() and read_all() flush first and raise when that fails.
FlushFails ==
    /\ sink = "open"
    /\ buffer # <<>>
    /\ WriteFails(buffer)
    /\ UNCHANGED <<pushes, acked, synced, sink, fsync, outage>>

\* The process dies.  An outage also takes what fsync did not cover.
ProcessDies ==
    /\ sink # "down"
    /\ sink' = "down"
    /\ buffer' = <<>>
    /\ UNCHANGED <<pushes, acked, file, synced, fsync, outage>>

Outage ==
    /\ sink' = "down"
    /\ buffer' = <<>>
    /\ outage' = TRUE
    /\ \E n \in Min({synced, Len(file)})..Len(file) :
          \/ file' = SubSeq(file, 1, n)
          \/ /\ n < Len(file)
             /\ file' = Append(SubSeq(file, 1, n), Cut(file[n + 1], "torn"))
    /\ UNCHANGED <<pushes, acked, synced, fsync>>

\* Variant: only a line that does not parse is cut off.
RecoveredIfTorn(lines) ==
    IF lines # <<>> /\ Last(lines).end = "torn" THEN Front(lines) ELSE lines

\* _recover_truncated_tail: everything up to the first line that is cut short
\* or does not parse.
Recovered(lines) ==
    LET bad == {i \in 1..Len(lines) : ~Whole(lines[i])}
    IN  IF bad = {} THEN lines ELSE SubSeq(lines, 1, Min(bad) - 1)

\* A restarted process opens the same file and keeps appending.
Reopen ==
    /\ sink # "open"
    /\ sink' = "open"
    /\ file' = Recovered(file)
    /\ synced' = Min({synced, Len(file')})
    /\ UNCHANGED <<pushes, acked, buffer, fsync, outage>>

\* read_all flushes and raises on a line that is not JSON.
Parses(line)   == line.end \in {"whole", "unterminated"}
Records(lines) == [i \in 1..Len(lines) |-> lines[i].record]

ReadAll ==
    /\ sink # "down"
    /\ Written(buffer)
    /\ \A i \in 1..Len(file') : Parses(file'[i])
    /\ UNCHANGED <<pushes, acked, synced, sink, fsync, outage>>

LogNext ==
    \/ \E r \in Requests, a \in 0..MaxAttempts, d \in Decisions :
          Select([request |-> r, attempt |-> a, decision |-> d])
    \/ Close
    \/ FlushFails
    \/ ProcessDies
    \/ Outage
    \/ Reopen
    \/ ReadAll

-----------------------------------------------------------------------------

\* Whatever fails, dies and is restarted, the log holds pushed records in the
\* order they were pushed, none twice, and every record whose write returned,
\* unless fsync is off and the machine went down.
LogIsHistory ==
    /\ \A i, j \in 1..Len(file) : i < j => file[i].push < file[j].push
    /\ (fsync \/ ~outage) =>
          \A p \in acked : \E i \in 1..Len(file) :
                             file[i].push = p /\ Whole(file[i])

\* A sink that is open reads back: recovery leaves nothing that a later write
\* would garble, and a failed write is made good by the next one.
LogStaysReadable ==
    sink = "open" =>
        LET lines == Flushed(buffer)
        IN  \A i \in 1..Len(lines) : Whole(lines[i])

\* What was acknowledged is there, and can be read.
LogIsKept == LogIsHistory /\ LogStaysReadable

\* The report on the log says what its records say: they are accepted when
\* the attempts of each request only advance and each has a verdict, and are
\* ready for rollout when moreover each compares two hosts of a push owner.
Advances(records, i) ==
    \A j \in 1..(i - 1) : records[j].request = records[i].request
                          => records[j].attempt < records[i].attempt

Counted(records, status) ==
    Cardinality({i \in 1..Len(records) :
                    Advances(records, i) /\ PairStatus(records[i].decision) = status})

Repeated(records) ==
    Cardinality({i \in 1..Len(records) :
                    \E j \in 1..(i - 1) : Key(records[j]) = Key(records[i])})

ReportTellsTheTruth ==
    LET records == Records(Flushed(buffer))
        verdict == ReportOf(records)
        All     == 1..Len(records)
    IN      /\ \A s \in Status \ {"DUPLICATE", "OUT_OF_ORDER"} :
                  verdict.counts[s] = Counted(records, s)
            /\ verdict.counts["DUPLICATE"] = Repeated(records)
            /\ SumFunctionOnSet(verdict.counts, Status)
                  = Len(records)
            /\ verdict.accepted <=>
                  \A i \in All : /\ Advances(records, i)
                                 /\ PairStatus(records[i].decision) # "SHADOW_MISSING"
            /\ verdict.rollout <=>
                  \A i \in All : /\ Advances(records, i)
                                 /\ records[i].decision.owner = "master"
                                 /\ records[i].decision.shadow # "none"
=============================================================================
