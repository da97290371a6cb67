----------------------------- MODULE ScanResume -----------------------------
(***************************************************************************)
(* The two tools that measure a range of blocks and keep what they have    *)
(* measured in a CSV file, so that a run can be resumed:                   *)
(* inscription_scan.py ("scan"), which asks a node for each block, and     *)
(* spam_strip.py ("strip"), which reads the node's files.                  *)
(*                                                                         *)
(* The file is modelled as the text it is.  A number is the sequence of    *)
(* its digits, a line a sequence of numbers, and the last line may lack    *)
(* its newline (unended), because a process that is killed leaves any      *)
(* prefix of what it had buffered.  A run that resumes appends to that.    *)
(***************************************************************************)
EXTENDS Integers, FiniteSets, Sequences, SequencesExt

CONSTANTS
  Lo, Hi,               \* --start and --end
  FlushEvery,           \* rows between two flushes: 50 and 500 in the code
  MaxAttempts,          \* rpc gives up at this many failures: 6
  Short, Long, Patience, MaxWait, \* 30, 60, 300 and 3600 seconds
  NoFile,
  MaxRuns, MaxKills     \* bounds of the model

Blocks == Lo .. Hi

ASSUME RangeAssumption == Lo \in 10 .. 33 /\ Hi \in Lo .. 33
ASSUME FlushAssumption == FlushEvery \in Nat \ {0} /\ MaxAttempts \in Nat \ {0}
ASSUME WaitAssumption  == Short \in Nat \ {0} /\ Long \in Nat \ {0}
                          /\ Patience \in Nat /\ MaxWait \in Nat
ASSUME BoundAssumption == MaxRuns \in Nat /\ MaxKills \in Nat

VARIABLES
  tool,      \* "scan" or "strip"
  bad,       \* the blocks whose merkle root does not match
  file,      \* the lines on disk, the header first, or NoFile
  unended,   \* the file's last line has no newline
  pc,        \* "idle", "header", "hash", "raw", "row"
  height, lastH, tot, fail, rows, buffer, \* main: its loop and its unflushed rows
  waited, attempt,                        \* rpc: the call in progress
  report,    \* what the last run to end has printed
  runs, kills, \* how many so far
  torn       \* how many kills have left a cut line, or no header

loop == <<height, lastH, tot, fail, rows, buffer>>
call == <<waited, attempt>>
vars == <<tool, bad, file, unended, pc, loop, call, report, runs, kills, torn>>

-----------------------------------------------------------------------------
(* The text of the file. *)

Digits(n) == IF n < 10 THEN <<n>> ELSE <<n \div 10, n % 10>>
Number(s) == FoldLeft(LAMBDA n, d : 10 * n + d, 0, s)

Header == <<"header">>

(* A measure of block h; all of one length, and none zero. *)
Size(h) == 3 * h

(* What is counted of block h besides its size: "scan" ends its rows with    *)
(* malformed_scripts, which may have several digits, "strip" with merkle_ok. *)
Mark(h) == IF tool = "scan" THEN Size(h) ELSE IF h \in bad THEN 0 ELSE 1

Row(h) == <<Digits(h), Digits(Size(h)), Digits(Mark(h))>>

(* A line is counted if it splits into the right number of integers. *)
Parses(line) == Len(line) = 3 /\ \A i \in 1 .. 3 : line[i] # <<>>

GoodLines(f) ==
  IF f = NoFile THEN <<>>
  ELSE SelectSeq(SubSeq(f, 2, Len(f)), Parses)

Added(t, line) == [size |-> t.size + Number(line[2]), mark |-> t.mark + Number(line[3])]
Nothing == [size |-> 0, mark |-> 0]
Totals(lines) == FoldLeft(Added, Nothing, lines)

(* read_existing: the height of the last good line, and the sums of all. *)
LastIn(f) == LET g == GoodLines(f) IN IF g = <<>> THEN Lo - 1 ELSE Number(g[Len(g)][1])

(* Text that is appended runs on from a line that was cut. *)
Appended(f, cut, lines) ==
  IF ~cut \/ lines = <<>> THEN f \o lines
  ELSE LET old == f[Len(f)]
           new == lines[1]
       IN  Front(f) \o << Front(old) \o <<Last(old) \o Head(new)>> \o Tail(new) >> \o Tail(lines)

(* What may be left of a line of which a part was written: whole numbers, *)
(* then the first digits of the next, up to all of it but the newline.    *)
Cuts(line) ==
  UNION { { SubSeq(line, 1, k) \o << SubSeq(line[k + 1], 1, d) >> :
              d \in 0 .. Len(line[k + 1]) } : k \in 0 .. 2 } \ { << <<>> >> }

-----------------------------------------------------------------------------
Init ==
  /\ tool \in {"scan", "strip"}
  /\ bad \in {{}} \cup {{h} : h \in Blocks}
  /\ file = NoFile /\ unended = FALSE
  /\ pc = "idle"
  /\ height = Lo /\ lastH = Lo - 1 /\ tot = Nothing /\ fail = 0
  /\ rows = 0 /\ buffer = <<>>
  /\ waited = 0 /\ attempt = 0
  /\ report = [done |-> FALSE, last |-> Lo - 1, tot |-> Nothing, fail |-> 0]
  /\ runs = 0 /\ kills = 0 /\ torn = 0

FirstCall == IF tool = "scan" THEN "hash" ELSE "raw"

(* Faulty: a resumed run forgets the mismatches of the earlier ones. *)
FailuresForgotten(f) == 0

(* Failures known from the rows of earlier runs; only "strip" has them. *)
FailuresBefore(f) ==
  IF tool = "scan" \/ GoodLines(f) = <<>> THEN 0
  ELSE LastIn(f) - Lo + 1 - Totals(GoodLines(f)).mark

(* main up to its loop.  Without --resume, or without a file, it is begun anew. *)
Start(resume) ==
  /\ pc = "idle" /\ runs < MaxRuns
  /\ runs' = runs + 1
  /\ LET old == IF resume THEN file ELSE NoFile
     IN  IF LastIn(old) + 1 > Hi
         THEN /\ report' = [done |-> TRUE, last |-> Hi, tot |-> Totals(GoodLines(old)),
                            fail |-> FailuresBefore(old)]
              /\ UNCHANGED <<file, unended, pc, loop>>
         ELSE /\ height' = LastIn(old) + 1 /\ lastH' = LastIn(old)
              /\ tot' = Totals(GoodLines(old)) /\ fail' = FailuresBefore(old)
              /\ rows' = 0 /\ buffer' = <<>>
              /\ IF old = NoFile
                 THEN file' = <<>> /\ unended' = FALSE /\ pc' = "header"
                 ELSE UNCHANGED <<file, unended>> /\ pc' = FirstCall
              /\ UNCHANGED report
  /\ UNCHANGED <<tool, bad, call, kills, torn>>

WriteHeader ==
  /\ pc = "header"
  /\ file' = <<Header>> /\ pc' = FirstCall
  /\ UNCHANGED <<tool, bad, unended, loop, call, report, runs, kills, torn>>

-----------------------------------------------------------------------------
(* The end of a run, in order or after an exception: the buffered rows are   *)
(* flushed and a summary of t is printed.                                    *)
End(done, t) ==
  /\ pc' = "idle"
  /\ file' = Appended(file, unended, buffer)
  /\ unended' = (unended /\ buffer = <<>>)
  /\ buffer' = <<>>
  /\ report' = [done |-> done, last |-> lastH, tot |-> t, fail |-> fail]
  /\ waited' = 0 /\ attempt' = 0
  /\ UNCHANGED <<tool, bad, height, lastH, tot, fail, rows, runs, kills, torn>>

InCall == pc \in {"hash", "raw"} /\ height <= Hi

(* rpc, or for "strip" the read of a file. *)
Answered ==
  /\ InCall
  /\ pc' = IF pc = "hash" THEN "raw" ELSE "row"
  /\ waited' = 0 /\ attempt' = 0
  /\ UNCHANGED <<tool, bad, file, unended, loop, report, runs, kills, torn>>

Pause == IF waited < Patience THEN Short ELSE Long

(* 403: a pause, while all pauses of this call are not too long. *)
Throttled ==
  /\ InCall /\ tool = "scan"
  /\ waited + Pause <= MaxWait
  /\ waited' = waited + Pause
  /\ UNCHANGED <<tool, bad, file, unended, pc, loop, attempt, report, runs, kills, torn>>

(* Faulty, and what the module's text promises: throttling is waited out     *)
(* indefinitely.                                                             *)
WaitsIndefinitely ==
  /\ InCall /\ tool = "scan"
  /\ waited + Pause > MaxWait
  /\ waited' = 0
  /\ UNCHANGED <<tool, bad, file, unended, pc, loop, attempt, report, runs, kills, torn>>

(* 403 once too often: rpc raises, and the run is over. *)
ThrottledTooLong ==
  /\ InCall /\ tool = "scan"
  /\ waited + Pause > MaxWait
  /\ End(FALSE, tot)

(* Any other failure that may pass. *)
Retried ==
  /\ InCall /\ tool = "scan"
  /\ attempt + 1 < MaxAttempts
  /\ attempt' = attempt + 1
  /\ UNCHANGED <<tool, bad, file, unended, pc, loop, waited, report, runs, kills, torn>>

(* Any other exception that ends the run: too often failed, 401 or 404, an   *)
(* error of the node, a block that cannot be read or parsed.                 *)
GivenUp == InCall /\ End(FALSE, tot)

(* The row of a block: counted, written to the buffer, flushed now and then. *)
AddRow ==
  /\ pc = "row"
  /\ LET r == Row(height)
         b == Append(buffer, r)
     IN  /\ tot' = Added(tot, r)
         /\ fail' = IF tool = "strip" /\ height \in bad THEN fail + 1 ELSE fail
         /\ rows' = rows + 1 /\ lastH' = height /\ height' = height + 1
         /\ IF (rows + 1) % FlushEvery = 0
            THEN /\ file' = Appended(file, unended, b) /\ unended' = FALSE
                 /\ buffer' = <<>>
            ELSE /\ buffer' = b /\ UNCHANGED <<file, unended>>
  /\ pc' = FirstCall
  /\ UNCHANGED <<tool, bad, call, report, runs, kills, torn>>

Finish == pc = FirstCall /\ height > Hi /\ End(TRUE, tot)

(* Ctrl-C between two steps, or after a block was counted and before its row. *)
Interrupt ==
  \/ pc \in {"hash", "raw", "row"} /\ End(FALSE, tot)
  \/ pc = "row" /\ End(FALSE, Added(tot, Row(height)))

(* The process is killed; of its buffer any prefix may have been written. *)
Kill ==
  /\ pc # "idle" /\ kills < MaxKills
  /\ kills' = kills + 1 /\ pc' = "idle" /\ buffer' = <<>>
  /\ \E n \in 0 .. Len(buffer) :
       LET whole == SubSeq(buffer, 1, n)
       IN  \/ /\ file' = Appended(file, unended, whole)
              /\ unended' = (unended /\ n = 0)
              /\ torn' = IF pc = "header" THEN torn + 1 ELSE torn
           \/ /\ n < Len(buffer)
              /\ \E c \in Cuts(buffer[n + 1]) :
                   file' = Appended(file, unended, Append(whole, c))
              /\ unended' = TRUE /\ torn' = torn + 1
  /\ waited' = 0 /\ attempt' = 0
  /\ UNCHANGED <<tool, bad, height, lastH, tot, fail, rows, report, runs>>

Work == \/ WriteHeader \/ Answered \/ Throttled \/ ThrottledTooLong \/ Retried \/ GivenUp
        \/ AddRow \/ Finish

Next ==
  \/ \E resume \in BOOLEAN : Start(resume)
  \/ Work
  \/ Interrupt
  \/ Kill

Spec == Init /\ [][Next]_vars

(* A run goes on: every call has a timeout and every pause an end. *)
FairSpec == Spec /\ WF_vars(Work)
(* summarise: "The size figures cannot be trusted", or can. *)
Trusted(r) == r.fail = 0 /\ r.tot.mark > 0

-----------------------------------------------------------------------------
(* What one uninterrupted run would count. *)
Exact == Totals([i \in 1 .. Hi - Lo + 1 |-> Row(Lo + i - 1)])

(* A cut line costs blocks, but no block is counted twice: the blocks of the *)
(* lines that count, told by their size because the height of a line may     *)
(* have run together with a cut one, rise, and the next row is of a later    *)
(* block.  (Two cut lines in a row can make up one that counts.)             *)
CountedOnce ==
  torn <= 1 =>
    LET g == GoodLines(file) \o buffer
    IN  /\ \A i \in 1 .. Len(g) - 1 : Number(g[i][2]) < Number(g[i + 1][2])
        /\ pc \in {"hash", "raw", "row"} /\ g # <<>> => Number(g[Len(g)][2]) < Size(height)

(* However often a run was interrupted, failed or was killed between two     *)
(* rows, and resumed, the run that ends has counted every block of the range *)
(* once, and as many mismatches as there are.  Even after a kill that left   *)
(* half a line, or a file without a header, the figures are those of every   *)
(* block if spam_strip says that they can be trusted; and no block is        *)
(* counted twice.                                                            *)
ResumeIsExact ==
  /\ report.done /\ torn = 0 =>
       /\ report.tot = Exact
       /\ tool = "strip" => report.fail = Cardinality(bad)
  /\ report.done /\ torn <= 1 /\ tool = "strip" /\ Trusted(report) => report.tot = Exact
  /\ CountedOnce

(* A run ends, whatever the node does: one that throttles every call makes   *)
(* rpc raise when the pauses of a call would exceed MaxWait, and failures    *)
(* that never pass are given up.  That is what rpc says of itself (lines     *)
(* 62-64 of inscription_scan.py) and not what the module's text says: it     *)
(* "waits out HTTP 403 throttling indefinitely rather than dying" (12).  A   *)
(* tool that did (WaitsIndefinitely) would never end under such a node.      *)
RunEnds == pc # "idle" ~> pc = "idle"
=============================================================================
