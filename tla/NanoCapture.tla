---------------------------- MODULE NanoCapture -----------------------------
(***************************************************************************)
(* The capture tool (tools/nano_capture.py): it keeps the bytes of the       *)
(* serial line as they come and writes the rows of a contract that the       *)
(* firmware has declared, by a configuration and two schemas, to files.      *)
(*                                                                         *)
(* Lines arrive in pieces, one or several in a read; the last piece has the  *)
(* newline.  A line is of one kind; one that is too long has a piece more,   *)
(* and is so as soon as its second piece is there.                           *)
(***************************************************************************)
EXTENDS Naturals, Sequences, SequencesExt, FiniteSets, FiniteSetsExt

CONSTANTS
    Rows,     \* lines the firmware sends by itself, of those below
    Damaged,  \* lines that are or become what they should not be, of those below
    Patience, \* seconds after which the tool gives up
    Again,    \* seconds between requests
    MaxLines, MaxFaults, MaxTime \* bounds

CaptureAssumption ==
    /\ Rows \subseteq {"csw", "cps", "status", "empty"}
    /\ Damaged \subseteq {"cfg other", "cfg bad", "sch other", "sch bad", "csw bad", "unknown", "long"}
    /\ {Patience, Again, MaxLines, MaxFaults, MaxTime} \subseteq Nat /\ 0 < Again

VARIABLES
    sent,    \* the lines that were sent: their kinds
    wire,    \* pieces under way: line, and whether it is the last piece
    \* the files
    raw,     \* pieces in wire_raw.log
    rows,    \* lines in PCSW.CSV and PCPS.CSV
    \* Capture
    pending, discarding, cfg, configured, schemas, counts, malformed, beforeReady, lines,
    \* run_capture()
    pc, now, since, requests, announced,
    asked    \* when the requests of this wait were sent

wvars == <<sent, wire, raw, rows>>
cvars == <<pending, discarding, cfg, configured, schemas, counts, malformed, beforeReady, lines>>
rvars == <<pc, now, since, requests, announced, asked>>
vars  == <<wvars, cvars, rvars>>

Init ==
    /\ sent = <<>> /\ wire = <<>> /\ raw = <<>> /\ rows = <<>>
    /\ pending = <<>> /\ discarding = FALSE /\ cfg = "none" /\ configured = FALSE /\ schemas = {}
    /\ counts = 0 /\ malformed = 0 /\ beforeReady = 0 /\ lines = 0
    /\ pc = "turn" /\ now = 0 /\ since = 0 /\ requests = 0 /\ announced = FALSE /\ asked = <<>>

Ready == configured /\ schemas = {"csw", "cps"}
-----------------------------------------------------------------------------
(* The firmware *)

Piece(n, last) == [line |-> n, last |-> last]
Pieces(n, kind) == IF kind = "long" THEN <<Piece(n, FALSE), Piece(n, FALSE), Piece(n, TRUE)>> ELSE <<Piece(n, FALSE), Piece(n, TRUE)>>

Send(kinds) ==
    /\ Len(sent) + Len(kinds) <= MaxLines /\ pc = "read" /\ wire = <<>> /\ sent' = sent \o kinds
    /\ Cardinality({n \in DOMAIN sent' : sent'[n] \in Damaged}) <= MaxFaults
    /\ wire' = FlattenSeq([i \in DOMAIN kinds |-> Pieces(Len(sent) + i, kinds[i])])
    /\ UNCHANGED <<raw, rows, cvars, rvars>>

\* The metadata is three lines, one of which may be damaged; a line of its own may be, too.
Metadata == <<"cfg", "sch csw", "sch cps">>
Emit ==
    \/ Send(Metadata) \/ (\E i \in 1..3, kind \in Damaged : Send([Metadata EXCEPT ![i] = kind]))
    \/ \E kind \in Rows \cup Damaged : Send(<<kind>>) \/ Send(<<kind, "csw">>)
-----------------------------------------------------------------------------
(* run_capture() *)

\* A turn of the loop: the wait begins anew when the contract has become invalid; a request is
\* sent now and then, and after a while the tool gives up.
Turn ==
    LET anew  == ~Ready /\ announced
        start == IF anew THEN now ELSE since
        sofar == IF anew THEN 0 ELSE requests
        late  == now - start >= Patience
        ask   == ~Ready /\ ~late /\ sofar < 3 /\ now - start >= sofar * Again
    IN  /\ pc = "turn" /\ since' = start /\ announced' = Ready
        /\ pc' = (IF ~Ready /\ late THEN "failing" ELSE "read")
        /\ requests' = sofar + (IF ask THEN 1 ELSE 0)
        /\ asked' = (IF anew THEN <<>> ELSE asked) \o (IF ask THEN <<now>> ELSE <<>>)
        /\ UNCHANGED <<wvars, cvars, now>>
-----------------------------------------------------------------------------
(* Capture.feed() *)

Capture == [pending |-> pending, discarding |-> discarding, cfg |-> cfg, configured |-> configured, schemas |-> schemas,
            counts |-> counts, malformed |-> malformed, beforeReady |-> beforeReady, lines |-> lines, rows |-> rows, error |-> FALSE]

Malformed(c, invalidates) ==
    IF invalidates THEN [c EXCEPT !.malformed = @ + 1, !.configured = FALSE, !.schemas = {}]
    ELSE [c EXCEPT !.malformed = @ + 1]

Counted(c) == [c EXCEPT !.counts = @ + 1]
Fatal(c)   == [c EXCEPT !.error = TRUE]

\* A row is written when the contract is complete.
Sample(c, n) ==
    IF c.configured /\ c.schemas = {"csw", "cps"} THEN Counted([c EXCEPT !.rows = Append(@, n)])
    ELSE [c EXCEPT !.beforeReady = @ + 1]

\* _line(), and _cfg(), _schema() and _sample().
Line(c, n) ==
    CASE sent[n] = "empty"     -> c
      [] sent[n] = "cfg"       -> IF c.cfg = "other" THEN Fatal(c) ELSE Counted([c EXCEPT !.cfg = "ours", !.configured = TRUE])
      [] sent[n] = "cfg other" -> IF c.cfg = "ours" THEN Fatal(c) ELSE Counted([c EXCEPT !.cfg = "other", !.configured = TRUE])
      [] sent[n] = "sch csw"   -> Counted([c EXCEPT !.schemas = @ \cup {"csw"}])
      [] sent[n] = "sch cps"   -> Counted([c EXCEPT !.schemas = @ \cup {"cps"}])
      [] sent[n] = "sch other" -> Fatal(c)
      [] sent[n] \in {"cfg bad", "sch bad"}     -> Malformed(c, TRUE)
      [] sent[n] \in {"csw", "cps"}             -> Sample(c, n)
      [] sent[n] = "status"                     -> Counted(c)
      [] sent[n] \in {"csw bad", "unknown"}     -> Malformed(c, FALSE)

\* A newline ends the pending line.
Ended(c, n) ==
    LET one == [c EXCEPT !.pending = <<>>, !.lines = @ + 1]
    IN  IF c.discarding THEN [c EXCEPT !.pending = <<>>, !.discarding = FALSE]
        ELSE IF Len(c.pending) > 1 THEN Malformed(one, TRUE) ELSE Line(one, n)

\* What is left without a newline is too long.
Overflow(c) ==
    IF Len(c.pending) <= 1 THEN c
    ELSE IF c.discarding THEN [c EXCEPT !.pending = <<>>]
    ELSE Malformed([c EXCEPT !.lines = @ + 1, !.pending = <<>>, !.discarding = TRUE], TRUE)

\* An error ends the work on the bytes that were read.
Taken(c, p) ==
    CASE c.error -> c
      [] ~c.error /\ p.last  -> Ended(c, p.line)
      [] ~c.error /\ ~p.last -> [c EXCEPT !.pending = Append(@, p)]

Fed(data) ==
    LET fed == FoldLeft(Taken, Capture, data) IN IF fed.error THEN fed ELSE Overflow(fed)

Becomes(c) ==
    /\ pending' = c.pending /\ discarding' = c.discarding /\ cfg' = c.cfg /\ configured' = c.configured /\ schemas' = c.schemas
    /\ counts' = c.counts /\ malformed' = c.malformed /\ beforeReady' = c.beforeReady /\ lines' = c.lines /\ rows' = c.rows

Feed(n) ==
    LET fed == Fed(SubSeq(wire, 1, n))
    IN  /\ pc = "read" /\ raw' = raw \o SubSeq(wire, 1, n) /\ wire' = SubSeq(wire, n + 1, Len(wire))
        /\ Becomes(fed) /\ pc' = (IF fed.error THEN "failing" ELSE "turn")
        /\ UNCHANGED <<sent, now, since, requests, announced, asked>>

\* The read times out.
ReadNothing ==
    /\ pc = "read" /\ wire = <<>> /\ pc' = "turn" /\ now < MaxTime /\ now' = now + 1
    /\ UNCHANGED <<wvars, cvars, since, requests, announced, asked>>

Interrupt == pc = "read" /\ pc' = "failing" /\ UNCHANGED <<wvars, cvars, now, since, requests, announced, asked>>

\* __exit__(): a line that was not ended is counted; one that is discarded was.
Finish ==
    LET open == IF pending # <<>> /\ ~discarding THEN 1 ELSE 0
    IN  /\ pc = "failing" /\ pc' = "end" /\ pending' = <<>>
        /\ lines' = lines + open /\ malformed' = malformed + open
        /\ UNCHANGED <<wvars, discarding, cfg, configured, schemas, counts, beforeReady, now, since, requests, announced, asked>>

Next ==
    \/ Emit \/ Turn \/ ReadNothing \/ Interrupt \/ Finish
    \/ \E n \in 1..Len(wire) : Feed(n)

Spec == Init /\ [][Next]_vars
-----------------------------------------------------------------------------
\* A line that was received invalidates the contract: a damaged line of metadata, or one that
\* may have been metadata.
Invalidates(n) == sent[n] \in {"cfg bad", "sch bad", "long"}

\* A row in the files is of a contract that stands: before it came a configuration and both
\* schemas, with nothing in between that left the contract in doubt, and all configurations so
\* far are the same (nano_capture.py, "CFG contract changed ... start a new recording").
RowsAreContracted ==
    \A i \in 1..Len(rows) : LET n == rows[i] IN
        /\ sent[n] \in {"csw", "cps"}
        /\ \A kind \in {{"cfg", "cfg other"}, {"sch csw"}, {"sch cps"}} :
              \E k \in 1..n - 1 : sent[k] \in kind /\ \A j \in k..n : ~Invalidates(j)
        /\ Cardinality({sent[k] : k \in 1..n - 1} \cap {"cfg", "cfg other"}) = 1

\* No line is lost or counted twice: the log is what was sent, and every line that was ended,
\* and the one that was not, is in exactly one of the counts, but for empty ones and the one
\* that ends the recording.
Complete == {n \in 1..Len(sent) : \E i \in 1..Len(raw) : raw[i] = Piece(n, TRUE)}
LinesAreCounted ==
    /\ raw \o wire = FlattenSeq([n \in 1..Len(sent) |-> Pieces(n, sent[n])])
    /\ pc = "turn" =>
          /\ counts + malformed + beforeReady = lines - Cardinality({n \in Complete : sent[n] = "empty"})
          /\ lines = Cardinality(Complete) + (IF discarding THEN 1 ELSE 0)
    /\ \A i, j \in 1..Len(rows) : i < j => rows[i] < rows[j]

\* The firmware is asked three times at most in a wait, not faster than agreed, and the tool
\* waits its time before it gives up.
AskingIsPaced ==
    /\ Len(asked) <= 3 /\ \A i \in 2..Len(asked) : asked[i] - asked[1] >= (i - 1) * Again
    /\ asked # <<>> => asked[Len(asked)] < since + Patience
=============================================================================
