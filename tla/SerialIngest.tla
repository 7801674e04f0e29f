---------------------------- MODULE SerialIngest ----------------------------
(***************************************************************************)
(* The stand-alone recorder of the firmware's tools (nano_serial_ingest.py). *)
(* A row reaches it in pieces, and a read that times out returns what has    *)
(* come so far as a line of its own.  Every line goes to the raw file first  *)
(* and is then routed to the file of its kind.  Files are buffered; a signal *)
(* ends the loop, an error of the port too, and a kill loses the buffers.    *)
(***************************************************************************)
EXTENDS Naturals, Sequences, SequencesExt, FiniteSets

CONSTANTS
    Kinds,       \* kinds of rows: of the structured streams, statuses, unknown tags
    RawFlush,    \* --raw-flush-every
    ParsedFlush, \* --parsed-flush-every
    MaxRows      \* bound

IngestAssumption == {RawFlush, ParsedFlush} \subseteq Nat \ {0} /\ MaxRows \in Nat

VARIABLES
    sent,     \* pieces sent: row, kind, part; a row has a tag, fields but the end of the last, and that end
    unread,   \* pieces received and not yet read
    raw,      \* raw_serial: the lines, each a run of pieces
    parsed,   \* lines in the files of structured rows and statuses, oldest first
    rejected, \* lines in malformed
    disk,     \* how much of raw, of parsed and of rejected is flushed
    since,    \* _raw_since_flush, _parsed_since_flush
    pc,       \* "read", "route" a line, or ended
    stopping, \* stop_requested
    manifest  \* what session_manifest.json says: status, lines of a known tag, malformed

ingvars == <<sent, unread, raw, parsed, rejected, disk, since, pc, stopping, manifest>>

Parts == <<"tag", "body", "end">>
NoManifest == [status |-> "none", lines |-> 0, malformed |-> 0]

Init ==
    /\ sent = <<>> /\ unread = <<>> /\ raw = <<>> /\ parsed = <<>> /\ rejected = <<>>
    /\ disk = [raw |-> 0, parsed |-> 0, rejected |-> 0] /\ since = [raw |-> 0, parsed |-> 0]
    /\ pc = "read" /\ stopping = FALSE /\ manifest = NoManifest

-----------------------------------------------------------------------------
\* The firmware sends the next piece of its row, or the first of another.
Arrive(kind) ==
    /\ IF sent # <<>> /\ Last(sent).part # "end"
       THEN kind = Last(sent).kind /\ sent' = Append(sent, [Last(sent) EXCEPT !.part = Parts[IF @ = "tag" THEN 2 ELSE 3]])
       ELSE Len(sent) < 3 * MaxRows /\ sent' = Append(sent, [row |-> Len(sent) \div 3 + 1, kind |-> kind, part |-> "tag"])
    /\ unread' = Append(unread, Last(sent'))
    /\ UNCHANGED <<raw, parsed, rejected, disk, since, pc, stopping, manifest>>

\* readline(): up to the newline, or what there is when the timeout runs out.
LineLengths ==
    LET ends == {k \in 1..Len(unread) : unread[k].part = "end"}
    IN  IF ends # {} THEN {CHOOSE k \in ends : \A j \in ends : k <= j} ELSE {Len(unread)}

\* Session.write_raw()
Read ==
    /\ pc = "read" /\ ~stopping /\ unread # <<>>
    /\ \E n \in LineLengths :
           raw' = Append(raw, SubSeq(unread, 1, n)) /\ unread' = SubSeq(unread, n + 1, Len(unread))
    /\ LET due == since.raw + 1 >= RawFlush
       IN  /\ since' = [since EXCEPT !.raw = IF due THEN 0 ELSE @ + 1]
           /\ disk' = IF due THEN [disk EXCEPT !.raw = Len(raw')] ELSE disk
    /\ pc' = "route" /\ UNCHANGED <<sent, parsed, rejected, stopping, manifest>>

\* What route_record() can tell: the tag, and for the structured streams the number of fields.
HasTag(line)     == line[1].part = "tag" /\ line[1].kind # "unknown"
HasFields(line)  == HasTag(line) /\ (line[1].kind = "structured" => Len(line) >= 2)

\* parsed_flush_tick(): every so many lines all but the raw file are flushed.
Parse(line) ==
    LET due == since.parsed + 1 >= ParsedFlush
    IN  /\ parsed' = Append(parsed, line) /\ since' = [since EXCEPT !.parsed = IF due THEN 0 ELSE @ + 1]
        /\ disk' = IF due THEN [disk EXCEPT !.parsed = Len(parsed')] ELSE disk
        /\ UNCHANGED rejected

Reject(line) ==
    /\ rejected' = Append(rejected, line) /\ disk' = [disk EXCEPT !.rejected = Len(rejected')]
    /\ UNCHANGED <<parsed, since>>

Route ==
    /\ pc = "route" /\ pc' = "read"
    /\ IF HasFields(Last(raw)) THEN Parse(Last(raw)) ELSE Reject(Last(raw))
    /\ UNCHANGED <<sent, unread, raw, stopping, manifest>>

Stop == pc \in {"read", "route"} /\ ~stopping /\ stopping' = TRUE
        /\ UNCHANGED <<sent, unread, raw, parsed, rejected, disk, since, pc, manifest>>

\* The loop ends, at a signal or with an error of the port: the manifest, and the files close.
End(status) ==
    /\ pc = "read" /\ (status = "stopped_signal" => stopping) /\ pc' = "ended"
    /\ manifest' = [status |-> status, lines |-> Cardinality({k \in DOMAIN raw : HasTag(raw[k])}), malformed |-> Len(rejected)]
    /\ disk' = [raw |-> Len(raw), parsed |-> Len(parsed), rejected |-> Len(rejected)]
    /\ UNCHANGED <<sent, unread, raw, parsed, rejected, since, stopping>>

Kill == pc \in {"read", "route"} /\ pc' = "killed"
        /\ UNCHANGED <<sent, unread, raw, parsed, rejected, disk, since, stopping, manifest>>

Next == (\E kind \in Kinds : Arrive(kind)) \/ Read \/ Route \/ Stop
        \/ End("stopped_signal") \/ End("error") \/ Kill

Spec == Init /\ [][Next]_ingvars
-----------------------------------------------------------------------------
OnDisk(lines, n) == SubSeq(lines, 1, n)
Holds(lines, line) == line \in ToSet(lines)

\* The raw file is the stream: nothing is lost, doubled or reordered, however reads cut it.
\* Each raw line is in one other file, in order, and with the raw file flushed at every line
\* nothing survives a kill that the raw file does not hold (nano_serial_ingest.py:116).
RawIsTheStream ==
    /\ FlattenSeq(raw) \o unread = sent
    /\ pc = "read" => Len(parsed) + Len(rejected) = Len(raw)
    /\ \A k \in 1..disk.parsed : Holds(OnDisk(raw, disk.raw), parsed[k])
    /\ \A k \in 1..disk.rejected : Holds(OnDisk(raw, disk.raw), rejected[k])
    /\ pc = "ended" => manifest.status # "none" /\ disk.raw = Len(raw) /\ manifest.malformed = disk.rejected
=============================================================================
