----------------------------- MODULE OledView -----------------------------
(***************************************************************************)
(* The bottom line of the OLED (oled.py, OledView): faults and recent       *)
(* errors shown in turn, a window of 21 characters at a time, while both    *)
(* lists change under the index that walks them.                            *)
(*                                                                          *)
(* A message is its number of windows long; clocks are the time left.       *)
(***************************************************************************)
EXTENDS Naturals, Sequences, SequencesExt

CONSTANTS
    Faults,   \* the faults warnings() can report, in its order (a sequence)
    Errors,   \* error texts of the transport, the recorder, the sensors
    Windows,  \* Windows[m]: screen widths of message m
    Ok,       \* the text shown when there is nothing to say
    Period,   \* a window is held so long (4 s)
    Ttl,      \* an error is kept so long (12 s)
    Kept      \* errors kept (6)

OledAssumption ==
    /\ Period \in Nat \ {0} /\ Ttl \in Nat \ {0} /\ Kept \in Nat \ {0}
    /\ \A i \in DOMAIN Faults : Windows[Faults[i]] \in Nat \ {0}
    /\ \A e \in Errors : Windows[e] \in Nat \ {0}
    /\ Windows[Ok] \in Nat \ {0}

VARIABLES
    faults,   \* faults at the last drawing
    errors,   \* errors at the last drawing
    alerts,   \* errors kept for showing, with the time left
    messages, \* what the line walks through
    index,    \* message_index, from 1
    window,   \* char_offset / 21
    wait      \* until next_ticker

olvars == <<faults, errors, alerts, messages, index, window, wait>>

InOrder(set) == SelectSeq(Faults, LAMBDA f : f \in set)
FaultSets == SUBSET {Faults[i] : i \in DOMAIN Faults}
LastOf(s, n) == IF Len(s) <= n THEN s ELSE SubSeq(s, Len(s) - n + 1, Len(s))

\* scroll_log() for the errors that were not there at the last drawing.
Scrolled(now) ==
    LastOf(alerts \o [i \in DOMAIN SetToSeq(now \ errors) |-> [text |-> SetToSeq(now \ errors)[i], left |-> Ttl]], Kept)

\* Mutant: the walk stays with its message.
AdvancedWithin(news) ==
    IF news THEN <<1, 0>>
    ELSE IF window + 1 < Windows[messages[index]] THEN <<index, window + 1>> ELSE <<index, 0>>

\* Where the walk is now: at the first message after news, else a window or a message on.
Advanced(news) ==
    IF news THEN <<1, 0>>
    ELSE IF window + 1 < Windows[messages[index]] THEN <<index, window + 1>>
    ELSE <<(index % Len(messages)) + 1, 0>>

\* lines(): one drawing.  found and now are what the status says.
Draw(found, now) ==
    LET changed  == InOrder(found) # faults
        scrolled == Scrolled(now)
        news     == changed \/ now \ errors # {}
        at       == Advanced(news)
        live     == SelectSeq(scrolled, LAMBDA a : a.left > 0)
        said     == InOrder(found) \o [i \in DOMAIN live |-> live[i].text]
        list     == IF said = <<>> THEN <<Ok>> ELSE said
        place    == IF at[1] > Len(list) THEN 1 ELSE at[1]
    IN  /\ faults' = InOrder(found) /\ errors' = now
        /\ IF news \/ wait = 0
           THEN /\ alerts' = live /\ messages' = list /\ index' = place
                /\ window' = IF list[place] # messages[at[1]] \/ at[2] >= Windows[list[place]] THEN 0 ELSE at[2]
                /\ wait' = Period
           ELSE alerts' = scrolled /\ UNCHANGED <<messages, index, window, wait>>

Pass ==
    /\ wait' = IF wait = 0 THEN 0 ELSE wait - 1
    /\ alerts' = [i \in DOMAIN alerts |-> [alerts[i] EXCEPT !.left = IF @ = 0 THEN 0 ELSE @ - 1]]
    /\ <<wait, alerts>>' # <<wait, alerts>>
    /\ UNCHANGED <<faults, errors, messages, index, window>>

Init ==
    /\ faults = <<>> /\ errors = {} /\ alerts = <<>>
    /\ messages = <<Ok>> /\ index = 1 /\ window = 0 /\ wait = 0

Drawing == \E found \in FaultSets, now \in SUBSET Errors : Draw(found, now)

\* The window has been held long enough.
Redraw == wait = 0 /\ Drawing

Next == Drawing \/ Pass

Spec == Init /\ [][Next]_olvars
FairSpec == Spec /\ WF_olvars(Pass) /\ WF_olvars(Redraw)
-----------------------------------------------------------------------------
\* The walk never leaves the list, whatever came and went since the last step.
WalkIsInside ==
    /\ index \in DOMAIN messages /\ window < Windows[messages[index]]
    /\ Len(alerts) <= Kept

\* Once faults and errors stay as they are, every standing fault is shown in full, again
\* and again.
Standing(f) == f \in ToSet(faults)
ShownInFull(f) == messages[index] = f /\ window = Windows[f] - 1
FaultsAreShown ==
    \A f \in {Faults[i] : i \in DOMAIN Faults} :
        /\ <>[][UNCHANGED <<faults, errors>>]_olvars
        /\ <>[]Standing(f)
        => []<>ShownInFull(f)
=============================================================================
