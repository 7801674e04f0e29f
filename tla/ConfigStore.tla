---------------------------- MODULE ConfigStore -----------------------------
(***************************************************************************)
(* What the firmware's configuration store promises to the host and to the *)
(* next boot: the saved configuration changes in one atomic step, to the   *)
(* one that was asked for; a request that is reported as failed changed    *)
(* nothing, one that is reported as done is what the next boot will load,  *)
(* and a power failure loses at most the request in progress.              *)
(***************************************************************************)
CONSTANTS Config,     \* configurations that may be saved
          NoConfig    \* nothing has been saved yet

VARIABLES stored,     \* what a boot would load now
          asked,      \* the request in progress, or NoConfig
          committed,  \* has it taken effect?
          answer      \* the last answer: "none", "ok" or "failed"

storeVars == <<stored, asked, committed, answer>>

Init == /\ stored = NoConfig
        /\ asked = NoConfig
        /\ committed = FALSE
        /\ answer = "none"

Ask(c) == /\ asked = NoConfig
          /\ asked' = c
          /\ answer' = "none"
          /\ UNCHANGED <<stored, committed>>

Commit == /\ asked # NoConfig /\ ~committed
          /\ stored' = asked
          /\ committed' = TRUE
          /\ UNCHANGED <<asked, answer>>

Confirm == /\ committed
           /\ answer' = "ok"
           /\ asked' = NoConfig
           /\ committed' = FALSE
           /\ UNCHANGED stored

Fail == /\ asked # NoConfig /\ ~committed
        /\ answer' = "failed"
        /\ asked' = NoConfig
        /\ UNCHANGED <<stored, committed>>

\* A request that needs no write is answered at once.
AnswerNow == /\ asked = NoConfig
             /\ answer' \in {"ok", "failed"}
             /\ UNCHANGED <<stored, asked, committed>>

\* A request cut short has taken effect entirely or not at all.
PowerFails == /\ stored' \in {stored} \cup ({asked} \ {NoConfig})
              /\ asked' = NoConfig
              /\ committed' = FALSE
              /\ answer' = "none"

Next == \/ \E c \in Config : Ask(c)
        \/ Commit \/ Confirm \/ Fail \/ AnswerNow \/ PowerFails

Spec == Init /\ [][Next]_storeVars
=============================================================================
