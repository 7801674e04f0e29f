---------------------------- MODULE EepromStore -----------------------------
(***************************************************************************)
(* The two-slot configuration store in the Nano's EEPROM and the commands  *)
(* that write it: `set`, `reset defaults` and `repair eeprom`.             *)
(*                                                                         *)
(* A slot is its commit marker, its sequence number and its configuration; *)
(* Garbage stands for every content that the magic, version, length,       *)
(* layout or CRC test rejects.  Power may fail between two writes and in   *)
(* the middle of one, and any written cell may fail to take its value.     *)
(***************************************************************************)
EXTENDS Integers

CONSTANTS Values,    \* what the tunables can be set to, one by one
          Config,    \* those validateConfig accepts
          Default,   \* the compiled defaults
          Garbage,   \* unreadable slot content
          NoConfig,  \* nothing loadable
          SeqMod     \* 2^32 in the code: sequence numbers wrap

ASSUME ConfigAssumption == /\ Config \subseteq Values
                           /\ Default \in Config
                           /\ Garbage \notin Values
                           /\ NoConfig \notin Values
ASSUME SeqAssumption == SeqMod \in Nat /\ SeqMod > 2

VARIABLES slot,        \* the EEPROM
          live,        \* the Tunables in RAM
          currentSeq,  \* currentSeq
          pc,          \* where the command in progress stands
          target,      \* addr: the slot being written
          writing,     \* cfg: the configuration being saved, or NoConfig
          nextSeq,     \* nextSeq
          before,      \* the live configuration to restore on failure
          reply        \* the status of the last command

vars == <<slot, live, currentSeq, pc, target, writing, nextSeq, before, reply>>
command == <<target, writing, nextSeq, before>>
-----------------------------------------------------------------------------
Slots   == {"A", "B"}
Markers == {"yes", "no", "torn"}   \* 0xA5, 0x00, any other byte
Seqs    == 0 .. SeqMod - 1

Blank == [commit |-> "no", seq |-> 0, cfg |-> Garbage]

Records == [commit : Markers, seq : Seqs, cfg : Config \cup {Garbage}]

SeqSucc(n) == IF n + 1 = SeqMod THEN 0 ELSE n + 1
SeqDiff(a, b) == IF a >= b THEN a - b ELSE a - b + SeqMod

\* isSeqNewer: the difference, read as a signed number, is positive.
Newer(a, b) == SeqDiff(a, b) > 0 /\ 2 * SeqDiff(a, b) < SeqMod

\* readRecordAt's valid.
Valid(r) == r.commit = "yes" /\ r.cfg \in Config

BothValid(sl) == Valid(sl["A"]) /\ Valid(sl["B"])
HasConfig(sl) == Valid(sl["A"]) \/ Valid(sl["B"])

\* The slot loadConfig takes, and what it returns and leaves in currentSeq.
Newest(sl) == IF Valid(sl["B"]) /\ (Valid(sl["A"]) => Newer(sl["B"].seq, sl["A"].seq))
              THEN "B" ELSE "A"
Loaded(sl)    == IF HasConfig(sl) THEN sl[Newest(sl)].cfg ELSE NoConfig
LoadedSeq(sl) == IF HasConfig(sl) THEN sl[Newest(sl)].seq ELSE 0

\* pickSaveAddr
SaveAddr(sl) == IF Valid(sl["A"]) /\ (Valid(sl["B"]) => Newer(sl["A"].seq, sl["B"].seq))
                THEN "B" ELSE "A"

\* saveConfig's baseSeq
BaseSeq(sl) == IF HasConfig(sl)
               THEN IF SaveAddr(sl) = "B" THEN sl["A"].seq ELSE sl["B"].seq
               ELSE currentSeq

Init == /\ slot = [s \in Slots |-> Blank]
        /\ live = Default
        /\ currentSeq = 0
        /\ pc = "off"
        /\ target = "A"
        /\ writing = NoConfig
        /\ nextSeq = 0
        /\ before = Default
        /\ reply = "none"
-----------------------------------------------------------------------------
\* pendulumSetup: load and apply, or keep the compiled defaults.
Boot == /\ pc = "off"
        /\ pc' = "idle"
        /\ live' = IF HasConfig(slot) THEN Loaded(slot) ELSE live
        /\ currentSeq' = LoadedSeq(slot)
        /\ UNCHANGED <<slot, command, reply>>

\* saveConfig up to the first write.
BeginSave(c) == /\ target' = SaveAddr(slot)
                /\ nextSeq' = SeqSucc(BaseSeq(slot))
                /\ writing' = c
                /\ before' = live
                /\ pc' = "invalidate"
                /\ reply' = "none"
                /\ UNCHANGED slot

\* handleSetCommand with a candidate validateConfig rejects.
SetRejected == /\ pc = "idle"
               /\ Values # Config
               /\ reply' = "invalid"
               /\ UNCHANGED <<slot, live, currentSeq, pc, command>>

Set(c) == /\ pc = "idle"
          /\ live' = c
          /\ BeginSave(c)
          /\ UNCHANGED currentSeq

ResetDefaults == /\ pc = "idle"
                 /\ live' = Default
                 /\ BeginSave(Default)
                 /\ UNCHANGED currentSeq

\* repairEeprom: nothing to repair from, nothing to repair, or a save of the
\* configuration loadConfig just returned.
RepairFromNothing == /\ pc = "idle" /\ ~HasConfig(slot)
                     /\ currentSeq' = LoadedSeq(slot)
                     /\ reply' = "failed"
                     /\ UNCHANGED <<slot, live, pc, command>>

RepairNothing == /\ pc = "idle" /\ BothValid(slot)
                 /\ currentSeq' = LoadedSeq(slot)
                 /\ reply' = "ok"
                 /\ UNCHANGED <<slot, live, pc, command>>

Repair == /\ pc = "idle" /\ HasConfig(slot) /\ ~BothValid(slot)
          /\ currentSeq' = LoadedSeq(slot)
          /\ BeginSave(Loaded(slot))
          /\ UNCHANGED live

\* getEepromLoadDiag, for a status report: it loads, and so moves currentSeq.
Diagnose == /\ pc = "idle"
            /\ currentSeq' = LoadedSeq(slot)
            /\ UNCHANGED <<slot, live, pc, command, reply>>
-----------------------------------------------------------------------------
(* saveConfig's writes *)

\* Mutant: the live settings keep the value that could not be saved.
KeepUnsaved == UNCHANGED live

RestoreLive == live' = before

\* saveConfig returns false; the command restores the live settings.
SaveFails == /\ RestoreLive
             /\ reply' = "failed"
             /\ pc' = "idle"
             /\ writing' = NoConfig
             /\ UNCHANGED <<currentSeq, target, nextSeq, before>>

Proceed(to) == pc' = to /\ UNCHANGED <<live, reply, writing, target, nextSeq, before>>

\* Slot s rewritten, entirely or in its marker only.
WithRecord(sl, s, r) == [sl EXCEPT ![s] = r]
WithMarker(s, m) ==
    WithRecord(slot, s, [commit |-> m, seq |-> slot[s].seq, cfg |-> slot[s].cfg])

\* What writing the marker m over a slot's marker can leave: EEPROM.update
\* writes only a byte that differs; a bad cell keeps its old value or takes
\* one that is no marker, and so does a write that power failure cuts short.
Written(s, m) == IF slot[s].commit = m THEN {m} ELSE {m, slot[s].commit, "torn"}

\* Mutant: the old record is overwritten while it is still committed.
InvalidateNothing == pc = "invalidate" /\ Proceed("header") /\ UNCHANGED <<slot, currentSeq>>

Invalidate == /\ pc = "invalidate"
              /\ \E m \in Written(target, "no") :
                    /\ slot' = WithMarker(target, m)
                    /\ IF m = "no" THEN Proceed("header") /\ UNCHANGED currentSeq
                                   ELSE SaveFails

\* The header bytes, the CRC of the new payload among them; a bad cell
\* leaves any sequence number.
WriteHeader == /\ pc = "header"
               /\ \E n \in Seqs :
                     slot' = WithRecord(slot, target,
                                 [commit |-> slot[target].commit, seq |-> n, cfg |-> Garbage])
               /\ Proceed("payload")
               /\ UNCHANGED currentSeq

WritePayload == /\ pc = "payload"
                /\ \E c \in {writing, Garbage} :
                     slot' = WithRecord(slot, target,
                                 [commit |-> slot[target].commit, seq |-> slot[target].seq, cfg |-> c])
                /\ Proceed("verify")
                /\ UNCHANGED currentSeq

\* Mutant: the sequence number is not read back.
VerifiedPayload == slot[target].cfg = writing

\* Every byte of the record reads back as written.
Verified == slot[target] = [commit |-> "no", seq |-> nextSeq, cfg |-> writing]

Verify == /\ pc = "verify"
          /\ IF Verified THEN Proceed("publish") /\ UNCHANGED currentSeq ELSE SaveFails
          /\ UNCHANGED slot

Publish == /\ pc = "publish"
           /\ \E m \in Written(target, "yes") :
                 /\ slot' = WithMarker(target, m)
                 /\ IF m = "yes" THEN currentSeq' = nextSeq /\ Proceed("reply")
                                 ELSE SaveFails

Acknowledge == /\ pc = "reply"
               /\ reply' = "ok"
               /\ pc' = "idle"
               /\ writing' = NoConfig
               /\ UNCHANGED <<slot, live, currentSeq, target, nextSeq, before>>

\* What a power failure in the middle of the current write leaves behind.
Torn == \/ UNCHANGED slot
        \/ /\ pc = "invalidate"
           /\ \E m \in Written(target, "no") : slot' = WithMarker(target, m)
        \/ /\ pc = "header"
           /\ \E n \in Seqs, c \in {slot[target].cfg, Garbage} :
                 slot' = WithRecord(slot, target,
                             [commit |-> slot[target].commit, seq |-> n, cfg |-> c])
        \/ /\ pc = "publish"
           /\ \E m \in Written(target, "yes") : slot' = WithMarker(target, m)

PowerFails == /\ pc # "off"
              /\ Torn
              /\ pc' = "off"
              /\ live' = Default
              /\ currentSeq' = 0
              /\ writing' = NoConfig
              /\ reply' = "none"
              /\ UNCHANGED <<target, nextSeq, before>>
-----------------------------------------------------------------------------
Command == \/ \E c \in Config : Set(c)
           \/ SetRejected \/ ResetDefaults
           \/ RepairFromNothing \/ RepairNothing \/ Repair \/ Diagnose

Save == Invalidate \/ WriteHeader \/ WritePayload \/ Verify \/ Publish \/ Acknowledge

Next == Boot \/ Command \/ Save \/ PowerFails

Spec == Init /\ [][Next]_vars
-----------------------------------------------------------------------------
TypeOK == /\ slot \in [Slots -> Records]
          /\ live \in Config
          /\ currentSeq \in Seqs
          /\ pc \in {"off", "idle", "invalidate", "header", "payload", "verify",
                     "publish", "reply"}
          /\ target \in Slots
          /\ writing \in Config \cup {NoConfig}
          /\ nextSeq \in Seqs
          /\ before \in Config
          /\ reply \in {"none", "ok", "failed", "invalid"}

\* Two valid records are consecutive: which of them is newer is never in
\* doubt, also across the wrap of the sequence number, so a save always
\* overwrites the older one.
SlotsAreConsecutive ==
    BothValid(slot) => \/ slot["A"].seq = SeqSucc(slot["B"].seq)
                 \/ slot["B"].seq = SeqSucc(slot["A"].seq)

\* Between commands the Nano runs what the next boot would load: a command
\* that failed half-way has changed neither, one that succeeded both.
LiveIsStored == (pc = "idle" /\ HasConfig(slot)) => live = Loaded(slot)

\* The commands and the two slots implement the atomic store: a marker that
\* is written last and read back is the one step that changes it.
Store == INSTANCE ConfigStore WITH
    stored <- Loaded(slot),
    asked <- writing,
    committed <- (pc = "reply"),
    answer <- IF reply = "invalid" THEN "failed" ELSE reply

SavesAreAtomic == Store!Spec
=============================================================================
