---------------------------- MODULE EepromProofs -----------------------------
(***************************************************************************)
(* EepromStore keeps its two records consecutive and implements the atomic *)
(* ConfigStore, for any set of configurations and any sequence width.      *)
(***************************************************************************)
EXTENDS EepromStore, TLAPS

USE ConfigAssumption, SeqAssumption
-----------------------------------------------------------------------------
(* Two consecutive records: which is loaded, which is overwritten *)

Consecutive(sl) ==
    BothValid(sl) => \/ sl["A"].seq = SeqSucc(sl["B"].seq)
                     \/ sl["B"].seq = SeqSucc(sl["A"].seq)

\* t may be overwritten: whatever it holds, o holds the successor.
Expendable(sl, t, o) == Valid(sl[t]) => Valid(sl[o]) /\ sl[o].seq = SeqSucc(sl[t].seq)

LEMMA SuccIsNewer ==
    ASSUME NEW n \in Seqs
    PROVE  SeqSucc(n) \in Seqs /\ Newer(SeqSucc(n), n) /\ ~Newer(n, SeqSucc(n))
  BY DEF Seqs, SeqSucc, SeqDiff, Newer

LEMMA LoadsTheOther ==
    ASSUME NEW sl \in [Slots -> Records], NEW t \in Slots, NEW o \in Slots, t # o,
           Expendable(sl, t, o)
    PROVE  /\ HasConfig(sl) <=> Valid(sl[o])
           /\ Loaded(sl) = IF Valid(sl[o]) THEN sl[o].cfg ELSE NoConfig
<1>1. sl[t] \in Records /\ sl[t].seq \in Seqs
  BY DEF Records
<1>2. Newer(SeqSucc(sl[t].seq), sl[t].seq) /\ ~Newer(sl[t].seq, SeqSucc(sl[t].seq))
  BY <1>1, SuccIsNewer
<1>3. HasConfig(sl) <=> Valid(sl[o])
  BY DEF HasConfig, Expendable, Slots
<1>4. Valid(sl[o]) => Newest(sl) = o
  BY <1>2 DEF Newest, Expendable, Slots
<1>. QED  BY <1>3, <1>4 DEF Loaded

LEMMA SaveAddrIsExpendable ==
    ASSUME NEW sl \in [Slots -> Records], Consecutive(sl),
           NEW o \in Slots, o # SaveAddr(sl)
    PROVE  /\ SaveAddr(sl) \in Slots
           /\ Expendable(sl, SaveAddr(sl), o)
           /\ Valid(sl[o]) => BaseSeq(sl) = sl[o].seq
           /\ currentSeq \in Seqs => BaseSeq(sl) \in Seqs
<1>1. sl["A"].seq \in Seqs /\ sl["B"].seq \in Seqs
  BY DEF Records, Slots
<1>2. /\ ~Newer(sl["B"].seq, SeqSucc(sl["B"].seq)) /\ Newer(SeqSucc(sl["B"].seq), sl["B"].seq)
      /\ ~Newer(sl["A"].seq, SeqSucc(sl["A"].seq)) /\ Newer(SeqSucc(sl["A"].seq), sl["A"].seq)
  BY <1>1, SuccIsNewer
<1>3. SaveAddr(sl) \in Slots
  BY DEF SaveAddr, Slots
<1>4. Expendable(sl, SaveAddr(sl), o)
  BY <1>2 DEF SaveAddr, Slots, Expendable, Consecutive, BothValid
<1>5. Valid(sl[o]) => BaseSeq(sl) = sl[o].seq
  BY DEF SaveAddr, Slots, BaseSeq, HasConfig
<1>6. currentSeq \in Seqs => BaseSeq(sl) \in Seqs
  BY <1>1 DEF BaseSeq
<1>. QED  BY <1>3, <1>4, <1>5, <1>6
\* While the expendable record is rewritten nothing else changes.
LEMMA RewriteKeepsTheOther ==
    ASSUME NEW sl \in [Slots -> Records], NEW t \in Slots, NEW o \in Slots, t # o,
           Expendable(sl, t, o), NEW r \in Records, r.commit # "yes",
           NEW sm, sm = WithRecord(sl, t, r)
    PROVE  /\ sm \in [Slots -> Records] /\ sm[o] = sl[o] /\ sm[t] = r
           /\ Consecutive(sm) /\ Expendable(sm, t, o)
           /\ HasConfig(sm) <=> HasConfig(sl)
           /\ Loaded(sm) = Loaded(sl)
<1>1. sm \in [Slots -> Records] /\ sm[o] = sl[o] /\ sm[t] = r
  BY DEF WithRecord
<1>2. ~Valid(sm[t])
  BY <1>1 DEF Valid
<1>3. Expendable(sm, t, o)
  BY <1>2 DEF Expendable
<1>4. Consecutive(sm)
  BY <1>2 DEF Consecutive, BothValid, Slots
<1>5. HasConfig(sm) <=> Valid(sm[o])
  BY <1>1, <1>3, LoadsTheOther
<1>6. Loaded(sm) = IF Valid(sm[o]) THEN sm[o].cfg ELSE NoConfig
  BY <1>1, <1>3, LoadsTheOther
<1>7. HasConfig(sl) <=> Valid(sl[o])
  BY LoadsTheOther
<1>8. Loaded(sl) = IF Valid(sl[o]) THEN sl[o].cfg ELSE NoConfig
  BY LoadsTheOther
<1>. QED  BY <1>1, <1>3, <1>4, <1>5, <1>6, <1>7, <1>8

\* A valid record with the successor's number is the one loaded.
LEMMA SuccessorIsLoaded ==
    ASSUME NEW sl \in [Slots -> Records], NEW t \in Slots, NEW o \in Slots, t # o,
           NEW r \in Records, Valid(r), Valid(sl[o]) => r.seq = SeqSucc(sl[o].seq),
           NEW sm, sm = WithRecord(sl, t, r)
    PROVE  /\ sm \in [Slots -> Records] /\ sm[o] = sl[o] /\ sm[t] = r
           /\ Consecutive(sm) /\ HasConfig(sm) /\ Loaded(sm) = r.cfg
<1>1. sm \in [Slots -> Records] /\ sm[o] = sl[o] /\ sm[t] = r
  BY DEF WithRecord
<1>2. Expendable(sm, o, t)
  BY <1>1 DEF Expendable
<1>3. Consecutive(sm)
  BY <1>1 DEF Consecutive, BothValid, Slots
<1>4. HasConfig(sm) <=> Valid(sm[t])
  BY <1>1, <1>2, LoadsTheOther
<1>5. Loaded(sm) = IF Valid(sm[t]) THEN sm[t].cfg ELSE NoConfig
  BY <1>1, <1>2, LoadsTheOther
<1>. QED  BY <1>1, <1>3, <1>4, <1>5
-----------------------------------------------------------------------------
(* The inductive invariant *)

Other == IF target = "A" THEN "B" ELSE "A"

Saving == pc \in {"invalidate", "header", "payload", "verify", "publish"}

\* While a save is on its way the other slot holds what a boot would load,
\* if anything does, and is what the live settings fall back to.
SaveIsSafe ==
    Saving =>
        /\ writing \in Config /\ live = writing
        /\ Expendable(slot, target, Other)
        /\ Valid(slot[Other]) => /\ nextSeq = SeqSucc(slot[Other].seq)
                                 /\ before = slot[Other].cfg
        /\ pc # "invalidate" => slot[target].commit = "no"
        /\ pc = "publish" => Verified

\* Once the marker is in place the new configuration is the one loaded.
SavedIsLoaded == pc = "reply" => writing \in Config /\ live = writing /\ Loaded(slot) = writing

AtRest == /\ pc \in {"off", "idle"} => writing = NoConfig
          /\ pc = "off" => live = Default

Inv == /\ TypeOK /\ SlotsAreConsecutive /\ LiveIsStored
       /\ SaveIsSafe /\ SavedIsLoaded /\ AtRest

LEMMA LoadedType ==
    ASSUME NEW sl \in [Slots -> Records]
    PROVE  /\ HasConfig(sl) => Loaded(sl) \in Config
           /\ ~HasConfig(sl) => Loaded(sl) = NoConfig
           /\ LoadedSeq(sl) \in Seqs
  BY DEF HasConfig, Loaded, LoadedSeq, Newest, Valid, Slots, Records, Seqs

LEMMA InitInv == Init => Inv
<1>. SUFFICES ASSUME Init PROVE Inv
  OBVIOUS
<1>1. Blank \in Records
  BY DEF Blank, Records, Markers, Seqs
<1>2. TypeOK
  BY <1>1 DEF Init, TypeOK, Slots, Seqs
<1>3. ~Valid(slot["A"]) /\ ~Valid(slot["B"])
  BY DEF Init, Blank, Valid, Slots
<1>. QED
  BY <1>2, <1>3 DEF Init, Inv, SlotsAreConsecutive, BothValid, LiveIsStored, SaveIsSafe, Saving,
       SavedIsLoaded, AtRest
-----------------------------------------------------------------------------
(* Every step keeps it *)

LEMMA InvFacts ==
    ASSUME Inv
    PROVE  /\ slot \in [Slots -> Records] /\ target \in Slots /\ Other \in Slots
           /\ target # Other /\ Consecutive(slot)
  BY DEF Inv, TypeOK, Other, Slots, SlotsAreConsecutive, Consecutive

\* A command that saves c starts from a state at rest.
LEMMA BeginStep ==
    ASSUME Inv, pc = "idle", NEW c \in Config, live' = c, BeginSave(c), currentSeq' \in Seqs
    PROVE  Inv'
<1>. DEFINE t == SaveAddr(slot)
            o == IF t = "A" THEN "B" ELSE "A"
<1>1. slot \in [Slots -> Records] /\ Consecutive(slot) /\ slot' = slot
      /\ target' = t /\ nextSeq' = SeqSucc(BaseSeq(slot)) /\ writing' = c
      /\ before' = live /\ pc' = "invalidate" /\ reply' = "none"
  BY InvFacts DEF BeginSave
<1>2. t \in Slots /\ o \in Slots /\ o # t /\ Other' = o
  BY <1>1 DEF SaveAddr, Slots, Other
<1>3. Expendable(slot, t, o)
  BY <1>1, <1>2, SaveAddrIsExpendable
<1>4. Valid(slot[o]) => BaseSeq(slot) = slot[o].seq
  BY <1>1, <1>2, SaveAddrIsExpendable
<1>5. BaseSeq(slot) \in Seqs
  BY <1>1, <1>2, SaveAddrIsExpendable DEF Inv, TypeOK
<1>6. SeqSucc(BaseSeq(slot)) \in Seqs
  BY <1>5, SuccIsNewer
<1>7. Valid(slot[o]) => live = slot[o].cfg
  BY <1>1, <1>2, <1>3, LoadsTheOther DEF Inv, LiveIsStored
<1>8. TypeOK'
  BY <1>1, <1>2, <1>6 DEF Inv, TypeOK
<1>9. SaveIsSafe'
  BY <1>1, <1>2, <1>3, <1>4, <1>7 DEF SaveIsSafe
<1>. QED
  BY <1>1, <1>8, <1>9 DEF Inv, SlotsAreConsecutive, BothValid, LiveIsStored, SavedIsLoaded, AtRest

\* A save that fails restores what is stored.
LEMMA FailStep ==
    ASSUME Inv, Saving, SaveFails,
           slot' \in [Slots -> Records], Consecutive(slot'),
           HasConfig(slot') <=> HasConfig(slot), Loaded(slot') = Loaded(slot)
    PROVE  Inv'
<1>1. live' = before /\ pc' = "idle" /\ writing' = NoConfig /\ reply' = "failed"
      /\ UNCHANGED <<currentSeq, target, nextSeq, before>>
  BY DEF SaveFails, RestoreLive
<1>2. HasConfig(slot) => Loaded(slot) = before
  BY InvFacts, LoadsTheOther DEF Inv, SaveIsSafe
<1>3. TypeOK'
  BY <1>1 DEF Inv, TypeOK
<1>. QED
  BY <1>1, <1>2, <1>3 DEF Inv, SlotsAreConsecutive, Consecutive, BothValid, LiveIsStored,
       SaveIsSafe, Saving, SavedIsLoaded, AtRest

\* A record that is being rewritten is not committed yet.
LEMMA RewriteStep ==
    ASSUME Inv, Saving, NEW r \in Records, r.commit # "yes",
           slot' = WithRecord(slot, target, r)
    PROVE  /\ slot' \in [Slots -> Records] /\ Consecutive(slot')
           /\ slot'[Other] = slot[Other] /\ slot'[target] = r
           /\ Expendable(slot', target, Other)
           /\ HasConfig(slot') <=> HasConfig(slot)
           /\ Loaded(slot') = Loaded(slot)
<1>1. slot \in [Slots -> Records] /\ target \in Slots /\ Other \in Slots /\ target # Other
  BY InvFacts
<1>2. Expendable(slot, target, Other)
  BY DEF Inv, SaveIsSafe
<1>. QED  BY <1>1, <1>2, RewriteKeepsTheOther

LEMMA ProceedStep ==
    ASSUME Inv, Saving, NEW to \in {"header", "payload", "verify", "publish"}, Proceed(to),
           currentSeq' = currentSeq,
           slot' \in [Slots -> Records], Consecutive(slot'),
           slot'[Other] = slot[Other], slot'[target].commit = "no",
           Expendable(slot', target, Other), to = "publish" => Verified'
    PROVE  Inv'
<1>1. pc' = to /\ UNCHANGED <<live, reply, writing, target, nextSeq, before>>
  BY DEF Proceed
<1>2. Other' = Other
  BY <1>1 DEF Other
<1>3. TypeOK'
  BY <1>1 DEF Inv, TypeOK
<1>4. SaveIsSafe'
  BY <1>1, <1>2 DEF Inv, SaveIsSafe
<1>. QED
  BY <1>1, <1>3, <1>4 DEF Inv, SlotsAreConsecutive, Consecutive, BothValid, LiveIsStored,
       SavedIsLoaded, AtRest

LEMMA MarkerRecord ==
    ASSUME Inv, NEW m \in Markers
    PROVE  [commit |-> m, seq |-> slot[target].seq, cfg |-> slot[target].cfg] \in Records
  BY InvFacts DEF Records

\* Writing a marker other than 0xA5 keeps the slot invalid or leaves it alone.
LEMMA MarkerStep ==
    ASSUME Inv, Saving, NEW m \in Markers, m # "yes" \/ slot[target].commit = "yes",
           slot' = WithMarker(target, m)
    PROVE  /\ slot' \in [Slots -> Records] /\ Consecutive(slot')
           /\ slot'[Other] = slot[Other] /\ slot'[target].commit = m
           /\ Expendable(slot', target, Other)
           /\ HasConfig(slot') <=> HasConfig(slot)
           /\ Loaded(slot') = Loaded(slot)
<1>. DEFINE r == [commit |-> m, seq |-> slot[target].seq, cfg |-> slot[target].cfg]
<1>1. r \in Records /\ slot' = WithRecord(slot, target, r)
  BY MarkerRecord DEF WithMarker
<1>2. CASE m # "yes"
  <2>1. r.commit = m
    OBVIOUS
  <2>. HIDE DEF r
  <2>. QED  BY <1>1, <1>2, <2>1, RewriteStep
<1>3. CASE m = "yes"
  <2>1. slot[target].commit = "yes" /\ slot[target] \in Records
    BY <1>3, InvFacts
  <2>2. r = slot[target]
    BY <1>3, <2>1 DEF Records
  <2>3. slot' = slot
    <3>1. slot' = WithRecord(slot, target, slot[target]) /\ slot \in [Slots -> Records]
      BY <1>1, <2>2, InvFacts
    <3>. QED  BY <3>1 DEF WithRecord
  <2>. QED  BY <1>3, <2>1, <2>3, InvFacts DEF Inv, SaveIsSafe
<1>. QED  BY <1>2, <1>3

\* Writing 0xA5 over a verified record makes it the one loaded.
LEMMA PublishedStep ==
    ASSUME Inv, pc = "publish", slot' = WithMarker(target, "yes")
    PROVE  /\ slot' \in [Slots -> Records] /\ Consecutive(slot')
           /\ HasConfig(slot') /\ Loaded(slot') = writing
<1>. DEFINE r == [commit |-> "yes", seq |-> slot[target].seq, cfg |-> slot[target].cfg]
<1>1. r \in Records /\ slot' = WithRecord(slot, target, r)
  BY MarkerRecord DEF WithMarker, Markers
<1>2. slot[target] = [commit |-> "no", seq |-> nextSeq, cfg |-> writing]
  BY DEF Inv, SaveIsSafe, Saving, Verified
<1>3. writing \in Config
  BY DEF Inv, SaveIsSafe, Saving
<1>4. Valid(r) /\ r.seq = nextSeq /\ r.cfg = writing
  BY <1>2, <1>3 DEF Valid
<1>5. Valid(slot[Other]) => r.seq = SeqSucc(slot[Other].seq)
  BY <1>4 DEF Inv, SaveIsSafe, Saving
<1>6. slot \in [Slots -> Records] /\ target \in Slots /\ Other \in Slots /\ target # Other
  BY InvFacts
<1>. QED  BY <1>1, <1>4, <1>5, <1>6, SuccessorIsLoaded

LEMMA WrittenIsMarker ==
    ASSUME Inv, NEW m \in Written(target, "no") \cup Written(target, "yes")
    PROVE  m \in Markers
  BY InvFacts DEF Written, Markers, Records

\* The record's header and payload are written into an uncommitted slot.
LEMMA BodyStep ==
    ASSUME Inv, WriteHeader \/ WritePayload
    PROVE  /\ Saving /\ slot' \in [Slots -> Records] /\ Consecutive(slot')
           /\ slot'[Other] = slot[Other] /\ slot'[target].commit = "no"
           /\ Expendable(slot', target, Other)
           /\ Loaded(slot') = Loaded(slot)
<1>1. Saving /\ slot[target].commit = "no" /\ writing \in Config
  BY DEF WriteHeader, WritePayload, Saving, Inv, SaveIsSafe
<1>2. PICK n \in Seqs, c \in {writing, Garbage} :
         slot' = WithRecord(slot, target, [commit |-> slot[target].commit, seq |-> n, cfg |-> c])
  <2>1. slot[target].seq \in Seqs
    BY InvFacts DEF Records
  <2>. QED  BY <2>1 DEF WriteHeader, WritePayload
<1>. DEFINE r == [commit |-> slot[target].commit, seq |-> n, cfg |-> c]
<1>3. r \in Records /\ r.commit = "no"
  BY <1>1, <1>2 DEF Records, Markers
<1>4. slot' = WithRecord(slot, target, r)
  BY <1>2
<1>. HIDE DEF r
<1>. QED  BY <1>1, <1>3, <1>4, RewriteStep

LEMMA SaveStep == Inv /\ Save => Inv'
<1>. SUFFICES ASSUME Inv, Save PROVE Inv'
  OBVIOUS
<1>1. CASE Invalidate
  <2>1. PICK m \in Written(target, "no") :
           /\ slot' = WithMarker(target, m)
           /\ IF m = "no" THEN Proceed("header") /\ currentSeq' = currentSeq ELSE SaveFails
    BY <1>1 DEF Invalidate
  <2>2. Saving /\ m \in Markers /\ (m # "yes" \/ slot[target].commit = "yes")
    BY <1>1, <2>1, WrittenIsMarker DEF Invalidate, Saving, Written
  <2>3. CASE m = "no"
    BY <2>1, <2>2, <2>3, MarkerStep, ProceedStep
  <2>4. CASE m # "no"
    BY <2>1, <2>2, <2>4, MarkerStep, FailStep
  <2>. QED  BY <2>3, <2>4
<1>2. CASE WriteHeader
  BY <1>2, BodyStep, ProceedStep DEF WriteHeader
<1>3. CASE WritePayload
  BY <1>3, BodyStep, ProceedStep DEF WritePayload
<1>4. CASE Verify
  <2>1. Saving /\ slot' = slot /\ slot[target].commit = "no" /\ Expendable(slot, target, Other)
    BY <1>4 DEF Verify, Saving, Inv, SaveIsSafe
  <2>2. CASE Verified
    <3>1. Proceed("publish") /\ currentSeq' = currentSeq
      BY <1>4, <2>2 DEF Verify
    <3>2. Verified'
      BY <2>1, <2>2, <3>1 DEF Verified, Proceed
    <3>. QED  BY <2>1, <3>1, <3>2, InvFacts, ProceedStep
  <2>3. CASE ~Verified
    BY <1>4, <2>1, <2>3, InvFacts, FailStep DEF Verify
  <2>. QED  BY <2>2, <2>3
<1>5. CASE Publish
  <2>1. PICK m \in Written(target, "yes") :
           /\ slot' = WithMarker(target, m)
           /\ IF m = "yes" THEN currentSeq' = nextSeq /\ Proceed("reply") ELSE SaveFails
    BY <1>5 DEF Publish
  <2>2. Saving /\ pc = "publish" /\ m \in Markers
    BY <1>5, <2>1, WrittenIsMarker DEF Publish, Saving
  <2>3. CASE m # "yes"
    BY <2>1, <2>2, <2>3, MarkerStep, FailStep
  <2>4. CASE m = "yes"
    <3>1. /\ slot' \in [Slots -> Records] /\ Consecutive(slot')
          /\ HasConfig(slot') /\ Loaded(slot') = writing
      BY <2>1, <2>2, <2>4, PublishedStep
    <3>2. currentSeq' = nextSeq /\ pc' = "reply"
          /\ UNCHANGED <<live, reply, writing, target, nextSeq, before>>
      BY <2>1, <2>4 DEF Proceed
    <3>3. writing \in Config /\ live = writing
      BY <2>2 DEF Inv, SaveIsSafe
    <3>4. TypeOK'
      BY <3>1, <3>2 DEF Inv, TypeOK
    <3>. QED
      BY <3>1, <3>2, <3>3, <3>4 DEF Inv, SlotsAreConsecutive, Consecutive, BothValid,
           LiveIsStored, SaveIsSafe, Saving, SavedIsLoaded, AtRest
  <2>. QED  BY <2>3, <2>4
<1>6. CASE Acknowledge
  BY <1>6 DEF Acknowledge, Inv, TypeOK, SlotsAreConsecutive, BothValid, LiveIsStored, SaveIsSafe,
       Saving, SavedIsLoaded, AtRest
<1>. QED  BY <1>1, <1>2, <1>3, <1>4, <1>5, <1>6 DEF Save

\* What a power failure leaves is loaded as before, or is the new record
\* complete: a record cut short is never committed.
LEMMA TornStep ==
    ASSUME Inv, Torn
    PROVE  /\ slot' \in [Slots -> Records] /\ Consecutive(slot')
           /\ Loaded(slot') \in {Loaded(slot)} \cup ({writing} \ {NoConfig})
<1>1. CASE UNCHANGED slot
  BY <1>1, InvFacts
<1>2. CASE pc = "invalidate" /\ \E m \in Written(target, "no") : slot' = WithMarker(target, m)
  <2>1. PICK m \in Written(target, "no") : slot' = WithMarker(target, m)
    BY <1>2
  <2>2. Saving /\ m \in Markers /\ (m # "yes" \/ slot[target].commit = "yes")
    BY <1>2, <2>1, WrittenIsMarker DEF Saving, Written
  <2>. QED  BY <2>1, <2>2, MarkerStep
<1>3. CASE pc = "header" /\ \E n \in Seqs, c \in {slot[target].cfg, Garbage} :
              slot' = WithRecord(slot, target, [commit |-> slot[target].commit, seq |-> n, cfg |-> c])
  <2>1. PICK n \in Seqs, c \in {slot[target].cfg, Garbage} :
           slot' = WithRecord(slot, target, [commit |-> slot[target].commit, seq |-> n, cfg |-> c])
    BY <1>3
  <2>. DEFINE r == [commit |-> slot[target].commit, seq |-> n, cfg |-> c]
  <2>2. Saving /\ slot[target].commit = "no"
    BY <1>3 DEF Saving, Inv, SaveIsSafe
  <2>3. r \in Records /\ r.commit = "no"
    BY <2>1, <2>2, InvFacts DEF Records, Markers
  <2>4. slot' = WithRecord(slot, target, r)
    BY <2>1
  <2>. HIDE DEF r
  <2>. QED  BY <2>2, <2>3, <2>4, RewriteStep
<1>4. CASE pc = "publish" /\ \E m \in Written(target, "yes") : slot' = WithMarker(target, m)
  <2>1. PICK m \in Written(target, "yes") : slot' = WithMarker(target, m)
    BY <1>4
  <2>2. Saving /\ m \in Markers /\ writing # NoConfig
    BY <1>4, <2>1, WrittenIsMarker DEF Saving, Inv, SaveIsSafe
  <2>3. CASE m = "yes"
    BY <1>4, <2>1, <2>2, <2>3, PublishedStep
  <2>4. CASE m # "yes"
    BY <2>1, <2>2, <2>4, MarkerStep
  <2>. QED  BY <2>3, <2>4
<1>. QED  BY <1>1, <1>2, <1>3, <1>4 DEF Torn

LEMMA PowerFailsStep == Inv /\ PowerFails => Inv'
<1>. SUFFICES ASSUME Inv, PowerFails PROVE Inv'
  OBVIOUS
<1>1. slot' \in [Slots -> Records] /\ Consecutive(slot')
  BY TornStep DEF PowerFails
<1>2. TypeOK'
  BY <1>1 DEF PowerFails, Inv, TypeOK, Seqs
<1>. QED
  BY <1>1, <1>2 DEF PowerFails, Inv, SlotsAreConsecutive, Consecutive, BothValid, LiveIsStored,
       SaveIsSafe, Saving, SavedIsLoaded, AtRest

LEMMA RestStep == Inv /\ (Boot \/ Command) => Inv'
<1>. SUFFICES ASSUME Inv, Boot \/ Command PROVE Inv'
  OBVIOUS
<1>1. /\ HasConfig(slot) => Loaded(slot) \in Config
      /\ LoadedSeq(slot) \in Seqs
  BY InvFacts, LoadedType
<1>2. CASE Boot
  BY <1>1, <1>2 DEF Boot, command, Inv, TypeOK, SlotsAreConsecutive, BothValid, LiveIsStored,
       SaveIsSafe, Saving, SavedIsLoaded, AtRest
<1>3. ASSUME NEW c \in Config, Set(c) PROVE Inv'
  BY <1>3, BeginStep DEF Set, Inv, TypeOK
<1>4. CASE ResetDefaults
  BY <1>4, BeginStep DEF ResetDefaults, Inv, TypeOK
<1>5. CASE Repair
  <2>1. live = Loaded(slot) /\ live' = live /\ live \in Config
    BY <1>5 DEF Repair, Inv, LiveIsStored, TypeOK
  <2>2. live' = Loaded(slot) /\ Loaded(slot) \in Config
    BY <2>1
  <2>. QED  BY <1>1, <1>5, <2>2, BeginStep DEF Repair
<1>6. CASE SetRejected \/ RepairFromNothing \/ RepairNothing \/ Diagnose
  BY <1>1, <1>6 DEF SetRejected, RepairFromNothing, RepairNothing, Diagnose, command, Inv, TypeOK,
       SlotsAreConsecutive, BothValid, LiveIsStored, SaveIsSafe, Saving, SavedIsLoaded, AtRest
<1>. QED  BY <1>2, <1>3, <1>4, <1>5, <1>6 DEF Command

LEMMA StepInv == Inv /\ [Next]_vars => Inv'
<1>. SUFFICES ASSUME Inv, [Next]_vars PROVE Inv'
  OBVIOUS
<1>1. CASE UNCHANGED vars
  BY <1>1 DEF vars, Inv, TypeOK, SlotsAreConsecutive, BothValid, HasConfig, LiveIsStored, SaveIsSafe,
       Saving, Other, Verified, SavedIsLoaded, AtRest
<1>. QED  BY <1>1, RestStep, SaveStep, PowerFailsStep DEF Next

\* Types and consecutive records, whatever fails and whenever the power goes.
THEOREM StoreIsSafe == Spec => [](TypeOK /\ SlotsAreConsecutive)
<1>1. Inv => TypeOK /\ SlotsAreConsecutive
  BY DEF Inv
<1>. QED  BY <1>1, InitInv, StepInv, PTL DEF Spec

\* The Nano runs what the next boot loads: after a command that failed, one that
\* succeeded, and a power failure in the middle of either.
THEOREM LiveMatchesStore == Spec => []LiveIsStored
<1>1. Inv => LiveIsStored
  BY DEF Inv
<1>. QED  BY <1>1, InitInv, StepInv, PTL DEF Spec
-----------------------------------------------------------------------------
(* The commands and the slots implement ConfigStore *)

LEMMA StoreInit == Init => Store!Init
<1>. SUFFICES ASSUME Init PROVE Store!Init
  OBVIOUS
<1>1. ~HasConfig(slot)
  BY DEF Init, HasConfig, Valid, Blank, Slots
<1>. QED  BY <1>1 DEF Init, Store!Init, Loaded

\* A save that fails is the store's Fail.
LEMMA StoreFails ==
    ASSUME Inv, Saving, SaveFails, Loaded(slot') = Loaded(slot)
    PROVE  Store!Fail
<1>1. writing \in Config /\ pc # "reply" /\ writing # NoConfig
  BY DEF Inv, SaveIsSafe, Saving
<1>. QED  BY <1>1 DEF SaveFails, Store!Fail

\* A write that proceeds is invisible.
LEMMA StoreStutters ==
    ASSUME Inv, Saving, NEW to \in {"header", "payload", "verify", "publish"}, Proceed(to),
           Loaded(slot') = Loaded(slot)
    PROVE  UNCHANGED Store!storeVars
  BY DEF Proceed, Saving, Store!storeVars

LEMMA StoreSaveStep == Inv /\ Save => [Store!Next]_(Store!storeVars)
<1>. SUFFICES ASSUME Inv, Save PROVE [Store!Next]_(Store!storeVars)
  OBVIOUS
<1>1. CASE Invalidate
  <2>1. PICK m \in Written(target, "no") :
           /\ slot' = WithMarker(target, m)
           /\ IF m = "no" THEN Proceed("header") /\ currentSeq' = currentSeq ELSE SaveFails
    BY <1>1 DEF Invalidate
  <2>2. Saving /\ m \in Markers /\ (m # "yes" \/ slot[target].commit = "yes")
    BY <1>1, <2>1, WrittenIsMarker DEF Invalidate, Saving, Written
  <2>3. Loaded(slot') = Loaded(slot)
    BY <2>1, <2>2, MarkerStep
  <2>. QED  BY <2>1, <2>2, <2>3, StoreFails, StoreStutters DEF Store!Next
<1>2. CASE WriteHeader
  BY <1>2, BodyStep, StoreStutters DEF WriteHeader
<1>3. CASE WritePayload
  BY <1>3, BodyStep, StoreStutters DEF WritePayload
<1>4. CASE Verify
  <2>1. Saving /\ Loaded(slot') = Loaded(slot)
    BY <1>4 DEF Verify, Saving
  <2>. QED  BY <1>4, <2>1, StoreFails, StoreStutters DEF Verify, Store!Next
<1>5. CASE Publish
  <2>1. PICK m \in Written(target, "yes") :
           /\ slot' = WithMarker(target, m)
           /\ IF m = "yes" THEN currentSeq' = nextSeq /\ Proceed("reply") ELSE SaveFails
    BY <1>5 DEF Publish
  <2>2. Saving /\ pc = "publish" /\ m \in Markers
    BY <1>5, <2>1, WrittenIsMarker DEF Publish, Saving
  <2>3. CASE m # "yes"
    <3>1. Loaded(slot') = Loaded(slot)
      BY <2>1, <2>2, <2>3, MarkerStep
    <3>. QED  BY <2>1, <2>2, <2>3, <3>1, StoreFails DEF Store!Next
  <2>4. CASE m = "yes"
    <3>1. Loaded(slot') = writing
      BY <2>1, <2>2, <2>4, PublishedStep
    <3>2. writing # NoConfig
      BY <2>2 DEF Inv, SaveIsSafe
    <3>. QED  BY <2>1, <2>2, <2>4, <3>1, <3>2 DEF Proceed, Store!Commit, Store!Next
  <2>. QED  BY <2>3, <2>4
<1>6. CASE Acknowledge
  BY <1>6 DEF Acknowledge, Store!Confirm, Store!Next
<1>. QED  BY <1>1, <1>2, <1>3, <1>4, <1>5, <1>6 DEF Save

LEMMA StorePowerFails == Inv /\ PowerFails => Store!PowerFails
  BY TornStep DEF PowerFails, Store!PowerFails

LEMMA StoreRestStep == Inv /\ (Boot \/ Command) => [Store!Next]_(Store!storeVars)
<1>. SUFFICES ASSUME Inv, Boot \/ Command PROVE [Store!Next]_(Store!storeVars)
  OBVIOUS
<1>1. CASE Boot
  BY <1>1 DEF Boot, command, Store!storeVars
<1>2. ASSUME pc = "idle", NEW c \in Config, BeginSave(c) PROVE Store!Ask(c)
  BY <1>2 DEF BeginSave, Inv, AtRest, Store!Ask
<1>3. ASSUME NEW c \in Config, Set(c) PROVE Store!Next
  BY <1>2, <1>3 DEF Set, Store!Next
<1>4. CASE ResetDefaults
  BY <1>2, <1>4 DEF ResetDefaults, Store!Next
<1>5. CASE Repair
  <2>1. Loaded(slot) \in Config
    BY <1>5, InvFacts, LoadedType DEF Repair
  <2>. QED  BY <1>2, <1>5, <2>1 DEF Repair, Store!Next
<1>6. CASE RepairFromNothing \/ RepairNothing
  BY <1>6 DEF RepairFromNothing, RepairNothing, command, Inv, AtRest, Store!AnswerNow, Store!Next
<1>7. CASE Diagnose
  BY <1>7 DEF Diagnose, command, Store!storeVars
<1>8. CASE SetRejected
  BY <1>8 DEF SetRejected, command, Inv, AtRest, Store!storeVars, Store!AnswerNow, Store!Next
<1>. QED  BY <1>1, <1>3, <1>4, <1>5, <1>6, <1>7, <1>8 DEF Command

\* The stored configuration changes in one step, to what was asked for; an
\* answer tells the truth about it and a power failure cannot split it.
THEOREM StoreIsAtomic == Spec => SavesAreAtomic
<1>1. Inv /\ [Next]_vars => [Store!Next]_(Store!storeVars)
  <2>. SUFFICES ASSUME Inv, [Next]_vars PROVE [Store!Next]_(Store!storeVars)
    OBVIOUS
  <2>1. CASE UNCHANGED vars
    BY <2>1 DEF vars, Store!storeVars
  <2>. QED  BY <2>1, StoreRestStep, StoreSaveStep, StorePowerFails DEF Next, Store!Next
<1>. QED  BY <1>1, StoreInit, InitInv, StepInv, PTL DEF Spec, SavesAreAtomic, Store!Spec
=============================================================================
